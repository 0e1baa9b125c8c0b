---------------------------- MODULE TonlibClient ----------------------------
(***************************************************************************)
(* The Java binding of tonlib, drinkless/org/ton/Client.java: senders that *)
(* share a read lock, the "tonlib thread" that takes batches of results    *)
(* out of the native library and calls the handlers, and close, which      *)
(* takes the write lock.                                                   *)
(*                                                                         *)
(* A query stands for one call of send, a sender for the coroutine thread  *)
(* that makes it.  The native library is external: it answers each query   *)
(* it was sent once, in any order, and reports updates under the id 0.     *)
(* Handlers end normally: handleResult swallows whatever they throw.       *)
(***************************************************************************)
EXTENDS Integers, Sequences, FiniteSets

CONSTANTS
    Queries,      \* calls of send
    None,         \* no query, no answer
    MaxUpdates,   \* bound on the updates of the library
    MaxEvents,    \* the size of the arrays a batch is received into (1000 in the code)
    MayClose      \* whether close is ever called

ASSUME ClientConstants ==
    /\ None \notin Queries
    /\ MaxUpdates \in Nat /\ MaxEvents \in Nat \ {0} /\ MayClose \in BOOLEAN

VARIABLES
    pc,               \* pc[q]: how far the send of q got
    id,               \* id[q]: the query id q got, 0 before
    closer,           \* how far close got
    isClientDestroyed,
    currentQueryId,
    handlers,         \* the keys of handlers; 0 is the update handler
    native,           \* queries the library works on
    events,           \* results the library has ready, oldest first
    batch,            \* results receiveQueries has yet to process
    answer,           \* answer[q]: the query whose answer q's handler got
    updates           \* history: updates the library reported

sending == <<pc, id, currentQueryId>>
library == <<native, events, updates>>
vars == <<pc, id, closer, isClientDestroyed, currentQueryId, handlers, native,
          events, batch, answer, updates>>

\* A result: the id it is filed under and the query it answers (None for an update).
Results == [id : Nat, query : Queries \cup {None}]

TypeOK ==
    /\ pc \in [Queries -> {"new", "waiting", "locked", "numbered", "registered",
                            "sent", "returned"}]
    /\ id \in [Queries -> Nat]
    /\ closer \in {"idle", "waiting", "locked", "stopping", "returned"}
    /\ isClientDestroyed \in BOOLEAN
    /\ currentQueryId \in Nat
    /\ handlers \in SUBSET Nat
    /\ native \in SUBSET Queries
    /\ events \in Seq(Results)
    /\ batch \in Seq(Results)
    /\ answer \in [Queries -> Queries \cup {None}]
    /\ updates \in 0..MaxUpdates

Init ==
    /\ pc = [q \in Queries |-> "new"]
    /\ id = [q \in Queries |-> 0]
    /\ closer = "idle"
    /\ isClientDestroyed = FALSE
    /\ currentQueryId = 0
    /\ handlers = {0}
    /\ native = {}
    /\ events = <<>> /\ batch = <<>>
    /\ answer = [q \in Queries |-> None]
    /\ updates = 0

-----------------------------------------------------------------------------
(* The lock and the stop flag.                                             *)

ReadLocked(q) == pc[q] \in {"locked", "numbered", "registered", "sent"}
WriteLocked == closer \in {"locked", "stopping"}

\* The assignment to stopFlag in processResult is commented out: it stays false.
stopFlag == FALSE

-----------------------------------------------------------------------------
(* send                                                                    *)

Call(q) ==
    /\ pc[q] = "new"
    /\ pc' = [pc EXCEPT ![q] = "waiting"]
    /\ UNCHANGED <<id, closer, isClientDestroyed, currentQueryId, handlers, library,
                   batch, answer>>

\* readLock.lock.  The branch for a destroyed client is never taken: close holds the
\* write lock for good once it has set the flag (see DestroyedIsLocked).
\* Faulty variant: the lock is left out.
SendLockNone(q) ==
    /\ pc[q] = "waiting"
    /\ pc' = [pc EXCEPT ![q] = "locked"]
    /\ UNCHANGED <<id, closer, isClientDestroyed, currentQueryId, handlers, library,
                   batch, answer>>
SendLock(q) ==
    /\ pc[q] = "waiting" /\ ~ WriteLocked
    /\ pc' = [pc EXCEPT ![q] = "locked"]
    /\ UNCHANGED <<id, closer, isClientDestroyed, currentQueryId, handlers, library,
                   batch, answer>>

\* currentQueryId.incrementAndGet
\* Faulty variants: the id is read before it is incremented; it is not incremented; it
\* is counted down.
SendNumberOld(q) ==
    /\ pc[q] = "locked"
    /\ currentQueryId' = currentQueryId + 1
    /\ id' = [id EXCEPT ![q] = currentQueryId]
    /\ pc' = [pc EXCEPT ![q] = "numbered"]
    /\ UNCHANGED <<closer, isClientDestroyed, handlers, library, batch, answer>>
SendNumberStuck(q) ==
    /\ pc[q] = "locked"
    /\ id' = [id EXCEPT ![q] = currentQueryId + 1]
    /\ pc' = [pc EXCEPT ![q] = "numbered"]
    /\ UNCHANGED <<closer, isClientDestroyed, currentQueryId, handlers, library, batch,
                   answer>>
SendNumberDown(q) ==
    /\ pc[q] = "locked"
    /\ currentQueryId' = currentQueryId - 1
    /\ id' = [id EXCEPT ![q] = currentQueryId - 1]
    /\ pc' = [pc EXCEPT ![q] = "numbered"]
    /\ UNCHANGED <<closer, isClientDestroyed, handlers, library, batch, answer>>
SendNumber(q) ==
    /\ pc[q] = "locked"
    /\ currentQueryId' = currentQueryId + 1
    /\ id' = [id EXCEPT ![q] = currentQueryId + 1]
    /\ pc' = [pc EXCEPT ![q] = "numbered"]
    /\ UNCHANGED <<closer, isClientDestroyed, handlers, library, batch, answer>>

\* handlers.put
SendRegister(q) ==
    /\ pc[q] = "numbered"
    /\ handlers' = handlers \cup {id[q]}
    /\ pc' = [pc EXCEPT ![q] = "registered"]
    /\ UNCHANGED <<id, closer, isClientDestroyed, currentQueryId, library, batch, answer>>

\* nativeClientSend
SendNative(q) ==
    /\ pc[q] = "registered"
    /\ native' = native \cup {q}
    /\ pc' = [pc EXCEPT ![q] = "sent"]
    /\ UNCHANGED <<id, closer, isClientDestroyed, currentQueryId, handlers, events,
                   updates, batch, answer>>

\* readLock.unlock
SendUnlock(q) ==
    /\ pc[q] = "sent"
    /\ pc' = [pc EXCEPT ![q] = "returned"]
    /\ UNCHANGED <<id, closer, isClientDestroyed, currentQueryId, handlers, library,
                   batch, answer>>

-----------------------------------------------------------------------------
(* The native library.                                                     *)

NativeAnswer(q) ==
    /\ q \in native
    /\ native' = native \ {q}
    /\ events' = Append(events, [id |-> id[q], query |-> q])
    /\ UNCHANGED <<sending, closer, isClientDestroyed, handlers, batch, answer, updates>>

NativeUpdate ==
    /\ updates < MaxUpdates
    /\ updates' = updates + 1
    /\ events' = Append(events, [id |-> 0, query |-> None])
    /\ UNCHANGED <<sending, closer, isClientDestroyed, handlers, native, batch, answer>>

-----------------------------------------------------------------------------
(* The tonlib thread: run, receiveQueries, processResult.                  *)

\* nativeClientReceive returns at most MaxEvents results, the rest waits.
\* Faulty variant: the rest is dropped.
ReceiveDropping ==
    /\ ~ stopFlag
    /\ batch = <<>> /\ events # <<>>
    /\ batch' = SubSeq(events, 1, IF Len(events) < MaxEvents THEN Len(events) ELSE MaxEvents)
    /\ events' = <<>>
    /\ UNCHANGED <<sending, closer, isClientDestroyed, handlers, native, answer, updates>>
Receive ==
    /\ ~ stopFlag
    /\ batch = <<>> /\ events # <<>>
    /\ LET n == IF Len(events) < MaxEvents THEN Len(events) ELSE MaxEvents
       IN /\ batch' = SubSeq(events, 1, n)
          /\ events' = SubSeq(events, n + 1, Len(events))
    /\ UNCHANGED <<sending, closer, isClientDestroyed, handlers, native, answer, updates>>

\* Whose handler is registered under a result's id.
Addressee(q, result) == id[q] = result.id /\ result.id # 0

\* processResult: the update handler stays, any other is removed; a handler that is
\* no longer there is not called.
\* Faulty variant: the handler stays registered.
ProcessKept ==
    /\ batch # <<>>
    /\ LET result == Head(batch) IN
        /\ UNCHANGED handlers
        /\ answer' = [q \in Queries |->
                        IF Addressee(q, result) /\ result.id \in handlers
                        THEN result.query ELSE answer[q]]
    /\ batch' = Tail(batch)
    /\ UNCHANGED <<sending, closer, isClientDestroyed, library>>
Process ==
    /\ batch # <<>>
    /\ LET result == Head(batch) IN
        /\ handlers' = IF result.id = 0 THEN handlers ELSE handlers \ {result.id}
        /\ answer' = [q \in Queries |->
                        IF Addressee(q, result) /\ result.id \in handlers
                        THEN result.query ELSE answer[q]]
    /\ batch' = Tail(batch)
    /\ UNCHANGED <<sending, closer, isClientDestroyed, library>>

-----------------------------------------------------------------------------
(* close                                                                   *)

CloseCall ==
    /\ MayClose /\ closer = "idle"
    /\ closer' = "waiting"
    /\ UNCHANGED <<sending, isClientDestroyed, handlers, library, batch, answer>>

\* writeLock.lock
CloseLock ==
    /\ closer = "waiting"
    /\ \A q \in Queries : ~ ReadLocked(q)
    /\ closer' = "locked"
    /\ UNCHANGED <<sending, isClientDestroyed, handlers, library, batch, answer>>

\* isClientDestroyed is set, and close yields until stopFlag is: for ever.
CloseStop ==
    /\ closer = "locked"
    /\ isClientDestroyed' = TRUE
    /\ closer' = IF stopFlag THEN "returned" ELSE "stopping"
    /\ UNCHANGED <<sending, handlers, library, batch, answer>>

-----------------------------------------------------------------------------

SendStep(q) ==
    SendLock(q) \/ SendNumber(q) \/ SendRegister(q) \/ SendNative(q) \/ SendUnlock(q)

Next ==
    \/ \E q \in Queries :
        \/ Call(q) \/ SendLock(q) \/ SendNumber(q) \/ SendRegister(q)
        \/ SendNative(q) \/ SendUnlock(q) \/ NativeAnswer(q)
    \/ NativeUpdate \/ Receive \/ Process
    \/ CloseCall \/ CloseLock \/ CloseStop

\* Threads run, and the library answers what it was sent.  Nobody has to call.
Fairness ==
    /\ \A q \in Queries : WF_vars(SendStep(q)) /\ WF_vars(NativeAnswer(q))
    /\ WF_vars(Receive) /\ WF_vars(Process)
    /\ WF_vars(CloseLock) /\ WF_vars(CloseStop)

Spec == Init /\ [][Next]_vars
FairSpec == Spec /\ Fairness

-----------------------------------------------------------------------------
(* Properties.                                                             *)

\* An answer to q is ready but not processed yet.
Ready(q) ==
    \/ \E i \in 1..Len(events) : events[i].query = q
    \/ \E i \in 1..Len(batch) : batch[i].query = q

\* No answer finds its handler missing: whatever the library works on or has ready was
\* registered before, under an id no other query has (send puts the handler before
\* nativeClientSend, and ids come from an atomic counter).
HandlerWaits ==
    \A q \in Queries : q \in native \/ Ready(q) =>
        /\ id[q] \in handlers \ {0} /\ answer[q] = None
        /\ \A p \in Queries : p # q => id[p] # id[q]

\* Every registered handler except the one for updates is still owed an answer: the
\* table of handlers does not leak (close waits for it to shrink to one entry).
HandlerIsOwed ==
    \A n \in handlers \ {0} : \E q \in Queries :
        /\ id[q] = n /\ answer[q] = None
        /\ pc[q] = "registered" \/ q \in native \/ Ready(q)

\* Nobody gets past the lock of a client that is being destroyed, so no query reaches a
\* library about to go away, and send never sees the flag.
DestroyedIsLocked ==
    isClientDestroyed => WriteLocked /\ \A q \in Queries : ~ ReadLocked(q)

\* The client implements the query service: handlers called once, with their own answer.
Service == INSTANCE QueryService WITH asked <- {q \in Queries : pc[q] # "new"}
ServiceSpec == Service!Spec

\* Javadoc of send: the result handler "will be called with result of the query or with
\* TonApi.Error as parameter" - unless close is called, which never lets it return.
SendAnswered ==
    \A q \in Queries : pc[q] = "waiting" ~> answer[q] # None \/ closer # "idle"

\* Javadoc of close: "Closes Client."
CloseReturns == closer = "waiting" ~> closer = "returned"

=============================================================================
