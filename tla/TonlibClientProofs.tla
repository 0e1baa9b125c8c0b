------------------------- MODULE TonlibClientProofs -------------------------
(***************************************************************************)
(* Theorems about TonlibClient for every set of queries and every bound.   *)
(***************************************************************************)
EXTENDS TonlibClient, SequenceTheorems, TLAPS

USE ClientConstants DEF sending, library

-----------------------------------------------------------------------------
(* Type correctness.                                                       *)

\* What a batch takes out of the ready results and what it leaves.
LEMMA ReceiveSplits ==
    ASSUME TypeOK, Receive
    PROVE  \E n \in 0..Len(events) :
            /\ batch = <<>>
            /\ batch' \in Seq(Results) /\ Len(batch') = n
            /\ \A i \in 1..n : batch'[i] = events[i]
            /\ events' \in Seq(Results) /\ Len(events') = Len(events) - n
            /\ \A i \in 1..(Len(events) - n) : events'[i] = events[n + i]
<1> DEFINE n == IF Len(events) < MaxEvents THEN Len(events) ELSE MaxEvents
<1>1. n \in 0..Len(events)
  BY DEF TypeOK
<1>2. batch = <<>> /\ batch' = SubSeq(events, 1, n)
      /\ events' = SubSeq(events, n + 1, Len(events))
  BY DEF Receive
<1> HIDE DEF n
<1>3. \A i \in 1..Len(events) : events[i] \in Results
  BY DEF TypeOK
<1>4. SubSeq(events, 1, n) \in Seq(Results) /\ Len(SubSeq(events, 1, n)) = n
      /\ \A i \in 1..n : SubSeq(events, 1, n)[i] = events[i]
  BY <1>1, <1>3, SubSeqProperties DEF TypeOK
<1>5. LET rest == SubSeq(events, n + 1, Len(events))
      IN  /\ rest \in Seq(Results) /\ Len(rest) = Len(events) - n
          /\ \A i \in 1..(Len(events) - n) : rest[i] = events[n + i]
  BY <1>1, <1>3, SubSeqProperties DEF TypeOK
<1>6. batch' \in Seq(Results) /\ Len(batch') = n
      /\ \A i \in 1..n : batch'[i] = events[i]
  BY <1>2, <1>4
<1>7. events' \in Seq(Results) /\ Len(events') = Len(events) - n
      /\ \A i \in 1..(Len(events) - n) : events'[i] = events[n + i]
  BY <1>2, <1>5
<1> WITNESS n \in 0..Len(events)
<1> QED
  BY <1>2, <1>6, <1>7

\* Every variable keeps its type, whatever the interleaving of the threads.
THEOREM TypeCorrect == Spec => []TypeOK
<1>1. Init => TypeOK
  <2> SUFFICES ASSUME Init PROVE TypeOK
    OBVIOUS
  <2>1. events \in Seq(Results) /\ batch \in Seq(Results)
    BY DEF Init
  <2>2. updates \in 0..MaxUpdates
    BY DEF Init
  <2>3. pc \in [Queries -> {"new", "waiting", "locked", "numbered", "registered",
                            "sent", "returned"}]
    BY DEF Init
  <2>4. id \in [Queries -> Nat] /\ answer \in [Queries -> Queries \cup {None}]
    BY DEF Init
  <2>5. handlers \in SUBSET Nat /\ native \in SUBSET Queries
    BY DEF Init
  <2> QED
    BY <2>1, <2>2, <2>3, <2>4, <2>5 DEF Init, TypeOK
<1>2. TypeOK /\ [Next]_vars => TypeOK'
  <2> SUFFICES ASSUME TypeOK, [Next]_vars PROVE TypeOK'
    OBVIOUS
  <2>1. ASSUME NEW q \in Queries, Call(q) PROVE TypeOK'
    BY <2>1 DEF Call, TypeOK
  <2>2. ASSUME NEW q \in Queries, SendLock(q) PROVE TypeOK'
    BY <2>2 DEF SendLock, TypeOK
  <2>3. ASSUME NEW q \in Queries, SendNumber(q) PROVE TypeOK'
    BY <2>3 DEF SendNumber, TypeOK
  <2>4. ASSUME NEW q \in Queries, SendRegister(q) PROVE TypeOK'
    BY <2>4 DEF SendRegister, TypeOK
  <2>5. ASSUME NEW q \in Queries, SendNative(q) PROVE TypeOK'
    BY <2>5 DEF SendNative, TypeOK
  <2>6. ASSUME NEW q \in Queries, SendUnlock(q) PROVE TypeOK'
    BY <2>6 DEF SendUnlock, TypeOK
  <2>7. ASSUME NEW q \in Queries, NativeAnswer(q) PROVE TypeOK'
    BY <2>7 DEF NativeAnswer, TypeOK, Results
  <2>8. CASE NativeUpdate
    BY <2>8 DEF NativeUpdate, TypeOK, Results
  <2>9. CASE Receive
    <3>1. events' \in Seq(Results) /\ batch' \in Seq(Results)
      BY <2>9, ReceiveSplits
    <3> QED
      BY <2>9, <3>1 DEF Receive, TypeOK
  <2>10. CASE Process
    <3>1. Head(batch) \in Results /\ batch' \in Seq(Results)
      BY <2>10, HeadTailProperties DEF Process, TypeOK
    <3>2. answer' \in [Queries -> Queries \cup {None}]
      BY <2>10, <3>1 DEF Process, TypeOK, Results
    <3>3. handlers' \in SUBSET Nat
      BY <2>10 DEF Process, TypeOK
    <3> QED
      BY <2>10, <3>1, <3>2, <3>3 DEF Process, TypeOK
  <2>11. CASE CloseCall
    BY <2>11 DEF CloseCall, TypeOK
  <2>12. CASE CloseLock
    BY <2>12 DEF CloseLock, TypeOK
  <2>13. CASE CloseStop
    BY <2>13 DEF CloseStop, TypeOK
  <2>14. CASE UNCHANGED vars
    BY <2>14 DEF vars, TypeOK
  <2> QED
    BY <2>1, <2>2, <2>3, <2>4, <2>5, <2>6, <2>7, <2>8, <2>9, <2>10, <2>11, <2>12,
       <2>13, <2>14 DEF Next
<1> QED
  BY <1>1, <1>2, PTL DEF Spec

-----------------------------------------------------------------------------
(* The lock.                                                               *)

\* close excludes the senders from the moment it holds the lock, and keeps it.
LockInv ==
    /\ closer # "returned"
    /\ isClientDestroyed => closer = "stopping"
    /\ WriteLocked => \A q \in Queries : ~ ReadLocked(q)

\* A client being destroyed is locked for good: no sender passes, so the branch of send
\* for a destroyed client is dead code and no query reaches a dying library.
THEOREM DestroyedStaysLocked == Spec => []DestroyedIsLocked
<1>1. Init => LockInv
  BY DEF Init, LockInv, WriteLocked
<1>2. TypeOK /\ LockInv /\ [Next]_vars => LockInv'
  <2> SUFFICES ASSUME TypeOK, LockInv, [Next]_vars PROVE LockInv'
    OBVIOUS
  <2> USE DEF LockInv, WriteLocked, ReadLocked
  <2>1. ASSUME NEW q \in Queries,
               \/ Call(q) \/ SendNumber(q) \/ SendRegister(q) \/ SendNative(q)
               \/ SendUnlock(q)
        PROVE  LockInv'
    <3>1. UNCHANGED <<closer, isClientDestroyed>>
      BY <2>1 DEF Call, SendNumber, SendRegister, SendNative, SendUnlock
    <3>2. \A p \in Queries : ReadLocked(p)' => ReadLocked(p)
      BY <2>1 DEF TypeOK, Call, SendNumber, SendRegister, SendNative, SendUnlock
    <3> QED
      BY <3>1, <3>2
  <2>2. ASSUME NEW q \in Queries, SendLock(q) PROVE LockInv'
    BY <2>2 DEF SendLock
  <2>3. CASE UNCHANGED <<pc, closer, isClientDestroyed>>
    BY <2>3
  <2>4. CASE CloseCall
    BY <2>4 DEF CloseCall
  <2>5. CASE CloseLock
    BY <2>5 DEF CloseLock
  <2>6. CASE CloseStop
    BY <2>6 DEF CloseStop, stopFlag
  <2>7. (\E q \in Queries : NativeAnswer(q)) \/ NativeUpdate \/ Receive \/ Process
           \/ UNCHANGED vars
        => UNCHANGED <<pc, closer, isClientDestroyed>>
    BY DEF NativeAnswer, NativeUpdate, Receive, Process, vars
  <2> QED
    BY <2>1, <2>2, <2>3, <2>4, <2>5, <2>6, <2>7 DEF Next
<1>3. LockInv => DestroyedIsLocked
  BY DEF LockInv, DestroyedIsLocked, WriteLocked
<1> QED
  BY <1>1, <1>2, <1>3, TypeCorrect, PTL DEF Spec

-----------------------------------------------------------------------------
(* Ids, handlers and results.                                              *)

\* The results on their way to the handlers, oldest first: the batch, then the library's.
Size == Len(batch) + Len(events)
Item(i) == IF i <= Len(batch) THEN batch[i] ELSE events[i - Len(batch)]

Numbered(q) == pc[q] \in {"numbered", "registered", "sent", "returned"}

\* A query somebody still owes an answer: it was sent and its handler waits.
Open(q) == pc[q] \in {"sent", "returned"} /\ id[q] \in handlers /\ answer[q] = None

\* Ids are positive and unique from the moment they are drawn.
IdInv ==
    \A q \in Queries :
        /\ ~ Numbered(q) => id[q] = 0
        /\ Numbered(q) => id[q] \in 1..currentQueryId
        /\ \A p \in Queries : Numbered(p) /\ Numbered(q) /\ p # q => id[p] # id[q]

\* A handler is registered before its query is sent, and called at most once.
SendInv ==
    \A q \in Queries :
        /\ pc[q] \notin {"sent", "returned"} => answer[q] = None
        /\ pc[q] = "registered" => id[q] \in handlers
        /\ q \in native => Open(q)

\* A result carries the id of its query, and no query has two.
ResultInv ==
    /\ \A i \in 1..Size : Item(i).query = None => Item(i).id = 0
    /\ \A i \in 1..Size : \A q \in Queries :
        Item(i).query = q => Item(i).id = id[q] /\ Open(q) /\ q \notin native
    /\ \A i, j \in 1..Size : Item(i).query = Item(j).query /\ Item(i).query # None => i = j

\* The converse of SendInv: a registered handler has a query that is owed an answer.
OwedInv ==
    \A n \in handlers \ {0} : \E q \in Queries :
        /\ id[q] = n /\ Numbered(q) /\ answer[q] = None
        /\ pc[q] = "registered" \/ q \in native \/ \E i \in 1..Size : Item(i).query = q

ClientInv == IdInv /\ SendInv /\ ResultInv /\ OwedInv

\* Ready is what the queue says.
LEMMA ReadyIsQueued ==
    ASSUME TypeOK, NEW q \in Queries
    PROVE  Ready(q) <=> \E i \in 1..Size : Item(i).query = q
<1>1. Len(batch) \in Nat /\ Len(events) \in Nat
  BY DEF TypeOK
<1>2. ASSUME NEW i \in 1..Len(events), events[i].query = q
      PROVE  \E j \in 1..Size : Item(j).query = q
  <2>1. Len(batch) + i \in 1..Size /\ Item(Len(batch) + i) = events[i]
    BY <1>1, <1>2 DEF Size, Item
  <2> QED
    BY <1>2, <2>1
<1>3. ASSUME NEW i \in 1..Len(batch), batch[i].query = q
      PROVE  \E j \in 1..Size : Item(j).query = q
  <2>1. i \in 1..Size /\ Item(i) = batch[i]
    BY <1>1, <1>3 DEF Size, Item
  <2> QED
    BY <1>3, <2>1
<1>4. ASSUME NEW i \in 1..Size, Item(i).query = q
      PROVE  Ready(q)
  <2>1. CASE i <= Len(batch)
    BY <1>1, <1>4, <2>1 DEF Item, Ready
  <2>2. CASE i > Len(batch)
    <3>1. i - Len(batch) \in 1..Len(events) /\ Item(i) = events[i - Len(batch)]
      BY <1>1, <2>2 DEF Size, Item
    <3> QED
      BY <1>4, <3>1 DEF Ready
  <2> QED
    BY <1>1, <2>1, <2>2 DEF Size
<1> QED
  BY <1>2, <1>3, <1>4 DEF Ready

\* What is queued is a result.
LEMMA QueueTyped ==
    ASSUME TypeOK
    PROVE  Size \in Nat /\ \A i \in 1..Size : Item(i) \in Results
<1>1. /\ Len(batch) \in Nat /\ Len(events) \in Nat
      /\ \A i \in 1..Len(batch) : batch[i] \in Results
      /\ \A i \in 1..Len(events) : events[i] \in Results
  BY DEF TypeOK
<1> SUFFICES ASSUME NEW i \in 1..Size PROVE Item(i) \in Results
  BY <1>1 DEF Size
<1>2. CASE i <= Len(batch)
  BY <1>1, <1>2 DEF Size, Item
<1>3. CASE i > Len(batch)
  <2>1. i - Len(batch) \in 1..Len(events)
    BY <1>1, <1>3 DEF Size
  <2> QED
    BY <1>1, <1>3, <2>1 DEF Item
<1> QED
  BY <1>1, <1>2, <1>3 DEF Size

\* Taking a batch moves results from the library to the batch and changes no order.
LEMMA ReceiveKeepsQueue ==
    ASSUME TypeOK, Receive
    PROVE  Size' = Size /\ \A i \in 1..Size : Item(i)' = Item(i)
<1>1. PICK n \in 0..Len(events) :
        /\ batch = <<>>
        /\ batch' \in Seq(Results) /\ Len(batch') = n
        /\ \A i \in 1..n : batch'[i] = events[i]
        /\ events' \in Seq(Results) /\ Len(events') = Len(events) - n
        /\ \A i \in 1..(Len(events) - n) : events'[i] = events[n + i]
  BY ReceiveSplits
<1>2. Len(events) \in Nat /\ Len(batch) = 0
  BY <1>1 DEF TypeOK
<1>3. Size' = Size /\ Size = Len(events)
  BY <1>1, <1>2 DEF Size
<1>4. ASSUME NEW i \in 1..Size PROVE Item(i)' = events[i]
  <2>1. CASE i <= n
    BY <1>1, <1>2, <1>3, <2>1 DEF Item
  <2>2. CASE i > n
    <3>1. i - n \in 1..(Len(events) - n) /\ n + (i - n) = i
      BY <1>2, <1>3, <2>2
    <3>2. events'[i - n] = events[n + (i - n)]
      BY <1>1, <3>1
    <3> QED
      BY <1>1, <2>2, <3>1, <3>2 DEF Item
  <2> QED
    BY <1>2, <1>3, <2>1, <2>2
<1>5. ASSUME NEW i \in 1..Size PROVE Item(i) = events[i]
  BY <1>2, <1>3 DEF Item
<1> QED
  BY <1>3, <1>4, <1>5

\* A result the library adds is the last of the queue.
LEMMA AppendQueue ==
    ASSUME TypeOK, NEW r \in Results, events' = Append(events, r), UNCHANGED batch
    PROVE  /\ Size' = Size + 1
           /\ \A i \in 1..Size : Item(i)' = Item(i)
           /\ \A i \in {Size + 1} : Item(i)' = r
<1>1. /\ Len(batch) \in Nat /\ Len(events) \in Nat
      /\ Len(events') = Len(events) + 1
      /\ \A i \in 1..Len(events) : events'[i] = events[i]
      /\ events'[Len(events) + 1] = r
  BY DEF TypeOK
<1>2. Size' = Size + 1
  BY <1>1 DEF Size
<1>3. ASSUME NEW i \in 1..Size PROVE Item(i)' = Item(i)
  <2>1. CASE i <= Len(batch)
    BY <2>1 DEF Item
  <2>2. CASE i > Len(batch)
    <3>1. i - Len(batch) \in 1..Len(events)
      BY <1>1, <2>2 DEF Size
    <3> QED
      BY <1>1, <2>2, <3>1 DEF Item
  <2> QED
    BY <1>1, <2>1, <2>2 DEF Size
<1>4. ASSUME NEW i \in {Size + 1} PROVE Item(i)' = r
  <2>1. i > Len(batch) /\ i - Len(batch) = Len(events) + 1
    BY <1>1 DEF Size
  <2>2. Item(i)' = events'[i - Len(batch)]
    BY <2>1 DEF Item
  <2> QED
    BY <1>1, <2>1, <2>2
<1> QED
  BY <1>2, <1>3, <1>4

\* Processing takes the first result of the queue.
LEMMA ProcessShiftsQueue ==
    ASSUME TypeOK, Process
    PROVE  /\ Size \in Nat \ {0} /\ Head(batch) = Item(1)
           /\ Size' = Size - 1
           /\ \A i \in 1..(Size - 1) : Item(i)' = Item(i + 1)
<1>1. /\ Len(batch) \in Nat \ {0} /\ Len(events) \in Nat
      /\ Head(batch) = batch[1] /\ UNCHANGED events
      /\ Len(batch') = Len(batch) - 1
      /\ \A i \in 1..(Len(batch) - 1) : batch'[i] = batch[i + 1]
  BY DEF TypeOK, Process
<1>2. Size \in Nat \ {0} /\ Head(batch) = Item(1) /\ Size' = Size - 1
  BY <1>1 DEF Size, Item
<1>3. ASSUME NEW i \in 1..(Size - 1) PROVE Item(i)' = Item(i + 1)
  <2>1. CASE i <= Len(batch) - 1
    BY <1>1, <2>1 DEF Size, Item
  <2>2. CASE i > Len(batch) - 1
    BY <1>1, <2>2 DEF Size, Item
  <2> QED
    BY <1>1, <2>1, <2>2 DEF Size
<1> QED
  BY <1>2, <1>3

LEMMA QueueKept ==
    ASSUME UNCHANGED <<events, batch>>
    PROVE  Size' = Size /\ \A i \in 1..Size : Item(i)' = Item(i)
BY DEF Size, Item

\* How far a query got, as far as the invariant tells it apart.
Stage(q) ==
    IF pc[q] \in {"sent", "returned"} THEN "sent"
    ELSE IF Numbered(q) THEN pc[q] ELSE "new"

\* A step that moves no query to another stage and touches no id, handler or result.
LEMMA QuietStep ==
    ASSUME TypeOK, ClientInv, \A q \in Queries : Stage(q)' = Stage(q),
           UNCHANGED <<id, currentQueryId, handlers, native, answer>>,
           Size' = Size, \A i \in 1..Size : Item(i)' = Item(i)
    PROVE  ClientInv'
<1>1. \A q \in Queries :
        /\ Numbered(q)' = Numbered(q)
        /\ (pc'[q] \in {"sent", "returned"}) = (pc[q] \in {"sent", "returned"})
        /\ (pc'[q] = "registered") = (pc[q] = "registered")
  BY DEF Stage, Numbered, TypeOK
<1>2. \A q \in Queries : Open(q)' = Open(q)
  BY <1>1 DEF Open
<1>3. IdInv'
  BY <1>1 DEF ClientInv, IdInv
<1>4. SendInv'
  BY <1>1, <1>2 DEF ClientInv, SendInv
<1>5. ResultInv'
  BY <1>2 DEF ClientInv, ResultInv
<1>6. OwedInv'
  BY <1>1 DEF ClientInv, OwedInv
<1> QED
  BY <1>3, <1>4, <1>5, <1>6 DEF ClientInv

\* A new id is larger than every id drawn before.
LEMMA NumberStep ==
    ASSUME TypeOK, ClientInv, NEW q \in Queries, SendNumber(q)
    PROVE  ClientInv'
<1>1. /\ pc[q] = "locked" /\ pc' = [pc EXCEPT ![q] = "numbered"]
      /\ id' = [id EXCEPT ![q] = currentQueryId + 1] /\ currentQueryId' = currentQueryId + 1
      /\ UNCHANGED <<handlers, native, events, batch, answer>>
  BY DEF SendNumber
<1>2. Size' = Size /\ \A i \in 1..Size : Item(i)' = Item(i)
  BY <1>1, QueueKept
<1>3. /\ pc'[q] = "numbered" /\ id'[q] = currentQueryId + 1
      /\ \A p \in Queries : p # q => pc'[p] = pc[p] /\ id'[p] = id[p]
  BY <1>1 DEF TypeOK
<1>4. \A p \in Queries : Open(p) => p # q /\ Open(p)'
  BY <1>1, <1>3 DEF Open
<1>5. IdInv'
  <2>1. \A p \in Queries : Numbered(p)' <=> Numbered(p) \/ p = q
    BY <1>1, <1>3 DEF Numbered
  <2>2. \A p \in Queries : Numbered(p) => id[p] \in 1..currentQueryId
    BY DEF ClientInv, IdInv
  <2>3. \A p \in Queries : Numbered(p)' => id'[p] \in 1..currentQueryId'
    BY <1>1, <1>3, <2>1, <2>2 DEF TypeOK
  <2>4. \A p \in Queries : ~ Numbered(p)' => id'[p] = 0
    BY <1>3, <2>1 DEF ClientInv, IdInv
  <2>5. \A p, r \in Queries : Numbered(p)' /\ Numbered(r)' /\ p # r => id'[p] # id'[r]
    BY <1>3, <2>1, <2>2 DEF ClientInv, IdInv, TypeOK
  <2> QED
    BY <2>3, <2>4, <2>5 DEF IdInv
<1>6. SendInv'
  BY <1>1, <1>3, <1>4 DEF ClientInv, SendInv
<1>7. ResultInv'
  BY <1>1, <1>2, <1>3, <1>4 DEF ClientInv, ResultInv
<1>8. OwedInv'
  <2> SUFFICES ASSUME NEW n \in handlers \ {0}
               PROVE  \E p \in Queries :
                        /\ id'[p] = n /\ Numbered(p)' /\ answer'[p] = None
                        /\ pc'[p] = "registered" \/ p \in native' \/ \E i \in 1..Size' : Item(i)'.query = p
    BY <1>1 DEF OwedInv
  <2>1. PICK p \in Queries :
        /\ id[p] = n /\ Numbered(p) /\ answer[p] = None
        /\ pc[p] = "registered" \/ p \in native \/ \E i \in 1..Size : Item(i).query = p
    BY DEF ClientInv, OwedInv
  <2>2. p # q
    BY <1>1, <2>1 DEF Numbered
  <2> QED
    BY <1>1, <1>2, <1>3, <2>1, <2>2 DEF Numbered
<1> QED
  BY <1>5, <1>6, <1>7, <1>8 DEF ClientInv

LEMMA RegisterStep ==
    ASSUME TypeOK, ClientInv, NEW q \in Queries, SendRegister(q)
    PROVE  ClientInv'
<1>1. /\ pc[q] = "numbered" /\ pc' = [pc EXCEPT ![q] = "registered"]
      /\ handlers' = handlers \cup {id[q]}
      /\ UNCHANGED <<id, currentQueryId, native, events, batch, answer>>
  BY DEF SendRegister
<1>2. Size' = Size /\ \A i \in 1..Size : Item(i)' = Item(i)
  BY <1>1, QueueKept
<1>3. pc'[q] = "registered" /\ \A p \in Queries : p # q => pc'[p] = pc[p]
  BY <1>1 DEF TypeOK
<1>4. \A p \in Queries : Numbered(p)' = Numbered(p)
  BY <1>1, <1>3 DEF Numbered
<1>5. \A p \in Queries : Open(p) => Open(p)'
  BY <1>1, <1>3 DEF Open
<1>6. IdInv'
  BY <1>1, <1>4 DEF ClientInv, IdInv
<1>7. SendInv'
  BY <1>1, <1>3, <1>5 DEF ClientInv, SendInv
<1>8. ResultInv'
  BY <1>1, <1>2, <1>5 DEF ClientInv, ResultInv
<1>9. OwedInv'
  <2>1. Numbered(q) /\ answer[q] = None
    BY <1>1 DEF Numbered, ClientInv, SendInv
  <2> QED
    BY <1>1, <1>2, <1>3, <1>4, <2>1 DEF ClientInv, OwedInv
<1> QED
  BY <1>6, <1>7, <1>8, <1>9 DEF ClientInv

\* The handler is there before the library gets the query.
LEMMA NativeStep ==
    ASSUME TypeOK, ClientInv, NEW q \in Queries, SendNative(q)
    PROVE  ClientInv'
<1>1. /\ pc[q] = "registered" /\ pc' = [pc EXCEPT ![q] = "sent"]
      /\ native' = native \cup {q}
      /\ UNCHANGED <<id, currentQueryId, handlers, events, batch, answer>>
  BY DEF SendNative
<1>2. Size' = Size /\ \A i \in 1..Size : Item(i)' = Item(i)
  BY <1>1, QueueKept
<1>3. pc'[q] = "sent" /\ \A p \in Queries : p # q => pc'[p] = pc[p]
  BY <1>1 DEF TypeOK
<1>4. \A p \in Queries : Numbered(p)' = Numbered(p)
  BY <1>1, <1>3 DEF Numbered
<1>5. ~ Open(q) /\ Open(q)' /\ \A p \in Queries : Open(p) => Open(p)'
  BY <1>1, <1>3 DEF Open, ClientInv, SendInv
<1>6. IdInv'
  BY <1>1, <1>4 DEF ClientInv, IdInv
<1>7. SendInv'
  BY <1>1, <1>3, <1>5 DEF ClientInv, SendInv
<1>8. ResultInv'
  <2>1. \A i \in 1..Size : Item(i).query # q
    BY <1>5 DEF ClientInv, ResultInv
  <2> QED
    BY <1>1, <1>2, <1>5, <2>1 DEF ClientInv, ResultInv
<1>9. OwedInv'
  BY <1>1, <1>2, <1>3, <1>4 DEF ClientInv, OwedInv
<1> QED
  BY <1>6, <1>7, <1>8, <1>9 DEF ClientInv

\* An answer enters the queue when its query leaves the library.
LEMMA AnswerStep ==
    ASSUME TypeOK, ClientInv, NEW q \in Queries, NativeAnswer(q)
    PROVE  ClientInv'
<1> DEFINE r == [id |-> id[q], query |-> q]
<1>1. /\ q \in native /\ native' = native \ {q} /\ events' = Append(events, r)
      /\ UNCHANGED <<pc, id, currentQueryId, handlers, batch, answer>>
  BY DEF NativeAnswer
<1>2. r \in Results /\ r.id = id[q] /\ r.query = q /\ q # None
  BY DEF Results, TypeOK
<1> HIDE DEF r
<1>3. /\ Size' = Size + 1 /\ Size \in Nat
      /\ \A i \in 1..Size : Item(i)' = Item(i)
      /\ \A i \in {Size + 1} : Item(i)' = r
  BY <1>1, <1>2, AppendQueue, QueueTyped
<1>4. \A p \in Queries : Numbered(p)' = Numbered(p) /\ Open(p)' = Open(p)
  BY <1>1 DEF Numbered, Open
<1>5. Open(q) /\ \A i \in 1..Size : Item(i).query # q
  BY <1>1 DEF ClientInv, SendInv, ResultInv
<1>6. IdInv'
  BY <1>1, <1>4 DEF ClientInv, IdInv
<1>7. SendInv'
  BY <1>1, <1>4 DEF ClientInv, SendInv
<1>8. ResultInv'
  <2>1. \A i \in 1..Size' : i \in 1..Size \/ i = Size + 1
    BY <1>3
  <2>2. \A i \in 1..Size' : Item(i)'.query = None => Item(i)'.id = 0
    BY <1>2, <1>3, <2>1 DEF ClientInv, ResultInv
  <2>3. \A i \in 1..Size' : \A p \in Queries :
          Item(i)'.query = p => Item(i)'.id = id'[p] /\ Open(p)' /\ p \notin native'
    BY <1>1, <1>2, <1>3, <1>4, <1>5, <2>1 DEF ClientInv, ResultInv
  <2>4. \A i, j \in 1..Size' :
          Item(i)'.query = Item(j)'.query /\ Item(i)'.query # None => i = j
    BY <1>2, <1>3, <1>5, <2>1 DEF ClientInv, ResultInv
  <2> QED
    BY <2>2, <2>3, <2>4 DEF ResultInv
<1>9. OwedInv'
  <2> SUFFICES ASSUME NEW n \in handlers \ {0}
               PROVE  \E p \in Queries :
                        /\ id'[p] = n /\ Numbered(p)' /\ answer'[p] = None
                        /\ pc'[p] = "registered" \/ p \in native' \/ \E i \in 1..Size' : Item(i)'.query = p
    BY <1>1 DEF OwedInv
  <2>1. PICK p \in Queries :
        /\ id[p] = n /\ Numbered(p) /\ answer[p] = None
        /\ pc[p] = "registered" \/ p \in native \/ \E i \in 1..Size : Item(i).query = p
    BY DEF ClientInv, OwedInv
  <2>2. CASE p = q
    <3>1. \A i \in {Size + 1} : i \in 1..Size' /\ Item(i)'.query = p
      BY <1>2, <1>3, <2>2
    <3> QED
      BY <1>1, <1>4, <2>1, <3>1
  <2>3. CASE p # q
    <3>1. \A i \in 1..Size : i \in 1..Size'
      BY <1>3
    <3> QED
      BY <1>1, <1>3, <1>4, <2>1, <2>3, <3>1
  <2> QED
    BY <2>2, <2>3
<1> QED
  BY <1>6, <1>7, <1>8, <1>9 DEF ClientInv

\* An update concerns no query.
LEMMA UpdateStep ==
    ASSUME TypeOK, ClientInv, NativeUpdate
    PROVE  ClientInv'
<1> DEFINE r == [id |-> 0, query |-> None]
<1>1. /\ events' = Append(events, r)
      /\ UNCHANGED <<pc, id, currentQueryId, handlers, native, batch, answer>>
  BY DEF NativeUpdate
<1>2. r \in Results /\ r.id = 0 /\ r.query = None /\ None \notin Queries
  BY DEF Results
<1> HIDE DEF r
<1>3. /\ Size' = Size + 1 /\ Size \in Nat
      /\ \A i \in 1..Size : Item(i)' = Item(i)
      /\ \A i \in {Size + 1} : Item(i)' = r
  BY <1>1, <1>2, AppendQueue, QueueTyped
<1>4. \A p \in Queries : Numbered(p)' = Numbered(p) /\ Open(p)' = Open(p)
  BY <1>1 DEF Numbered, Open
<1>5. \A i \in 1..Size' : i \in 1..Size \/ i = Size + 1
  BY <1>3
<1>6. IdInv'
  BY <1>1, <1>4 DEF ClientInv, IdInv
<1>7. SendInv'
  BY <1>1, <1>4 DEF ClientInv, SendInv
<1>8. ResultInv'
  BY <1>1, <1>2, <1>3, <1>4, <1>5 DEF ClientInv, ResultInv
<1>9. OwedInv'
  <2>1. \A i \in 1..Size : i \in 1..Size'
    BY <1>3
  <2> QED
    BY <1>1, <1>3, <1>4, <2>1 DEF ClientInv, OwedInv
<1> QED
  BY <1>6, <1>7, <1>8, <1>9 DEF ClientInv

\* What processing a result does: nothing for an update, else the handler of the query
\* it answers gets it and is gone.
LEMMA ProcessAnswers ==
    ASSUME TypeOK, ClientInv, Process
    PROVE  \/ /\ Item(1).query = None
              /\ UNCHANGED <<handlers, answer>>
           \/ \E q \in Queries :
                /\ Item(1).query = q /\ Open(q) /\ q \notin native /\ id[q] # 0
                /\ handlers' = handlers \ {id[q]}
                /\ answer' = [answer EXCEPT ![q] = q]
<1> DEFINE r == Item(1)
<1>1. /\ handlers' = IF r.id = 0 THEN handlers ELSE handlers \ {r.id}
      /\ answer' = [q \in Queries |->
                      IF Addressee(q, r) /\ r.id \in handlers THEN r.query ELSE answer[q]]
  BY ProcessShiftsQueue DEF Process
<1>2. 1 \in 1..Size /\ r \in Results
  BY ProcessShiftsQueue, QueueTyped
<1> HIDE DEF r
<1>3. CASE r.query = None
  <2>1. r.id = 0
    BY <1>2, <1>3 DEF ClientInv, ResultInv, r
  <2>2. answer' = answer
    BY <1>1, <2>1 DEF Addressee, TypeOK
  <2> QED
    BY <1>1, <1>3, <2>1, <2>2 DEF r
<1>4. CASE r.query # None
  <2>1. PICK q \in Queries : r.query = q
    BY <1>2, <1>4 DEF Results
  <2>2. r.id = id[q] /\ Open(q) /\ q \notin native
    BY <1>2, <2>1 DEF ClientInv, ResultInv, r
  <2>3. Numbered(q) /\ id[q] # 0
    BY <2>2 DEF Open, Numbered, ClientInv, IdInv, TypeOK
  <2>4. \A p \in Queries : Addressee(p, r) <=> p = q
    BY <2>2, <2>3 DEF Addressee, ClientInv, IdInv
  <2>5. id[q] \in handlers
    BY <2>2 DEF Open
  <2>6. answer' = [answer EXCEPT ![q] = q]
    BY <1>1, <2>1, <2>2, <2>4, <2>5 DEF TypeOK
  <2> QED
    BY <1>1, <2>1, <2>2, <2>3, <2>6 DEF r
<1> QED
  BY <1>3, <1>4

\* The result processed was the only one for its query.
LEMMA ProcessStep ==
    ASSUME TypeOK, ClientInv, Process
    PROVE  ClientInv'
<1>1. UNCHANGED <<pc, id, currentQueryId, native>>
  BY DEF Process
<1>2. /\ Size \in Nat \ {0} /\ Size' = Size - 1
      /\ \A i \in 1..(Size - 1) : Item(i)' = Item(i + 1)
  BY ProcessShiftsQueue
<1>3. \A i \in 1..Size' : i + 1 \in 1..Size /\ i + 1 # 1 /\ Item(i)' = Item(i + 1)
  BY <1>2
<1>4. \A i \in 1..Size : i = 1 \/ (i - 1 \in 1..Size' /\ Item(i - 1 + 1) = Item(i))
  BY <1>2
<1>5. \A p \in Queries : Numbered(p)' = Numbered(p)
  BY <1>1 DEF Numbered
<1>6. IdInv'
  BY <1>1, <1>5 DEF ClientInv, IdInv
<1>7. CASE Item(1).query = None /\ UNCHANGED <<handlers, answer>>
  <2>1. \A p \in Queries : Open(p)' = Open(p)
    BY <1>1, <1>7 DEF Open
  <2>2. SendInv'
    BY <1>1, <1>7, <2>1 DEF ClientInv, SendInv
  <2>3. ResultInv'
    <3>1. \A i, j \in 1..Size' :
            Item(i)'.query = Item(j)'.query /\ Item(i)'.query # None => i = j
      BY <1>2, <1>3 DEF ClientInv, ResultInv
    <3> QED
      BY <1>1, <1>3, <2>1, <3>1 DEF ClientInv, ResultInv
  <2>4. OwedInv'
    <3>1. \A p \in Queries : (\E i \in 1..Size : Item(i).query = p)
                                => \E i \in 1..Size' : Item(i)'.query = p
      <4> SUFFICES ASSUME NEW p \in Queries, NEW i \in 1..Size, Item(i).query = p
                   PROVE  \E j \in 1..Size' : Item(j)'.query = p
        OBVIOUS
      <4>1. i # 1
        BY <1>7
      <4>2. i - 1 \in 1..Size' /\ Item(i - 1)'.query = p
        BY <1>2, <1>3, <1>4, <4>1
      <4> QED
        BY <4>2
    <3> QED
      BY <1>1, <1>5, <1>7, <3>1 DEF ClientInv, OwedInv
  <2> QED
    BY <1>6, <2>2, <2>3, <2>4 DEF ClientInv
<1>8. ASSUME NEW q \in Queries,
             Item(1).query = q, Open(q), q \notin native, id[q] # 0,
             handlers' = handlers \ {id[q]}, answer' = [answer EXCEPT ![q] = q]
      PROVE  ClientInv'
  <2>1. /\ answer'[q] = q /\ q # None
        /\ \A p \in Queries : p # q => answer'[p] = answer[p]
    BY <1>8 DEF TypeOK
  <2>2. \A p \in Queries : Numbered(p) /\ p # q => id[p] # id[q]
    BY <1>8 DEF Open, Numbered, ClientInv, IdInv
  <2>3. \A p \in Queries : p # q /\ Open(p) => Open(p)'
    BY <1>1, <1>8, <2>1, <2>2 DEF Open, Numbered
  <2>4. \A i \in 1..Size' : Item(i)'.query # q
    <3>1. 1 \in 1..Size
      BY <1>2
    <3> QED
      BY <1>3, <1>8, <2>1, <3>1 DEF ClientInv, ResultInv
  <2>5. SendInv'
    BY <1>1, <1>8, <2>1, <2>2, <2>3 DEF ClientInv, SendInv, Open, Numbered
  <2>6. ResultInv'
    <3>1. \A i, j \in 1..Size' :
            Item(i)'.query = Item(j)'.query /\ Item(i)'.query # None => i = j
      BY <1>2, <1>3 DEF ClientInv, ResultInv
    <3>2. \A i \in 1..Size' : \A p \in Queries :
            Item(i)'.query = p => Item(i)'.id = id'[p] /\ Open(p)' /\ p \notin native'
      BY <1>1, <1>3, <2>3, <2>4 DEF ClientInv, ResultInv
    <3>3. \A i \in 1..Size' : Item(i)'.query = None => Item(i)'.id = 0
      BY <1>3 DEF ClientInv, ResultInv
    <3> QED
      BY <3>1, <3>2, <3>3 DEF ResultInv
  <2>7. OwedInv'
    <3> SUFFICES ASSUME NEW n \in handlers' \ {0}
                 PROVE  \E p \in Queries :
                          /\ id'[p] = n /\ Numbered(p)' /\ answer'[p] = None
                          /\ pc'[p] = "registered" \/ p \in native' \/ \E i \in 1..Size' : Item(i)'.query = p
      BY DEF OwedInv
    <3>1. n \in handlers \ {0} /\ n # id[q]
      BY <1>8
    <3>2. PICK p \in Queries :
          /\ id[p] = n /\ Numbered(p) /\ answer[p] = None
          /\ pc[p] = "registered" \/ p \in native \/ \E i \in 1..Size : Item(i).query = p
      BY <3>1 DEF ClientInv, OwedInv
    <3>3. p # q
      BY <3>1, <3>2
    <3>4. ASSUME NEW i \in 1..Size, Item(i).query = p
          PROVE  \E j \in 1..Size' : Item(j)'.query = p
      <4>1. i # 1
        BY <1>8, <3>3, <3>4
      <4>2. i - 1 \in 1..Size' /\ Item(i - 1)'.query = p
        BY <1>2, <1>3, <1>4, <3>4, <4>1
      <4> QED
        BY <4>2
    <3> QED
      BY <1>1, <1>5, <2>1, <3>2, <3>3, <3>4
  <2> QED
    BY <1>6, <2>5, <2>6, <2>7 DEF ClientInv
<1> QED
  BY <1>7, <1>8, ProcessAnswers

\* The invariant of ids, handlers and results, for every step.
THEOREM ClientInvariant == Spec => []ClientInv
<1>1. Init => ClientInv
  <2> SUFFICES ASSUME Init PROVE ClientInv
    OBVIOUS
  <2>1. Size = 0
    BY DEF Init, Size
  <2>2. IdInv /\ SendInv
    BY DEF Init, IdInv, SendInv, Numbered
  <2>3. ResultInv
    BY <2>1 DEF ResultInv
  <2>4. OwedInv
    BY DEF Init, OwedInv
  <2> QED
    BY <2>2, <2>3, <2>4 DEF ClientInv
<1>2. TypeOK /\ TypeOK' /\ ClientInv /\ [Next]_vars => ClientInv'
  <2> SUFFICES ASSUME TypeOK, TypeOK', ClientInv, [Next]_vars PROVE ClientInv'
    OBVIOUS
  <2>1. ASSUME NEW q \in Queries, Call(q) \/ SendLock(q) \/ SendUnlock(q) PROVE ClientInv'
    <3>1. /\ UNCHANGED <<id, currentQueryId, handlers, native, answer, events, batch>>
          /\ \A p \in Queries : Stage(p)' = Stage(p)
      BY <2>1 DEF Call, SendLock, SendUnlock, TypeOK, Stage, Numbered
    <3> QED
      BY <3>1, QueueKept, QuietStep
  <2>2. ASSUME NEW q \in Queries, SendNumber(q) PROVE ClientInv'
    BY <2>2, NumberStep
  <2>3. ASSUME NEW q \in Queries, SendRegister(q) PROVE ClientInv'
    BY <2>3, RegisterStep
  <2>4. ASSUME NEW q \in Queries, SendNative(q) PROVE ClientInv'
    BY <2>4, NativeStep
  <2>5. ASSUME NEW q \in Queries, NativeAnswer(q) PROVE ClientInv'
    BY <2>5, AnswerStep
  <2>6. CASE NativeUpdate
    BY <2>6, UpdateStep
  <2>7. CASE Receive
    <3>1. UNCHANGED <<pc, id, currentQueryId, handlers, native, answer>>
      BY <2>7 DEF Receive
    <3>2. \A p \in Queries : Stage(p)' = Stage(p)
      BY <3>1 DEF Stage, Numbered
    <3> QED
      BY <2>7, <3>1, <3>2, ReceiveKeepsQueue, QuietStep
  <2>8. CASE Process
    BY <2>8, ProcessStep
  <2>9. CASE CloseCall \/ CloseLock \/ CloseStop \/ UNCHANGED vars
    <3>1. UNCHANGED <<pc, id, currentQueryId, handlers, native, answer, events, batch>>
      BY <2>9 DEF CloseCall, CloseLock, CloseStop, vars
    <3>2. \A p \in Queries : Stage(p)' = Stage(p)
      BY <3>1 DEF Stage, Numbered
    <3> QED
      BY <3>1, <3>2, QueueKept, QuietStep
  <2> QED
    BY <2>1, <2>2, <2>3, <2>4, <2>5, <2>6, <2>7, <2>8, <2>9 DEF Next
<1> QED
  BY <1>1, <1>2, TypeCorrect, PTL DEF Spec

\* No answer finds its handler missing or the handler of another query: send registers
\* the handler before it calls the library, under an id drawn from an atomic counter.
THEOREM HandlersWait == Spec => []HandlerWaits
<1>1. TypeOK /\ ClientInv => HandlerWaits
  <2> SUFFICES ASSUME TypeOK, ClientInv, NEW q \in Queries, q \in native \/ Ready(q)
               PROVE  /\ id[q] \in handlers \ {0} /\ answer[q] = None
                      /\ \A p \in Queries : p # q => id[p] # id[q]
    BY DEF HandlerWaits
  <2>1. Open(q)
    BY ReadyIsQueued DEF ClientInv, SendInv, ResultInv
  <2>2. Numbered(q)
    BY <2>1 DEF Open, Numbered
  <2>3. id[q] # 0
    BY <2>2 DEF ClientInv, IdInv, TypeOK
  <2>4. \A p \in Queries : p # q => id[p] # id[q]
    BY <2>2, <2>3 DEF ClientInv, IdInv
  <2> QED
    BY <2>1, <2>3, <2>4 DEF Open
<1> QED
  BY <1>1, TypeCorrect, ClientInvariant, PTL

\* The table of handlers does not leak: processResult removes the handler of each query
\* it answers, and nothing else registers one.
THEOREM HandlersAreOwed == Spec => []HandlerIsOwed
<1>1. TypeOK /\ ClientInv => HandlerIsOwed
  <2> SUFFICES ASSUME TypeOK, ClientInv, NEW n \in handlers \ {0}
               PROVE  \E q \in Queries :
                        /\ id[q] = n /\ answer[q] = None
                        /\ pc[q] = "registered" \/ q \in native \/ Ready(q)
    BY DEF HandlerIsOwed
  <2> QED
    BY ReadyIsQueued DEF ClientInv, OwedInv
<1> QED
  BY <1>1, TypeCorrect, ClientInvariant, PTL

\* The client implements the query service: each handler is called at most once, after its
\* query was asked, with the answer to that query.
THEOREM ImplementsService == Spec => ServiceSpec
<1> DEFINE asked == {q \in Queries : pc[q] # "new"}
<1>1. Init => Service!Init
  BY DEF Init, Service!Init
<1>2. TypeOK /\ ClientInv /\ [Next]_vars => [Service!Next]_(Service!serviceVars)
  <2> SUFFICES ASSUME TypeOK, ClientInv, [Next]_vars
               PROVE  (\E q \in Queries : Service!Ask(q) \/ Service!Answer(q))
                        \/ UNCHANGED <<asked, answer>>
    BY DEF Service!Next, Service!serviceVars
  <2>1. ASSUME NEW q \in Queries, Call(q) PROVE Service!Ask(q)
    BY <2>1 DEF Call, Service!Ask, TypeOK
  <2>2. ASSUME NEW q \in Queries,
               SendLock(q) \/ SendNumber(q) \/ SendRegister(q) \/ SendNative(q) \/ SendUnlock(q)
        PROVE  UNCHANGED <<asked, answer>>
    BY <2>2 DEF SendLock, SendNumber, SendRegister, SendNative, SendUnlock, TypeOK
  <2>3. ASSUME UNCHANGED <<pc, answer>> PROVE UNCHANGED <<asked, answer>>
    BY <2>3
  <2>4. CASE Process
    <3>1. UNCHANGED asked
      BY <2>4 DEF Process
    <3>2. ASSUME NEW q \in Queries, Open(q), answer' = [answer EXCEPT ![q] = q]
          PROVE  Service!Answer(q)
      BY <3>1, <3>2 DEF Open, Service!Answer
    <3> QED
      BY <2>4, <3>1, <3>2, ProcessAnswers
  <2>5. (\E q \in Queries : NativeAnswer(q)) \/ NativeUpdate \/ Receive \/ CloseCall
           \/ CloseLock \/ CloseStop \/ UNCHANGED vars
        => UNCHANGED <<pc, answer>>
    BY DEF NativeAnswer, NativeUpdate, Receive, CloseCall, CloseLock, CloseStop, vars
  <2> HIDE DEF asked
  <2> QED
    BY <2>1, <2>2, <2>3, <2>4, <2>5 DEF Next
<1> QED
  BY <1>1, <1>2, TypeCorrect, ClientInvariant, PTL DEF Spec, ServiceSpec, Service!Spec

=============================================================================
