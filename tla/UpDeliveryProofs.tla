--------------------------- MODULE UpDeliveryProofs ---------------------------
(* TypeOK, NoLoss, OnceUnlessFault and BackedOff for all values of the constants  *)
(* of UpDelivery: any rows, batches, endpoints, back-offs and faults.             *)
(*                                                                               *)
(* A batch is a snapshot, so what is known of its rows when it is loaded must     *)
(* survive until they are reached (BatchInv): they are different rows, and none   *)
(* of them waits.  What a row may cost in copies depends on where it stands: a    *)
(* row that may still be posted has been taken for nothing but a fault, and only  *)
(* the one that is about to be deleted, or is gone, once more (CopiesInv).        *)
EXTENDS UpDelivery, SequenceTheorems, WellFoundedInduction, TLAPS

(* The task has a row in hand.                                                   *)
Busy == {"post", "pause", "delete", "defer"}

(* What the properties of the rows need of TypeOK: how long a back-off is does    *)
(* not matter to them, so all that is said of wait is its domain.                 *)
TypeInv ==
  /\ endpoint \in [Apps -> Endpoints \cup {None}]
  /\ app = [r \in Id |-> app[r]] /\ \A r \in outbox : app[r] \in Apps
  /\ attempts \in [Id -> Nat]
  /\ wait = [r \in Id |-> wait[r]]
  /\ lastId \in 0..MaxId /\ outbox \subseteq {r \in Id : r <= lastId}
  /\ batch \in Seq(Message)
  /\ pc \in Busy <=> batch # <<>>
  /\ copies \in [Id -> Nat] /\ repeats \in Nat

(* The rows of a batch are different ones, and their back-off is over.           *)
BatchInv ==
  /\ \A j, k \in 1..Len(batch) : batch[j].id = batch[k].id => j = k
  /\ \A k \in 1..Len(batch) : batch[k].id <= lastId /\ wait[batch[k].id] = 0

InHand == {batch[k].id : k \in 1..Len(batch)}

(* An endpoint has the row, and it is not deleted yet.                           *)
Taken == IF pc = "delete" THEN {Head(batch).id} ELSE {}

(* Rows that may still be posted.                                                *)
Unposted == (outbox \cup InHand) \ Taken

CopiesInv ==
  /\ \A r \in Taken : copies[r] > 0
  /\ \A r \in Id : r > lastId => copies[r] = 0
  /\ \A r \in Id : copies[r] <= 1 + repeats
  /\ \A r \in Unposted : copies[r] <= repeats

IInv == TypeInv /\ BatchInv /\ CopiesInv /\ NoLoss

-------------------------------------------------------------------------------
(* Sequences of messages.                                                        *)

(* The first of a batch, and what is left without it.                            *)
LEMMA HeadTail ==
  ASSUME TypeInv, BatchInv, batch # <<>>
  PROVE  /\ Head(batch) \in Message /\ Head(batch) = batch[1] /\ 1 \in 1..Len(batch)
         /\ Head(batch).id \in InHand
         /\ Tail(batch) \in Seq(Message) /\ Len(Tail(batch)) = Len(batch) - 1
         /\ Len(batch) \in Nat \ {0}
         /\ \A k \in 1..Len(Tail(batch)) : k + 1 \in 1..Len(batch) /\ Tail(batch)[k] = batch[k + 1]
<1>1. batch \in Seq(Message)
  BY DEF TypeInv
<1>2. Len(batch) \in Nat \ {0} /\ Tail(batch) \in Seq(Message) /\ Head(batch) \in Message
  BY <1>1, EmptySeq, HeadTailProperties
<1>3. Len(Tail(batch)) = Len(batch) - 1 /\ Head(batch) = batch[1]
  BY <1>1, HeadTailProperties
<1>4. \A k \in 1..Len(Tail(batch)) : k + 1 \in 1..Len(batch) /\ Tail(batch)[k] = batch[k + 1]
  BY <1>1, <1>2, <1>3, HeadTailProperties
<1> QED
  BY <1>2, <1>3, <1>4 DEF InHand

(* Rows in hand are ids that have been given out.                                *)
LEMMA InHandType ==
  ASSUME TypeInv, BatchInv
  PROVE  \A r \in InHand : r \in Id /\ r \in Nat /\ r <= lastId /\ wait[r] = 0
<1> SUFFICES ASSUME NEW k \in 1..Len(batch)
             PROVE  /\ batch[k].id \in Id /\ batch[k].id \in Nat
                    /\ batch[k].id <= lastId /\ wait[batch[k].id] = 0
  BY DEF InHand
<1>1. batch[k] \in Message
  BY ElementOfSeq DEF TypeInv
<1> QED
  BY <1>1 DEF Message, BatchInv, Id

(* Ids that have been given out are ids.                                         *)
LEMMA LastIdBounded ==
  ASSUME TypeInv, NEW r \in 1..lastId
  PROVE  r \in Id
BY BoundsAssumption DEF TypeInv, Id

(* What holds of all rows in hand holds of fewer.                                *)
LEMMA SmallerHand ==
  ASSUME TypeInv, BatchInv, InHand' \subseteq InHand, lastId' = lastId,
         \A j, k \in 1..Len(batch') : batch'[j].id = batch'[k].id => j = k,
         \A r \in InHand' : wait'[r] = 0
  PROVE  BatchInv'
<1>1. \A k \in 1..Len(batch') : batch'[k].id \in InHand'
  BY DEF InHand
<1> QED
  BY <1>1, InHandType DEF BatchInv

(* Going on to the next row.                                                     *)
LEMMA NextInBatchMoves ==
  ASSUME TypeInv, BatchInv, NextInBatch, pc \in {"delete", "defer"}
  PROVE  /\ batch' \in Seq(Message)
         /\ pc' \in Busy <=> batch' # <<>>
         /\ InHand' = InHand \ {Head(batch).id} /\ Taken' = {}
         /\ \A j, k \in 1..Len(batch') : batch'[j].id = batch'[k].id => j = k
         /\ Head(batch) \in Message /\ Head(batch).id \in InHand
         /\ pc' = "post" => Head(batch').id \in InHand'
<1>1. batch # <<>>
  BY DEF TypeInv, Busy
<1>2. /\ Head(batch) \in Message /\ Head(batch) = batch[1] /\ 1 \in 1..Len(batch)
      /\ Head(batch).id \in InHand
      /\ batch' = Tail(batch) /\ batch' \in Seq(Message) /\ Len(batch') = Len(batch) - 1
      /\ Len(batch) \in Nat \ {0}
      /\ \A k \in 1..Len(batch') : k + 1 \in 1..Len(batch) /\ batch'[k] = batch[k + 1]
  BY <1>1, HeadTail DEF NextInBatch
<1>3. pc' = IF Len(batch) = 1 THEN "load" ELSE "post"
  BY DEF NextInBatch
<1>4. batch' # <<>> <=> Len(batch) # 1
  <2>1. batch' # <<>> => Len(batch') # 0
    BY <1>2, EmptySeq
  <2>2. batch' = <<>> => Len(batch') = 0
    BY EmptySeq
  <2>3. Len(batch) # 1 <=> Len(batch') # 0
    BY <1>2
  <2> QED
    BY <2>1, <2>2, <2>3
<1>5. pc' \in Busy <=> batch' # <<>>
  BY <1>3, <1>4 DEF Busy
<1>6. Taken' = {}
  BY <1>3 DEF Taken
<1>7. \A j, k \in 1..Len(batch) : batch[j].id = batch[k].id => j = k
  BY DEF BatchInv
<1>8. \A j, k \in 1..Len(batch') : batch'[j].id = batch'[k].id => j = k
  <2> SUFFICES ASSUME NEW j \in 1..Len(batch'), NEW k \in 1..Len(batch'),
                      batch'[j].id = batch'[k].id
               PROVE  j = k
    OBVIOUS
  <2>1. j + 1 = k + 1
    BY <1>2, <1>7
  <2> QED
    BY <2>1
<1>9. InHand' = InHand \ {Head(batch).id}
  <2>1. ASSUME NEW r \in InHand' PROVE r \in InHand \ {Head(batch).id}
    <3>1. PICK k \in 1..Len(batch') : r = batch'[k].id
      BY <2>1 DEF InHand
    <3>2. k + 1 \in 1..Len(batch) /\ r = batch[k + 1].id /\ k + 1 # 1
      BY <1>2, <3>1
    <3>3. r # batch[1].id
      BY <1>2, <1>7, <3>2
    <3> QED
      BY <1>2, <3>2, <3>3 DEF InHand
  <2>2. ASSUME NEW r \in InHand \ {Head(batch).id} PROVE r \in InHand'
    <3>1. PICK k \in 1..Len(batch) : r = batch[k].id
      BY <2>2 DEF InHand
    <3>2. k # 1
      BY <1>2, <2>2, <3>1
    <3>3. k - 1 \in 1..Len(batch') /\ (k - 1) + 1 = k
      BY <1>2, <3>2
    <3>4. batch'[k - 1] = batch[k]
      BY <1>2, <3>3
    <3> QED
      BY <3>1, <3>3, <3>4 DEF InHand
  <2> QED
    BY <2>1, <2>2
<1>10. ASSUME pc' = "post" PROVE Head(batch').id \in InHand'
  <2>1. batch' # <<>> /\ Len(batch') \in Nat \ {0} /\ Head(batch') = batch'[1]
    BY <1>2, <1>4, <1>5, <1>10, EmptySeq, HeadTailProperties DEF Busy
  <2> QED
    BY <2>1 DEF InHand
<1> QED
  BY <1>2, <1>5, <1>6, <1>8, <1>9, <1>10

(* A batch that is loaded: different rows, all of them due.                      *)
LEMMA LoadedProperties ==
  ASSUME TypeInv, LoadBatch
  PROVE  /\ batch' \in Seq(Message)
         /\ pc' \in Busy <=> batch' # <<>>
         /\ \A j, k \in 1..Len(batch') : batch'[j].id = batch'[k].id => j = k
         /\ \A k \in 1..Len(batch') : Due(batch'[k].id) /\ batch'[k].id \in Id
         /\ Taken' = {} /\ InHand' \subseteq outbox
         /\ pc' = "post" => Due(Head(batch').id)
         /\ Len(batch') <= LIMIT
<1>0. PICK n \in 0..LIMIT : \E rows \in [1..n -> Id] :
        /\ IsDueBatch(rows)
        /\ batch' = Loaded(rows)
        /\ pc' = IF n = 0 THEN "idle" ELSE "post"
  BY DEF LoadBatch
<1>1. PICK rows \in [1..n -> Id] :
        /\ IsDueBatch(rows)
        /\ batch' = Loaded(rows)
        /\ pc' = IF n = 0 THEN "idle" ELSE "post"
  BY <1>0
<1>2. n \in Nat
  BY LimitsAssumption
<1> DEFINE due == {r \in Id : Due(r)}
           below(r) == Cardinality({s \in due : s < r})
<1>3. \A k \in 1..n : rows[k] \in due /\ below(rows[k]) = k - 1
  BY <1>1 DEF IsDueBatch
<1>4. \A j, k \in 1..n : rows[j] = rows[k] => j = k
  <2> SUFFICES ASSUME NEW j \in 1..n, NEW k \in 1..n, rows[j] = rows[k] PROVE j = k
    OBVIOUS
  <2>1. j - 1 = k - 1
    <3> HIDE DEF below, due
    <3> QED
      BY <1>3
  <2> QED
    BY <2>1, <1>2
<1>5. \A k \in 1..n : rows[k] \in Id /\ Due(rows[k])
  BY <1>3
<1> HIDE DEF due, below
<1>6. batch' = [k \in 1..n |->
                  [id |-> rows[k], endpoint |-> endpoint[app[rows[k]]],
                   attempts |-> attempts[rows[k]]]]
  BY <1>1 DEF Loaded
<1>7. \A k \in 1..n : batch'[k] \in Message /\ batch'[k].id = rows[k]
  <2> TAKE k \in 1..n
  <2>1. batch'[k] = [id |-> rows[k], endpoint |-> endpoint[app[rows[k]]],
                     attempts |-> attempts[rows[k]]]
    BY <1>6
  <2>2. app[rows[k]] \in Apps /\ attempts[rows[k]] \in Nat
    BY <1>5 DEF TypeInv, Due
  <2>3. endpoint[app[rows[k]]] \in Endpoints
    BY <1>5, <2>2 DEF TypeInv, Due
  <2> QED
    BY <1>5, <2>1, <2>2, <2>3 DEF Message
<1>8. batch' \in Seq(Message) /\ Len(batch') = n
  <2>1. batch' \in [1..n -> Message]
    BY <1>6, <1>7
  <2> QED
    BY <1>2, <2>1, IsASeq
<1>9. batch' # <<>> <=> n # 0
  BY <1>2, <1>8, EmptySeq
<1>10. pc' \in Busy <=> batch' # <<>>
  BY <1>1, <1>9 DEF Busy
<1>11. Taken' = {}
  BY <1>1 DEF Taken
<1>12. InHand' \subseteq outbox
  BY <1>5, <1>7, <1>8 DEF InHand, Due
<1>13. ASSUME pc' = "post" PROVE Due(Head(batch').id)
  <2>1. n # 0 /\ batch' # <<>>
    BY <1>1, <1>9, <1>13
  <2>2. Head(batch') = batch'[1] /\ 1 \in 1..n
    BY <1>2, <1>8, <2>1
  <2> QED
    BY <1>5, <1>7, <2>2
<1>14. Len(batch') <= LIMIT
  BY <1>8
<1> QED
  BY <1>4, <1>5, <1>7, <1>8, <1>10, <1>11, <1>12, <1>13, <1>14

-------------------------------------------------------------------------------
(* The invariant.                                                                *)

LEMMA InitInv == Init => IInv
<1> SUFFICES ASSUME Init PROVE IInv
  OBVIOUS
<1>1. batch \in Seq(Message) /\ Len(batch) = 0 /\ batch = <<>>
  BY EmptySeq DEF Init
<1>2. TypeInv
  BY <1>1, BoundsAssumption DEF Init, TypeInv, Busy
<1>3. BatchInv
  BY <1>1 DEF BatchInv
<1>4. InHand = {} /\ Taken = {} /\ outbox = {}
  BY <1>1 DEF InHand, Taken, Init
<1>5. CopiesInv
  BY <1>4 DEF Init, CopiesInv, Unposted
<1>6. NoLoss
  BY DEF Init, NoLoss
<1> QED
  BY <1>2, <1>3, <1>5, <1>6 DEF IInv

(* What touches neither the rows nor the task.                                   *)
LEMMA IdleInv ==
  ASSUME IInv,
         UNCHANGED <<endpoint, outbox, app, attempts, wait, lastId, pc, batch, copies, dropped, repeats>>
  PROVE  IInv'
<1>1. TypeInv'
  BY DEF IInv, TypeInv
<1>2. BatchInv'
  BY DEF IInv, BatchInv
<1>3. InHand' = InHand /\ Taken' = Taken
  BY DEF InHand, Taken
<1>4. CopiesInv'
  BY <1>3 DEF IInv, CopiesInv, Unposted
<1>5. NoLoss'
  BY DEF IInv, NoLoss
<1> QED
  BY <1>1, <1>2, <1>4, <1>5 DEF IInv

(* Registrations come, change and go.                                            *)
LEMMA RegistrationsInv ==
  ASSUME IInv, Registrations
  PROVE  IInv'
<1> USE DEF IInv
<1>1. UNCHANGED <<app, attempts, wait, lastId, pc, batch, copies, repeats>> /\ outbox' \subseteq outbox
  BY DEF Registrations, Register, DeleteRegistration, table, producers, task, history
<1>2. endpoint' \in [Apps -> Endpoints \cup {None}]
  BY DEF Registrations, Register, DeleteRegistration, TypeInv
<1>3. TypeInv'
  BY <1>1, <1>2 DEF TypeInv
<1>4. BatchInv'
  BY <1>1 DEF BatchInv
<1>5. InHand' = InHand /\ Taken' = Taken
  BY <1>1 DEF InHand, Taken
<1>6. Unposted' \subseteq Unposted
  BY <1>1, <1>5 DEF Unposted
<1>7. CopiesInv'
  BY <1>1, <1>5, <1>6 DEF CopiesInv
<1>8. outbox \subseteq outbox' \cup dropped' /\ dropped \subseteq dropped'
  BY DEF Registrations, Register, DeleteRegistration, table, history
<1>9. NoLoss'
  BY <1>1, <1>8 DEF NoLoss
<1> QED
  BY <1>3, <1>4, <1>7, <1>9

(* A new row has a new id.                                                       *)
LEMMA ProducersInv ==
  ASSUME IInv, Producers
  PROVE  IInv'
<1> USE DEF IInv
<1>1. CASE Notify
  <2>1. UNCHANGED <<endpoint, outbox, app, attempts, wait, lastId, pc, batch, copies, dropped, repeats>>
    BY <1>1 DEF Notify, table, task, history
  <2> QED
    BY <2>1, IdleInv
<1>2. ASSUME NEW a \in Apps, Enqueue(a) PROVE IInv'
  <2>1. UNCHANGED <<endpoint, attempts, wait, pc, batch, copies, dropped, repeats>>
    BY <1>2 DEF Enqueue, task, history
  <2>2. lastId' = lastId + 1 /\ lastId' \in Id /\ lastId \in Nat
    <3>1. lastId' = lastId + 1 /\ lastId < MaxId
      BY <1>2 DEF Enqueue
    <3>2. lastId \in 0..MaxId
      BY DEF TypeInv
    <3> QED
      BY <3>1, <3>2, BoundsAssumption DEF Id
  <2>3. outbox' = outbox \cup {lastId'} /\ app' = [app EXCEPT ![lastId'] = a]
    BY <1>2 DEF Enqueue
  <2>4. \A r \in Id : r \in Nat
    BY DEF Id
  <2>5. TypeInv'
    <3>1. outbox' \subseteq {r \in Id : r <= lastId'}
      BY <2>2, <2>3, <2>4 DEF TypeInv
    <3>2. app' = [r \in Id |-> app'[r]] /\ \A r \in outbox' : app'[r] \in Apps
      BY <2>2, <2>3 DEF TypeInv
    <3>3. lastId' \in 0..MaxId
      BY <2>2, BoundsAssumption DEF Id
    <3> QED
      BY <2>1, <3>1, <3>2, <3>3 DEF TypeInv
  <2>6. BatchInv'
    <3>1. \A k \in 1..Len(batch) : batch[k].id \in Nat /\ batch[k].id <= lastId
      BY InHandType DEF InHand
    <3> QED
      BY <2>1, <2>2, <3>1 DEF BatchInv
  <2>7. InHand' = InHand /\ Taken' = Taken
    BY <2>1 DEF InHand, Taken
  <2>8. copies[lastId'] = 0 /\ repeats \in Nat
    BY <2>2 DEF CopiesInv, TypeInv
  <2>9. CopiesInv'
    <3>1. Unposted' \subseteq Unposted \cup {lastId'}
      BY <2>3, <2>7 DEF Unposted
    <3>2. \A r \in Unposted' : copies[r] <= repeats
      BY <2>8, <3>1 DEF CopiesInv
    <3>3. \A r \in Id : r > lastId' => copies[r] = 0
      BY <2>2, <2>4 DEF CopiesInv
    <3> QED
      BY <2>1, <2>7, <3>2, <3>3 DEF CopiesInv
  <2>10. NoLoss'
    <3>1. \A r \in 1..lastId' : r \in 1..lastId \/ r = lastId'
      BY <2>2
    <3> QED
      BY <2>1, <2>3, <3>1 DEF NoLoss
  <2> QED
    BY <2>5, <2>6, <2>9, <2>10
<1> QED
  BY <1>1, <1>2 DEF Producers

(* What is loaded is due, so it waits for nothing and has been posted for nothing *)
(* but a fault.                                                                  *)
LEMMA LoadInv ==
  ASSUME IInv, LoadBatch
  PROVE  IInv'
<1> USE DEF IInv
<1>1. UNCHANGED <<endpoint, outbox, app, attempts, wait, lastId, copies, dropped, repeats>>
  BY DEF LoadBatch, table, producers, history
<1>2. TypeInv'
  BY <1>1, LoadedProperties DEF TypeInv
<1>3. BatchInv'
  <2>1. \A k \in 1..Len(batch') : batch'[k].id <= lastId /\ wait[batch'[k].id] = 0
    BY LoadedProperties DEF Due, TypeInv
  <2> QED
    BY <1>1, <2>1, LoadedProperties DEF BatchInv
<1>4. Taken = {}
  BY DEF LoadBatch, Taken
<1>5. Taken' = {} /\ Unposted' \subseteq Unposted
  BY <1>1, <1>4, LoadedProperties DEF Unposted
<1>6. CopiesInv'
  BY <1>1, <1>5 DEF CopiesInv
<1>7. NoLoss'
  BY <1>1 DEF NoLoss
<1> QED
  BY <1>2, <1>3, <1>6, <1>7

(* Sleeping and waking leave the rows alone.                                     *)
LEMMA WaitingInv ==
  ASSUME IInv, LoadFails \/ Wake \/ PollEnds \/ PauseEnds
  PROVE  IInv'
<1> USE DEF IInv
<1>1. UNCHANGED <<endpoint, outbox, app, attempts, wait, lastId, batch, copies, dropped, repeats>>
  BY DEF LoadFails, Wake, PollEnds, LoadAgain, PauseEnds, table, producers, history
<1>2. (pc \in Busy <=> pc' \in Busy) /\ pc # "delete" /\ pc' # "delete"
  BY DEF LoadFails, Wake, PollEnds, LoadAgain, PauseEnds, Busy
<1>3. InHand' = InHand /\ Taken' = {} /\ Taken = {}
  BY <1>1, <1>2 DEF InHand, Taken
<1> QED
  BY <1>1, <1>2, <1>3 DEF TypeInv, BatchInv, CopiesInv, NoLoss, Unposted

(* A post gives the endpoint one copy at most.  If the task learns of it the row  *)
(* is taken, otherwise it was a fault.                                           *)
LEMMA PostInv ==
  ASSUME IInv, Post
  PROVE  IInv'
<1> USE DEF IInv
<1> DEFINE r == Head(batch).id
<1>0. batch # <<>>
  BY DEF Post, TypeInv, Busy
<1>1. UNCHANGED <<endpoint, outbox, app, attempts, wait, lastId, batch, dropped>> /\ pc = "post"
  BY DEF Post, table, producers
<1>2. r \in InHand /\ r \in Id /\ r \in Nat /\ r <= lastId
  BY <1>0, HeadTail, InHandType
<1>3. Taken = {} /\ InHand' = InHand /\ Unposted = outbox \cup InHand
  BY <1>1 DEF Taken, InHand, Unposted
<1>4. pc' \in Busy
  BY DEF Post, Busy
<1>5. copies \in [Id -> Nat] /\ repeats \in Nat /\ copies[r] <= repeats
  BY <1>2, <1>3 DEF TypeInv, CopiesInv
<1>6. \/ copies' = [copies EXCEPT ![r] = @ + 1] /\ pc' = "delete" /\ repeats' = repeats
      \/ copies' = [copies EXCEPT ![r] = @ + 1] /\ pc' # "delete" /\ repeats' = repeats + 1
      \/ copies' = copies /\ pc' # "delete" /\ repeats' = repeats
  BY DEF Post
<1>7. copies' \in [Id -> Nat] /\ repeats' \in Nat /\ repeats <= repeats'
  BY <1>2, <1>5, <1>6
<1>8. TypeInv'
  BY <1>0, <1>1, <1>4, <1>7 DEF TypeInv
<1>9. BatchInv'
  BY <1>1 DEF BatchInv
<1>10. Taken' = (IF pc' = "delete" THEN {r} ELSE {}) /\ Unposted' = Unposted \ Taken'
  BY <1>1, <1>3 DEF Taken, Unposted
<1> HIDE DEF r
<1>11. \A s \in Id : s # r => copies'[s] = copies[s]
  BY <1>5, <1>6
<1>12. copies'[r] <= 1 + repeats' /\ (pc' # "delete" => copies'[r] <= repeats')
       /\ (pc' = "delete" => copies'[r] > 0)
  BY <1>2, <1>5, <1>6
<1>13. Unposted \subseteq Id
  BY <1>3, InHandType DEF TypeInv
<1>14. CopiesInv'
  <2>1. \A s \in Taken' : copies'[s] > 0
    BY <1>10, <1>12
  <2>2. \A s \in Id : s > lastId => copies'[s] = 0
    BY <1>2, <1>11 DEF CopiesInv, TypeInv
  <2>3. ASSUME NEW s \in Id PROVE copies'[s] <= 1 + repeats'
    <3>1. copies[s] \in Nat /\ copies[s] <= 1 + repeats
      BY <1>5, <2>3 DEF CopiesInv
    <3> QED
      BY <1>5, <1>7, <1>11, <1>12, <3>1
  <2>4. ASSUME NEW s \in Unposted' PROVE copies'[s] <= repeats'
    <3>1. s \in Id /\ s \in Unposted /\ (pc' = "delete" => s # r)
      BY <1>10, <1>13, <2>4
    <3>2. copies[s] \in Nat /\ copies[s] <= repeats
      BY <1>5, <3>1 DEF CopiesInv
    <3> QED
      BY <1>5, <1>7, <1>11, <1>12, <3>1, <3>2
  <2> QED
    BY <1>1, <2>1, <2>2, <2>3, <2>4 DEF CopiesInv
<1>15. NoLoss'
  <2>1. ASSUME NEW s \in Id, copies[s] > 0 PROVE copies'[s] > 0
    BY <1>2, <1>5, <1>6, <2>1
  <2>2. ASSUME NEW s \in 1..lastId, copies[s] > 0 PROVE copies'[s] > 0
    BY <2>1, <2>2, LastIdBounded
  <2> QED
    BY <1>1, <2>2 DEF NoLoss
<1> QED
  BY <1>8, <1>9, <1>14, <1>15

(* The row that is deleted has been taken, and is no other row of the batch.     *)
LEMMA DeleteInv ==
  ASSUME IInv, DeleteDelivered
  PROVE  IInv'
<1> USE DEF IInv
<1> DEFINE r == Head(batch).id
<1>1. /\ UNCHANGED <<endpoint, app, attempts, wait, lastId, copies, dropped>>
      /\ pc = "delete" /\ NextInBatch
  BY DEF DeleteDelivered, producers
<1>2. /\ batch' \in Seq(Message) /\ (pc' \in Busy <=> batch' # <<>>)
      /\ InHand' = InHand \ {r} /\ Taken' = {}
      /\ \A j, k \in 1..Len(batch') : batch'[j].id = batch'[k].id => j = k
      /\ Head(batch) \in Message /\ r \in InHand
  BY <1>1, NextInBatchMoves
<1>3. Taken = {r}
  BY <1>1 DEF Taken
<1> HIDE DEF r
<1>4. \/ outbox' = outbox \ {r} /\ repeats' = repeats
      \/ outbox' = outbox /\ repeats' = repeats + 1
  BY DEF DeleteDelivered, r
<1>5. repeats \in Nat /\ repeats' \in Nat /\ repeats <= repeats'
  BY <1>4 DEF TypeInv
<1>6. TypeInv'
  BY <1>1, <1>2, <1>4, <1>5 DEF TypeInv
<1>7. BatchInv'
  <2>1. \A s \in InHand' : wait'[s] = 0
    BY <1>1, <1>2, InHandType
  <2> QED
    BY <1>1, <1>2, <2>1, SmallerHand
<1>8. CopiesInv'
  <2>1. copies \in [Id -> Nat]
    BY DEF TypeInv
  <2>2. r \in Id /\ Unposted' \subseteq Id
    BY <1>2, <1>4, InHandType DEF Unposted, TypeInv
  <2>3. ASSUME NEW s \in Id PROVE copies[s] <= 1 + repeats'
    BY <1>5, <2>1, <2>3 DEF CopiesInv
  <2>4. ASSUME NEW s \in Unposted' PROVE copies[s] <= repeats'
    <3>1. CASE s = r
      <4>1. repeats' = repeats + 1
        BY <1>2, <1>4, <2>4, <3>1 DEF Unposted
      <4> QED
        BY <1>5, <2>1, <2>2, <3>1, <4>1 DEF CopiesInv
    <3>2. CASE s # r
      <4>1. s \in Unposted
        BY <1>2, <1>3, <1>4, <2>4, <3>2 DEF Unposted
      <4> QED
        BY <1>5, <2>1, <2>2, <4>1 DEF CopiesInv
    <3> QED
      BY <3>1, <3>2
  <2> QED
    BY <1>1, <1>2, <2>3, <2>4 DEF CopiesInv
<1>9. NoLoss'
  <2>1. copies[r] > 0
    BY <1>3 DEF CopiesInv
  <2> QED
    BY <1>1, <1>4, <2>1 DEF NoLoss
<1> QED
  BY <1>6, <1>7, <1>8, <1>9

(* A deferred row waits; the rest of the batch is other rows.                    *)
LEMMA DeferInv ==
  ASSUME IInv, Defer
  PROVE  IInv'
<1> USE DEF IInv
<1> DEFINE r == Head(batch).id
<1>1. /\ UNCHANGED <<endpoint, outbox, app, lastId, copies, dropped, repeats>>
      /\ pc = "defer" /\ NextInBatch
  BY DEF Defer, producers, history
<1>2. /\ batch' \in Seq(Message) /\ (pc' \in Busy <=> batch' # <<>>)
      /\ InHand' = InHand \ {r} /\ Taken' = {}
      /\ \A j, k \in 1..Len(batch') : batch'[j].id = batch'[k].id => j = k
      /\ Head(batch) \in Message /\ r \in InHand
  BY <1>1, NextInBatchMoves
<1>3. Taken = {}
  BY <1>1 DEF Taken
<1> HIDE DEF r
<1>4. \/ /\ attempts' = [attempts EXCEPT ![r] = IF @ < Enough THEN @ + 1 ELSE @]
         /\ \E w : wait' = [wait EXCEPT ![r] = w]
      \/ attempts' = attempts /\ wait' = wait
  BY DEF Defer, r
<1>5. r \in Id
  BY <1>2, InHandType
<1>6. attempts' \in [Id -> Nat]
  <2>1. attempts \in [Id -> Nat] /\ attempts[r] + 1 \in Nat
    BY <1>5 DEF TypeInv
  <2>2. CASE attempts' = [attempts EXCEPT ![r] = IF @ < Enough THEN @ + 1 ELSE @]
    <3>1. CASE attempts[r] < Enough
      BY <2>1, <2>2, <3>1
    <3>2. CASE ~(attempts[r] < Enough)
      BY <2>1, <2>2, <3>2
    <3> QED
      BY <3>1, <3>2
  <2> QED
    BY <1>4, <2>1, <2>2
<1>7. wait' = [s \in Id |-> wait'[s]] /\ \A s \in Id : s # r => wait'[s] = wait[s]
  <2>1. wait = [s \in Id |-> wait[s]]
    BY DEF TypeInv
  <2> QED
    BY <1>4, <2>1
<1>8. TypeInv'
  BY <1>1, <1>2, <1>6, <1>7 DEF TypeInv
<1>9. BatchInv'
  <2>1. \A s \in InHand' : wait'[s] = 0
    BY <1>2, <1>7, InHandType
  <2> QED
    BY <1>1, <1>2, <2>1, SmallerHand
<1>10. Unposted' \subseteq Unposted
  BY <1>1, <1>2, <1>3 DEF Unposted
<1>11. CopiesInv'
  BY <1>1, <1>2, <1>10 DEF CopiesInv
<1>12. NoLoss'
  BY <1>1 DEF NoLoss
<1> QED
  BY <1>8, <1>9, <1>11, <1>12

(* Time only shortens what rows wait for.                                        *)
LEMMA TickInv ==
  ASSUME IInv, Tick
  PROVE  IInv'
<1> USE DEF IInv
<1>1. UNCHANGED <<endpoint, outbox, app, attempts, lastId, pc, batch, copies, dropped, repeats>>
  BY DEF Tick, producers, history
<1>2. wait' = [r \in Id |-> IF wait[r] > 0 THEN wait[r] - 1 ELSE 0]
  BY DEF Tick
<1>3. wait' = [r \in Id |-> wait'[r]]
  BY <1>2
<1>4. \A r \in InHand : wait'[r] = 0
  <2> TAKE r \in InHand
  <2>1. r \in Id /\ wait[r] = 0
    BY InHandType
  <2> QED
    BY <1>2, <2>1
<1>5. TypeInv'
  BY <1>1, <1>3 DEF TypeInv
<1>6. BatchInv'
  BY <1>1, <1>4 DEF BatchInv, InHand
<1>7. InHand' = InHand /\ Taken' = Taken
  BY <1>1 DEF InHand, Taken
<1> QED
  BY <1>1, <1>5, <1>6, <1>7 DEF CopiesInv, NoLoss, Unposted

(* A crash drops the batch.  A row that was taken and not deleted may be posted   *)
(* again, which is a fault.                                                      *)
LEMMA CrashInv ==
  ASSUME IInv, Crash
  PROVE  IInv'
<1> USE DEF IInv
<1>1. UNCHANGED <<endpoint, outbox, app, attempts, wait, lastId, copies, dropped>>
  BY DEF Crash, table
<1>2. batch' = <<>> /\ pc' = "load" /\ batch' \in Seq(Message) /\ Len(batch') = 0
  <2>1. <<>> \in Seq(Message) /\ Len(<<>>) = 0
    BY EmptySeq
  <2> QED
    BY <2>1 DEF Crash
<1>3. repeats' = IF pc = "delete" THEN repeats + 1 ELSE repeats
  BY DEF Crash
<1>4. repeats \in Nat /\ repeats' \in Nat /\ repeats <= repeats'
  BY <1>3 DEF TypeInv
<1>5. TypeInv'
  BY <1>1, <1>2, <1>4 DEF TypeInv, Busy
<1>6. BatchInv'
  BY <1>2 DEF BatchInv
<1>7. InHand' = {} /\ Taken' = {} /\ Unposted' = outbox
  BY <1>1, <1>2 DEF InHand, Taken, Unposted
<1>8. CopiesInv'
  <2>1. copies \in [Id -> Nat] /\ outbox \subseteq Id
    BY DEF TypeInv
  <2>2. \A s \in Id : copies[s] <= 1 + repeats'
    BY <1>4, <2>1 DEF CopiesInv
  <2>3. ASSUME NEW s \in outbox PROVE copies[s] <= repeats'
    <3>1. copies[s] \in Nat /\ copies[s] <= 1 + repeats
      BY <2>1, <2>3 DEF CopiesInv
    <3>2. CASE s \in Taken
      BY <1>3, <1>4, <3>1, <3>2 DEF Taken
    <3>3. CASE s \notin Taken
      BY <1>4, <2>3, <3>1, <3>3 DEF CopiesInv, Unposted
    <3> QED
      BY <3>2, <3>3
  <2> QED
    BY <1>1, <1>7, <2>2, <2>3 DEF CopiesInv
<1>9. NoLoss'
  BY <1>1 DEF NoLoss
<1> QED
  BY <1>5, <1>6, <1>8, <1>9

LEMMA NextInv == IInv /\ [Next]_vars => IInv'
<1> SUFFICES ASSUME IInv, [Next]_vars PROVE IInv'
  OBVIOUS
<1>1. CASE Registrations
  BY <1>1, RegistrationsInv
<1>2. CASE Producers
  BY <1>2, ProducersInv
<1>3. CASE LoadBatch
  BY <1>3, LoadInv
<1>4. CASE LoadFails \/ Wake \/ PollEnds \/ PauseEnds
  BY <1>4, WaitingInv
<1>5. CASE Post
  BY <1>5, PostInv
<1>6. CASE DeleteDelivered
  BY <1>6, DeleteInv
<1>7. CASE Defer
  BY <1>7, DeferInv
<1>8. CASE Tick
  BY <1>8, TickInv
<1>9. CASE Crash
  BY <1>9, CrashInv
<1>10. CASE UNCHANGED vars
  BY <1>10, IdleInv DEF vars, table, producers, task, history
<1> QED
  BY <1>1, <1>2, <1>3, <1>4, <1>5, <1>6, <1>7, <1>8, <1>9, <1>10 DEF Next, Task

LEMMA IInvInvariant == Spec => []IInv
BY InitInv, NextInv, PTL DEF Spec

-------------------------------------------------------------------------------
(* Back-offs.                                                                    *)

(* Induction on the naturals: a set of them that is closed under successors.     *)
LEMMA Induction ==
  ASSUME NEW S \in SUBSET Nat, 0 \in S, \A n \in S : n + 1 \in S
  PROVE  S = Nat
<1> DEFINE T == Nat \ S
           R == OpToRel(<, Nat)
<1> SUFFICES ASSUME T # {} PROVE FALSE
  OBVIOUS
<1>1. IsWellFoundedOn(R, Nat)
  BY NatLessThanWellFounded
<1>2. \A x, y \in Nat : x < y => <<x, y>> \in R
  BY DEF OpToRel
<1> HIDE DEF R
<1>3. PICK x \in T : \A y \in T : ~ (<<y, x>> \in R)
  <2>1. T \subseteq Nat
    OBVIOUS
  <2> HIDE DEF T
  <2> QED BY <1>1, <2>1, WFMin
<1>4. x \in Nat /\ x # 0
  OBVIOUS
<1>5. x - 1 \in Nat /\ x - 1 < x /\ (x - 1) + 1 = x
  BY <1>4
<1>6. x - 1 \in T
  BY <1>5
<1> QED BY <1>2, <1>3, <1>4, <1>5, <1>6

(* Doubled is well defined: what doubles up to n is a function that exists, once, *)
(* and the first n values are those of a longer one.                             *)
Doubles(g, n) == g[0] = 1 /\ \A k \in 1..n : g[k] = 2 * g[k - 1]

LEMMA DoublesOnce ==
  ASSUME NEW n \in Nat, NEW g, NEW h, Doubles(g, n), Doubles(h, n)
  PROVE  \A k \in 0..n : g[k] = h[k]
<1> DEFINE S == {k \in Nat : k <= n => g[k] = h[k]}
<1>1. 0 \in S
  BY DEF Doubles
<1>2. ASSUME NEW k \in S PROVE k + 1 \in S
  <2> SUFFICES ASSUME k + 1 <= n PROVE g[k + 1] = h[k + 1]
    OBVIOUS
  <2>1. k \in Nat /\ k + 1 \in 1..n /\ (k + 1) - 1 = k /\ k <= n
    OBVIOUS
  <2>2. g[k] = h[k]
    BY <2>1
  <2> QED
    BY <2>1, <2>2 DEF Doubles
<1> HIDE DEF S
<1>3. S = Nat
  <2>1. S \subseteq Nat
    BY DEF S
  <2> QED BY <1>1, <1>2, <2>1, Induction
<1> QED
  BY <1>3 DEF S

LEMMA DoublesExist ==
  \A n \in Nat : \E g \in [0..n -> Nat] : Doubles(g, n)
<1> DEFINE S == {n \in Nat : \E g \in [0..n -> Nat] : Doubles(g, n)}
<1>1. 0 \in S
  <2>1. [k \in 0..0 |-> 1] \in [0..0 -> Nat] /\ Doubles([k \in 0..0 |-> 1], 0)
    BY DEF Doubles
  <2> QED BY <2>1
<1>2. ASSUME NEW n \in S PROVE n + 1 \in S
  <2>1. PICK g \in [0..n -> Nat] : Doubles(g, n)
    OBVIOUS
  <2> DEFINE h == [k \in 0..n + 1 |-> IF k = n + 1 THEN 2 * g[n] ELSE g[k]]
  <2>2. n \in Nat
    OBVIOUS
  <2>3. h \in [0..n + 1 -> Nat]
    BY <2>2
  <2>4. \A k \in 0..n : h[k] = g[k]
    BY <2>2
  <2>5. h[n + 1] = 2 * g[n]
    BY <2>2
  <2> HIDE DEF h
  <2>6. Doubles(h, n + 1)
    <3>1. h[0] = 1
      BY <2>1, <2>2, <2>4 DEF Doubles
    <3>2. ASSUME NEW k \in 1..n + 1 PROVE h[k] = 2 * h[k - 1]
      <4>1. CASE k = n + 1
        <5>1. k - 1 = n /\ n \in 0..n
          BY <2>2, <4>1
        <5> QED BY <2>4, <2>5, <4>1, <5>1
      <4>2. CASE k # n + 1
        <5>1. k \in 1..n /\ k \in 0..n /\ k - 1 \in 0..n
          BY <2>2, <4>2
        <5> QED BY <2>1, <2>4, <5>1 DEF Doubles
      <4> QED BY <4>1, <4>2
    <3> QED BY <3>1, <3>2 DEF Doubles
  <2>7. n + 1 \in Nat
    BY <2>2
  <2> QED BY <2>3, <2>6, <2>7
<1> HIDE DEF S
<1>3. S = Nat
  <2>1. S \subseteq Nat
    BY DEF S
  <2> QED BY <1>1, <1>2, <2>1, Induction
<1> QED
  BY <1>3 DEF S

LEMMA DoubledDefined ==
  Doubled = [n \in Nat |-> IF n = 0 THEN 1 ELSE 2 * Doubled[n - 1]]
<1> DEFINE G(n) == CHOOSE g \in [0..n -> Nat] : Doubles(g, n)
           f == [n \in Nat |-> G(n)[n]]
<1>1. ASSUME NEW n \in Nat
      PROVE  G(n) \in [0..n -> Nat] /\ Doubles(G(n), n)
  BY DoublesExist
<1> HIDE DEF G
<1>2. f[0] = 1
  BY <1>1 DEF Doubles
<1>3. ASSUME NEW n \in Nat, n # 0
      PROVE  f[n] = 2 * f[n - 1]
  <2>1. n - 1 \in Nat /\ n \in 1..n /\ n - 1 \in 0..n - 1 /\ 1..n - 1 \subseteq 1..n
    BY <1>3
  <2>2. Doubles(G(n), n) /\ Doubles(G(n - 1), n - 1)
    BY <1>1, <2>1
  <2>3. Doubles(G(n), n - 1)
    BY <2>1, <2>2 DEF Doubles
  <2>4. G(n)[n - 1] = G(n - 1)[n - 1]
    BY <2>1, <2>2, <2>3, DoublesOnce
  <2>5. G(n)[n] = 2 * G(n)[n - 1]
    BY <2>1, <2>2 DEF Doubles
  <2> QED BY <2>1, <2>4, <2>5
<1>4. f = [n \in Nat |-> IF n = 0 THEN 1 ELSE 2 * f[n - 1]]
  <2>1. DOMAIN f = Nat /\ f = [n \in Nat |-> f[n]]
    OBVIOUS
  <2> HIDE DEF f
  <2>2. \A n \in Nat : f[n] = IF n = 0 THEN 1 ELSE 2 * f[n - 1]
    BY <1>2, <1>3
  <2> QED BY <2>1, <2>2
<1> HIDE DEF f
<1>5. \E d : d = [n \in Nat |-> IF n = 0 THEN 1 ELSE 2 * d[n - 1]]
  BY <1>4
<1> QED
  BY <1>5, Zenon DEF Doubled

(* It is never zero, and it grows.                                               *)
LEMMA DoubledGrows ==
  \A n \in Nat : /\ Doubled[n] \in Nat \ {0}
                 /\ \A k \in 0..n : Doubled[k] \in Nat /\ Doubled[k] <= Doubled[n]
<1> DEFINE S == {n \in Nat : /\ Doubled[n] \in Nat \ {0}
                            /\ \A k \in 0..n : Doubled[k] \in Nat /\ Doubled[k] <= Doubled[n]}
<1>0. /\ Doubled[0] = 1
      /\ \A n \in Nat : Doubled[n + 1] = 2 * Doubled[n]
  <2>1. \A n \in Nat : Doubled[n] = IF n = 0 THEN 1 ELSE 2 * Doubled[n - 1]
    BY DoubledDefined
  <2>2. \A n \in Nat : n + 1 \in Nat /\ n + 1 # 0 /\ (n + 1) - 1 = n
    OBVIOUS
  <2> QED BY <2>1, <2>2
<1>1. 0 \in S
  BY <1>0
<1>2. ASSUME NEW n \in S PROVE n + 1 \in S
  <2>1. /\ n \in Nat /\ Doubled[n] \in Nat \ {0}
        /\ \A k \in 0..n : Doubled[k] \in Nat /\ Doubled[k] <= Doubled[n]
    OBVIOUS
  <2>2. Doubled[n + 1] = 2 * Doubled[n]
    BY <1>0, <2>1
  <2>3. Doubled[n + 1] \in Nat \ {0} /\ Doubled[n] <= Doubled[n + 1]
    BY <2>1, <2>2
  <2>4. ASSUME NEW k \in 0..n + 1 PROVE Doubled[k] \in Nat /\ Doubled[k] <= Doubled[n + 1]
    <3>1. CASE k = n + 1
      BY <2>3, <3>1
    <3>2. CASE k # n + 1
      <4>1. k \in 0..n
        BY <2>1, <3>2
      <4>2. Doubled[k] \in Nat /\ Doubled[k] <= Doubled[n]
        BY <2>1, <4>1
      <4> QED BY <2>1, <2>3, <4>2
    <3> QED BY <3>1, <3>2
  <2> QED BY <2>1, <2>3, <2>4
<1> HIDE DEF S
<1>3. S = Nat
  <2>1. S \subseteq Nat
    BY DEF S
  <2> QED BY <1>1, <1>2, <2>1, Induction
<1> QED
  BY <1>3 DEF S

-------------------------------------------------------------------------------
(* Types.                                                                        *)

(* What TypeOK says beyond TypeInv, and what bounds the counters without a guard  *)
(* of their own: there is a notice for a row only, and a repeat for a fault only. *)
RangeInv ==
  /\ app \in [Id -> Apps]
  /\ attempts \in [Id -> 0..Enough]
  /\ wait \in [Id -> 0..Longest]
  /\ notices \in 0..lastId /\ permit \in BOOLEAN
  /\ pc \in Phase /\ Len(batch) <= LIMIT
  /\ attempt \in 1..MAX_ATTEMPTS /\ timer \in Nat
  /\ dropped \subseteq Id /\ repeats \in 0..faults
  /\ changes \in 0..MaxChanges /\ faults \in 0..MaxFaults

(* A back-off is never longer than that of the last shift.                       *)
LEMMA BackOffBounded ==
  ASSUME NEW n \in Nat
  PROVE  BackOff(n) \in 0..Longest
<1>1. MAX_SHIFT \in Nat
  BY LimitsAssumption
<1>2. (IF n < MAX_SHIFT THEN n ELSE MAX_SHIFT) \in 0..MAX_SHIFT
  BY <1>1
<1> QED
  BY <1>1, <1>2, DoubledGrows DEF BackOff, Longest

LEMMA InitRange == Init => RangeInv
<1> SUFFICES ASSUME Init PROVE RangeInv
  OBVIOUS
<1>1. app \in [Id -> Apps]
  BY EndpointsAssumption DEF Init
<1>2. Enough \in Nat /\ Longest \in Nat /\ MAX_ATTEMPTS \in Nat \ {0} /\ LIMIT \in Nat
  BY LimitsAssumption, DoubledGrows DEF Enough, Longest
<1>3. attempts \in [Id -> 0..Enough] /\ wait \in [Id -> 0..Longest]
  BY <1>2 DEF Init
<1>4. Len(batch) <= LIMIT
  BY <1>2, EmptySeq DEF Init
<1>5. permit \in BOOLEAN
  BY Zenon DEF Init
<1>6. /\ notices \in 0..lastId /\ pc \in Phase
      /\ attempt \in 1..MAX_ATTEMPTS /\ timer \in Nat /\ dropped \subseteq Id
      /\ repeats \in 0..faults /\ changes \in 0..MaxChanges /\ faults \in 0..MaxFaults
  BY <1>2, BoundsAssumption DEF Init, Phase
<1> QED
  BY <1>1, <1>3, <1>4, <1>5, <1>6 DEF RangeInv

LEMMA NextRange ==
  ASSUME IInv, RangeInv, [Next]_vars
  PROVE  RangeInv'
<1> USE DEF IInv
<1>0. /\ MaxId \in Nat /\ MaxChanges \in Nat /\ MaxFaults \in Nat
      /\ Enough \in Nat /\ Longest \in Nat \ {0} /\ LIMIT \in Nat
      /\ lastId \in Nat /\ lastId <= MaxId
  BY BoundsAssumption, LimitsAssumption, DoubledGrows DEF Enough, Longest, TypeInv
<1>1. CASE Registrations
  <2>1. CASE \E a \in Apps : DeleteRegistration(a)
    <3>1. \A r \in outbox : r \in Id
      BY DEF TypeInv
    <3> QED
      BY <1>0, <2>1, <3>1 DEF DeleteRegistration, RangeInv, table, producers, task
  <2>2. CASE \E a \in Apps, e \in Endpoints : Register(a, e)
    BY <1>0, <2>2 DEF Register, RangeInv, table, producers, task, history
  <2> QED
    BY <1>1, <2>1, <2>2 DEF Registrations
<1>2. CASE Producers
  <2>1. CASE Notify
    <3>1. notices' \in 0..lastId'
      BY <1>0, <2>1 DEF Notify, RangeInv
    <3>2. permit' \in BOOLEAN
      BY <2>1, Zenon DEF Notify, RangeInv
    <3> QED
      BY <2>1, <3>1, <3>2 DEF Notify, RangeInv, table, task, history
  <2>2. CASE \E a \in Apps : Enqueue(a)
    <3>1. PICK a \in Apps : Enqueue(a)
      BY <2>2
    <3>2. app' \in [Id -> Apps]
      BY <3>1 DEF Enqueue, RangeInv
    <3>3. notices' \in 0..lastId'
      BY <1>0, <3>1 DEF Enqueue, RangeInv
    <3> QED
      BY <3>1, <3>2, <3>3 DEF Enqueue, RangeInv, task, history
  <2> QED
    BY <1>2, <2>1, <2>2 DEF Producers
<1>3. CASE LoadBatch
  <2>1. Len(batch') <= LIMIT
    BY <1>3, LoadedProperties
  <2>2. pc' \in Phase /\ timer' \in Nat /\ attempt' \in 1..MAX_ATTEMPTS
    BY <1>3, LimitsAssumption DEF LoadBatch, Phase, Poll
  <2> QED
    BY <1>3, <2>1, <2>2 DEF LoadBatch, RangeInv, table, producers, history
<1>4. CASE LoadFails
  <2>1. repeats' \in 0..faults' /\ faults' \in 0..MaxFaults
    BY <1>0, <1>4 DEF LoadFails, Fault, RangeInv, history
  <2>2. timer' \in Nat /\ pc' \in Phase
    BY <1>4 DEF LoadFails, Poll, Phase
  <2> QED
    BY <1>4, <2>1, <2>2 DEF LoadFails, RangeInv, table, producers, history
<1>5. CASE Wake \/ PollEnds
  <2>1. permit' \in BOOLEAN
    BY <1>5, Zenon DEF Wake, PollEnds, RangeInv
  <2>2. timer' \in Nat /\ pc' \in Phase
    BY <1>5 DEF Wake, PollEnds, LoadAgain, Phase
  <2> QED
    BY <1>5, <2>1, <2>2 DEF Wake, PollEnds, LoadAgain, RangeInv, table, producers, history
<1>6. CASE PauseEnds
  <2>1. attempt' \in 1..MAX_ATTEMPTS /\ pc' \in Phase
    BY <1>6, LimitsAssumption DEF PauseEnds, RangeInv, Phase
  <2> QED
    BY <1>6, <2>1 DEF PauseEnds, RangeInv, table, producers, history
<1>7. CASE Post
  <2>1. pc' \in Phase /\ timer' \in Nat
    BY <1>7, LimitsAssumption DEF Post, RangeInv, Phase
  <2>2. repeats' \in 0..faults' /\ faults' \in 0..MaxFaults
    BY <1>0, <1>7 DEF Post, Fault, NoFault, RangeInv
  <2> QED
    BY <1>7, <2>1, <2>2 DEF Post, RangeInv, table, producers
<1>8. ASSUME NextInBatch, pc \in {"delete", "defer"}
      PROVE  /\ pc' \in Phase /\ Len(batch') <= LIMIT
             /\ attempt' \in 1..MAX_ATTEMPTS /\ timer' = timer
  <2>1. batch # <<>>
    BY <1>8 DEF TypeInv, Busy
  <2>2. Len(batch') = Len(batch) - 1 /\ Len(batch) \in Nat
    BY <1>8, <2>1, HeadTail DEF NextInBatch
  <2> QED
    BY <1>0, <1>8, <2>2, LimitsAssumption DEF NextInBatch, RangeInv, Phase
<1>9. CASE DeleteDelivered
  <2>1. NextInBatch /\ pc \in {"delete", "defer"}
    BY <1>9 DEF DeleteDelivered
  <2>2. repeats' \in 0..faults' /\ faults' \in 0..MaxFaults
    BY <1>0, <1>9 DEF DeleteDelivered, Fault, NoFault, RangeInv
  <2> QED
    BY <1>8, <1>9, <2>1, <2>2 DEF DeleteDelivered, RangeInv, producers
<1>10. CASE Defer
  <2>1. NextInBatch /\ pc \in {"delete", "defer"}
    BY <1>10 DEF Defer
  <2>2. repeats' \in 0..faults' /\ faults' \in 0..MaxFaults
    BY <1>0, <1>10 DEF Defer, Fault, NoFault, RangeInv, history
  <2>3. Head(batch) \in Message
    BY <2>1, NextInBatchMoves
  <2>4. BackOff(Head(batch).attempts) \in 0..Longest
    BY <2>3, BackOffBounded DEF Message
  <2>5. ASSUME NEW n \in 0..Enough
        PROVE  (IF n < Enough THEN n + 1 ELSE n) \in 0..Enough
    BY <1>0
  <2>6. attempts' \in [Id -> 0..Enough] /\ wait' \in [Id -> 0..Longest]
    <3>1. CASE UNCHANGED <<attempts, wait>>
      BY <3>1 DEF RangeInv
    <3>2. CASE /\ attempts' = [attempts EXCEPT ![Head(batch).id] =
                                   IF @ < Enough THEN @ + 1 ELSE @]
               /\ wait' = [wait EXCEPT ![Head(batch).id] = BackOff(Head(batch).attempts)]
      BY <2>4, <2>5, <3>2 DEF RangeInv
    <3> QED
      BY <1>10, <3>1, <3>2 DEF Defer
  <2> QED
    BY <1>8, <1>10, <2>1, <2>2, <2>6 DEF Defer, RangeInv, producers, history
<1>11. CASE Tick
  <2>1. timer' \in Nat
    BY <1>11 DEF Tick, RangeInv
  <2>2. wait' \in [Id -> 0..Longest]
    BY <1>0, <1>11 DEF Tick, RangeInv
  <2> QED
    BY <1>11, <2>1, <2>2 DEF Tick, RangeInv, producers, history
<1>12. CASE Crash
  <2>1. batch' = <<>> /\ Len(batch') <= LIMIT
    BY <1>0, <1>12, EmptySeq DEF Crash
  <2>2. repeats' \in 0..faults' /\ faults' \in 0..MaxFaults
    BY <1>0, <1>12 DEF Crash, Fault, RangeInv
  <2>3. notices' \in 0..lastId' /\ pc' \in Phase /\ attempt' \in 1..MAX_ATTEMPTS /\ timer' \in Nat
    BY <1>0, <1>12, LimitsAssumption DEF Crash, Phase, table
  <2>4. permit' \in BOOLEAN
    BY <1>12, Zenon DEF Crash
  <2> QED
    BY <1>12, <2>1, <2>2, <2>3, <2>4 DEF Crash, RangeInv, table
<1>13. CASE UNCHANGED vars
  BY <1>13 DEF RangeInv, vars, table, producers, task, history
<1> QED
  BY <1>1, <1>2, <1>3, <1>4, <1>5, <1>6, <1>7, <1>9, <1>10, <1>11, <1>12, <1>13 DEF Next, Task

(* Every variable keeps its type: a back-off is never longer than the one of the  *)
(* last shift, a batch never longer than its limit, and there are no more notices *)
(* than rows.                                                                    *)
THEOREM TypeCorrect == Spec => []TypeOK
<1>1. Spec => []RangeInv
  BY InitRange, NextRange, IInvInvariant, PTL DEF Spec
<1>2. IInv /\ RangeInv => TypeOK
  <2> SUFFICES ASSUME IInv, RangeInv PROVE TypeOK
    OBVIOUS
  <2>1. TypeInv
    BY DEF IInv
  <2>2. MaxId \in Nat /\ MaxFaults \in Nat /\ \A r \in Id : r \in Nat /\ r >= 1
    BY BoundsAssumption DEF Id
  <2>3. outbox \subseteq 1..lastId /\ notices \in 0..MaxId /\ repeats \in 0..MaxFaults
    BY <2>1, <2>2 DEF TypeInv, RangeInv
  <2> QED
    BY <2>1, <2>3 DEF TypeInv, RangeInv, TypeOK, Busy
<1> QED
  BY <1>1, <1>2, IInvInvariant, PTL

-------------------------------------------------------------------------------
(* The theorems.                                                                 *)

(* A row leaves the outbox only when an endpoint has it, or with its              *)
(* registration, whatever fails and whatever changes under a batch.              *)
THEOREM NothingLost == Spec => []NoLoss
<1>1. IInv => NoLoss
  BY DEF IInv
<1> QED
  BY <1>1, IInvInvariant, PTL

(* An endpoint gets a message once, and once more for each fault.                *)
THEOREM RepeatsNeedFaults == Spec => []OnceUnlessFault
<1>1. IInv => OnceUnlessFault
  BY DEF IInv, CopiesInv, OnceUnlessFault
<1> QED
  BY <1>1, IInvInvariant, PTL

(* A step that turns to a row turns to one whose back-off is over.               *)
LEMMA BackedOffStep ==
  ASSUME IInv, Next, pc' = "post", pc # "post"
  PROVE  wait[Head(batch').id] = 0
<1> USE DEF IInv
<1>1. CASE LoadBatch
  BY <1>1, LoadedProperties DEF Due
<1>2. CASE PauseEnds
  <2>1. batch' = batch /\ batch # <<>>
    BY <1>2 DEF PauseEnds, TypeInv, Busy
  <2> QED
    BY <2>1, HeadTail, InHandType
<1>3. CASE DeleteDelivered \/ Defer
  <2>1. NextInBatch /\ pc \in {"delete", "defer"}
    BY <1>3 DEF DeleteDelivered, Defer
  <2>2. Head(batch').id \in InHand
    BY <2>1, NextInBatchMoves
  <2> QED
    BY <2>2, InHandType
<1>4. CASE Registrations \/ Producers \/ LoadFails \/ Wake \/ PollEnds \/ Tick \/ Crash
  BY <1>4 DEF Registrations, Register, DeleteRegistration, Producers, Notify, Enqueue, LoadFails,
              Wake, PollEnds, LoadAgain, Tick, Crash, task
<1>5. CASE Post
  BY <1>5 DEF Post
<1> QED
  BY <1>1, <1>2, <1>3, <1>4, <1>5 DEF Next, Task

(* No row is posted while its back-off runs.                                     *)
THEOREM PostsBackedOff == Spec => BackedOff
<1> DEFINE A == pc' = "post" /\ pc # "post"
                  => LET m == Head(batch') IN m.id \in outbox => wait[m.id] = 0
<1>1. IInv /\ [Next]_vars => [A]_vars
  BY BackedOffStep
<1> QED
  BY <1>1, IInvInvariant, PTL DEF Spec, BackedOff
================================================================================
