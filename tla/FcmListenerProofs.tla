--------------------------- MODULE FcmListenerProofs ---------------------------
(* Proofs about FcmListener: its types, with the limits that a login depends on,  *)
(* that no message is lost, and what its two copies of the history are good for.  *)
EXTENDS FcmListener, SequenceTheorems, TLAPS

-------------------------------------------------------------------------------
(* Sequences.                                                                     *)

(* Trimming keeps the newest elements, at most n of them.                         *)
LEMMA NewestType ==
  ASSUME NEW S, NEW s \in Seq(S), NEW n \in Nat
  PROVE  /\ Newest(s, n) \in Seq(S)
         /\ Len(Newest(s, n)) <= n
         /\ Elements(Newest(s, n)) \subseteq Elements(s)
<1>1. CASE Len(s) > n
  <2> DEFINE t == SubSeq(s, Len(s) - n + 1, Len(s))
  <2>1. /\ t \in Seq(S) /\ Len(t) = n
        /\ \A k \in 1..n : t[k] = s[Len(s) - n + k]
    BY <1>1, SubSeqProperties
  <2>2. Elements(t) \subseteq Elements(s)
    BY <1>1, <2>1 DEF Elements
  <2> QED
    BY <1>1, <2>1, <2>2 DEF Newest
<1>2. CASE ~(Len(s) > n)
  BY <1>2 DEF Newest
<1> QED
  BY <1>1, <1>2

(* Appending adds one element.                                                    *)
LEMMA AppendType ==
  ASSUME NEW S, NEW s \in Seq(S), NEW e \in S
  PROVE  /\ Append(s, e) \in Seq(S) /\ Len(Append(s, e)) = Len(s) + 1
         /\ \A k \in 1..Len(s) : Append(s, e)[k] = s[k]
         /\ Append(s, e)[Len(s) + 1] = e
         /\ Elements(Append(s, e)) = Elements(s) \cup {e}
BY DEF Elements

(* A prefix.                                                                      *)
LEMMA PrefixType ==
  ASSUME NEW S, NEW s \in Seq(S), NEW n \in 0..Len(s)
  PROVE  /\ SubSeq(s, 1, n) \in Seq(S) /\ Len(SubSeq(s, 1, n)) = n
         /\ \A k \in 1..n : SubSeq(s, 1, n)[k] = s[k]
BY SubSeqProperties

(* What is left after the head.                                                   *)
LEMMA TailType ==
  ASSUME NEW S, NEW s \in Seq(S), s # <<>>
  PROVE  /\ Head(s) \in S /\ Tail(s) \in Seq(S) /\ Len(Tail(s)) = Len(s) - 1 /\ Len(s) > 0
         /\ Head(s) = s[1] /\ \A k \in 1..(Len(s) - 1) : Tail(s)[k] = s[k + 1]
OBVIOUS

-------------------------------------------------------------------------------
(* Types.                                                                         *)

(* A message is at hand from its frame to its acknowledgement.                    *)
TypeInv == TypeOK /\ (pc \in {"handling", "stored"} => msg \in Messages)

(* The transaction keeps its tables in their bounds.                              *)
LEMMA EnqueueType ==
  ASSUME TypeOK, NEW m \in Messages, EnqueueFcmMessage(m)
  PROVE  /\ outbox' \subseteq Messages /\ posted' \in Seq([msg: Messages, at: Nat, era: Nat])
         /\ acked' \in Seq(Messages) /\ Len(acked') <= TrimLimit
        /\ recorded' \in Nat /\ era' \in Nat
<1>1. outbox' \subseteq Messages /\ recorded' \in Nat /\ era' \in Nat
  BY DEF TypeOK, EnqueueFcmMessage
<1>2. posted' \in Seq([msg: Messages, at: Nat, era: Nat])
  <2>1. [msg |-> m, at |-> recorded, era |-> era] \in [msg: Messages, at: Nat, era: Nat]
    BY DEF TypeOK
  <2>2. posted \in Seq([msg: Messages, at: Nat, era: Nat])
    BY DEF TypeOK
  <2>3. Append(posted, [msg |-> m, at |-> recorded, era |-> era]) \in Seq([msg: Messages, at: Nat, era: Nat])
    BY <2>1, <2>2, AppendType
  <2> QED
    BY <2>2, <2>3 DEF EnqueueFcmMessage
<1>3. acked' \in Seq(Messages) /\ Len(acked') <= TrimLimit
  <2>1. TrimLimit \in Nat /\ acked \in Seq(Messages) /\ Len(acked) <= TrimLimit
    BY HistoryAssumption DEF TrimLimit, TypeOK
  <2>2. Append(acked, m) \in Seq(Messages)
    BY <2>1
  <2>3. /\ Newest(Append(acked, m), TrimLimit) \in Seq(Messages)
        /\ Len(Newest(Append(acked, m), TrimLimit)) <= TrimLimit
    BY <2>1, <2>2, NewestType
  <2> QED
    BY <2>1, <2>3 DEF EnqueueFcmMessage
<1> QED
  BY <1>1, <1>2, <1>3

(* So do the deletes.                                                             *)
LEMMA DeleteType ==
  ASSUME TypeOK, NEW n, DeleteRows(n)
  PROVE  /\ outbox' \subseteq outbox /\ UNCHANGED posted /\ session' \in BOOLEAN
         /\ degraded' \in BOOLEAN
         /\ acked' \in Seq(Messages) /\ Len(acked') <= TrimLimit
         /\ recorded' \in Nat /\ era' \in Nat
<1>1. <<>> \in Seq(Messages) /\ Len(<<>>) <= TrimLimit
  BY HistoryAssumption DEF TrimLimit
<1>2. session' \in BOOLEAN /\ outbox' \subseteq outbox /\ UNCHANGED posted
  BY DEF TypeOK, DeleteRows
<1>3. degraded' \in BOOLEAN
  BY DEF TypeOK, DeleteRows
<1>4. \/ UNCHANGED <<acked, recorded, era>>
      \/ acked' = <<>> /\ recorded' = 0 /\ era' = era + 1
  BY DEF DeleteRows
<1>5. acked \in Seq(Messages) /\ Len(acked) <= TrimLimit /\ recorded \in Nat /\ era \in Nat
  BY DEF TypeOK
<1>6. acked' \in Seq(Messages) /\ Len(acked') <= TrimLimit /\ recorded' \in Nat /\ era' \in Nat
  <2>1. CASE UNCHANGED <<acked, recorded, era>>
    BY <1>5, <2>1
  <2>2. CASE acked' = <<>> /\ recorded' = 0 /\ era' = era + 1
    <3>1. acked' \in Seq(Messages) /\ Len(acked') <= TrimLimit
      BY <1>1, <2>2
    <3>2. recorded' \in Nat /\ era' \in Nat
      BY <1>5, <2>2
    <3> QED
      BY <3>1, <3>2
  <2> QED
    BY <1>4, <2>1, <2>2
<1> QED
  BY <1>2, <1>3, <1>6

(* A frame that is read.                                                          *)
LEMMA ReadsFrameType ==
  ASSUME TypeOK, ReadsFrame
  PROVE  Head(frames) \in Frame /\ frames' \in Seq(Frame) /\ streamId' \in Nat
BY TailType DEF TypeOK, ReadsFrame

(* A write, that succeeds, is lost or fails.                                      *)
LEMMA WriteType ==
  ASSUME TypeOK, NEW n \in Nat, WriteAck(n) \/ WriteFails
  PROVE  acks' \in Seq(Nat) /\ pc' \in {"select", "connecting"}
<1>1. acks \in Seq(Nat) /\ Append(acks, n) \in Seq(Nat)
  BY AppendType DEF TypeOK
<1> QED
  BY <1>1 DEF WriteAck, WriteFails

(* A stream that is dropped.                                                      *)
LEMMA HangsUpType ==
  ASSUME HangsUp
  PROVE  line' \in BOOLEAN /\ frames' \in Seq(Frame) /\ streamId' \in Nat
<1>1. line' = FALSE /\ frames' = <<>> /\ streamId' = 0
  BY DEF HangsUp
<1>2. FALSE \in BOOLEAN /\ <<>> \in Seq(Frame) /\ 0 \in Nat
  OBVIOUS
<1> QED
  BY <1>1, <1>2

(* Steps of the task.                                                             *)
LEMMA TaskType ==
  ASSUME TypeInv, Task
  PROVE  TypeInv'
<1> USE FaultsAssumption
<1>0. TypeOK
  BY DEF TypeInv
<1>1. MAX_ACK_HISTORY \in Nat /\ MAX_PERSISTENT_IDS = MAX_ACK_HISTORY /\ TrimLimit = MAX_ACK_HISTORY
  BY HistoryAssumption DEF MAX_ACK_HISTORY, MAX_PERSISTENT_IDS, TrimLimit
<1>2. CASE Seed
  <2>1. ids' \in Seq(Messages) /\ Len(ids') <= MAX_PERSISTENT_IDS
    <3>1. CASE ids' = RecentAcks
      <4>1. acked \in Seq(Messages)
        BY <1>0 DEF TypeOK
      <4> QED
        BY <1>1, <3>1, <4>1, NewestType DEF RecentAcks
    <3>2. CASE ids' = <<>>
      BY <1>1, <3>2
    <3> QED
      BY <1>2, <3>1, <3>2 DEF Seed
  <2>2. degraded' \in BOOLEAN
    BY <1>2 DEF Seed
  <2>3. faults' \in 0..MaxFaults
    BY <1>0, <1>2 DEF Seed, Fault, TypeOK
  <2>4. pc' = "connecting"
        /\ UNCHANGED <<msg, streamId, store, stragglers, registration, server, connection>>
    BY <1>2 DEF Seed
  <2> QED
    BY <1>0, <2>1, <2>2, <2>3, <2>4
    DEF TypeInv, TypeOK, Phase, store, registration, server, mail, connection
<1>3. CASE Connect
  <2>1. <<Login>> \in Seq(Frame) /\ <<>> \in Seq(Nat)
    BY DEF Frame, Login
  <2>2. backlog' \subseteq 1..accepted /\ UNCHANGED <<mail, orphaned>>
    BY <1>0, <1>3 DEF Connect, ServerTakesLogin, TypeOK
  <2>3. /\ pc' = "select" /\ streamId' = 0 /\ line' = TRUE /\ acks' = <<>>
        /\ log' = <<Login>> /\ frames' = <<Login>>
        /\ UNCHANGED <<ids, msg, store, aborted, registration, faults>>
    BY <1>3 DEF Connect
  <2> QED
    BY <1>0, <2>1, <2>2, <2>3 DEF TypeInv, TypeOK, Phase, store, aborted, registration, mail
<1>4. CASE ConnectFails
  <2>1. faults' \in 0..MaxFaults
    BY <1>0, <1>4 DEF ConnectFails, Fault, TypeOK
  <2>2. /\ backlog' \subseteq 1..accepted
        /\ UNCHANGED <<task, store, aborted, registration, mail, orphaned, connection>>
    BY <1>0, <1>4 DEF ConnectFails, ServerTakesLogin, TypeOK
  <2> QED
    BY <1>0, <2>1, <2>2
    DEF TypeInv, TypeOK, task, store, aborted, registration, mail, connection
<1>5. CASE ReceiveData
  <2>1. Head(frames) \in Frame /\ frames' \in Seq(Frame) /\ streamId' \in Nat
    BY <1>0, <1>5, ReadsFrameType DEF ReceiveData
  <2> QED
    BY <1>0, <1>5, <2>1
    DEF ReceiveData, TypeInv, TypeOK, Phase, store, aborted, registration, server, mail
<1>6. CASE ReceivePing
  <2>1. frames' \in Seq(Frame) /\ streamId' \in Nat /\ line' \in BOOLEAN
    BY <1>0, <1>6, ReadsFrameType, HangsUpType DEF ReceivePing, WriteFails, TypeOK
  <2>2. acks' \in Seq(Nat) /\ pc' \in {"select", "connecting"}
    BY <1>0, <1>6, <2>1, WriteType DEF ReceivePing
  <2>3. UNCHANGED <<ids, msg, store, aborted, registration, server, log, faults>>
    BY <1>6 DEF ReceivePing
  <2> QED
    BY <1>0, <2>1, <2>2, <2>3
    DEF TypeInv, TypeOK, Phase, store, aborted, registration, server, mail
<1>7. CASE ReceiveOther
  BY <1>0, <1>7, ReadsFrameType
  DEF ReceiveOther, TypeInv, TypeOK, store, aborted, registration, server, mail
<1>8. CASE ReceiveUndecodable \/ StreamEnds
  <2>1. frames' \in Seq(Frame) /\ streamId' \in Nat /\ line' \in BOOLEAN
    BY <1>8, HangsUpType DEF ReceiveUndecodable, StreamEnds
  <2>2. pc' = "connecting" /\ UNCHANGED <<ids, msg, store, aborted, registration, server, log, acks, faults>>
    BY <1>8 DEF ReceiveUndecodable, StreamEnds
  <2> QED
    BY <1>0, <2>1, <2>2 DEF TypeInv, TypeOK, Phase, store, aborted, registration, server, mail
<1>9. CASE Persist
  <2>1. pc = "handling" /\ msg \in Messages
        /\ UNCHANGED <<ids, aborted, registration, server, log, acks>>
    BY <1>9 DEF Persist, TypeInv
  <2>2. CASE EnqueueFcmMessage(msg) /\ pc' = "stored" /\ UNCHANGED <<msg, streamId, line, frames, faults>>
    <3>1. /\ outbox' \subseteq Messages /\ posted' \in Seq([msg: Messages, at: Nat, era: Nat])
          /\ acked' \in Seq(Messages) /\ Len(acked') <= TrimLimit
          /\ recorded' \in Nat /\ era' \in Nat
      BY <1>0, <2>1, <2>2, EnqueueType
    <3> QED
      BY <1>0, <2>1, <2>2, <3>1 DEF TypeInv, TypeOK, Phase, aborted, registration, server, mail
  <2>3. CASE Fault /\ pc' = "connecting" /\ msg' = Login /\ HangsUp /\ UNCHANGED store
    <3>1. frames' \in Seq(Frame) /\ streamId' \in Nat /\ line' \in BOOLEAN
      BY <2>3, HangsUpType
    <3>2. faults' \in 0..MaxFaults
      BY <1>0, <2>3 DEF Fault, TypeOK
    <3> QED
      BY <1>0, <2>1, <2>3, <3>1, <3>2
      DEF TypeInv, TypeOK, Phase, store, aborted, registration, server, mail
  <2> QED
    BY <1>9, <2>2, <2>3 DEF Persist
<1>10. CASE Acknowledge
  <2>1. frames' \in Seq(Frame) /\ streamId' \in Nat /\ line' \in BOOLEAN
    BY <1>0, <1>10, HangsUpType DEF Acknowledge, WriteFails, TypeOK
  <2>2. acks' \in Seq(Nat) /\ pc' \in {"select", "connecting"}
    BY <1>0, <1>10, WriteType DEF Acknowledge, TypeOK
  <2>3. msg \in Messages
    BY <1>10 DEF Acknowledge, TypeInv
  <2>4. ids' \in Seq(Messages) /\ Len(ids') <= MAX_PERSISTENT_IDS
    <3>1. ids \in Seq(Messages) /\ Len(ids) <= MAX_PERSISTENT_IDS
      BY <1>0 DEF TypeOK
    <3>2. Append(ids, msg) \in Seq(Messages)
      BY <2>3, <3>1, AppendType
    <3> QED
      BY <1>1, <1>10, <3>1, <3>2, NewestType DEF Acknowledge
  <2>5. msg' = Login /\ UNCHANGED <<store, aborted, registration, server, log, faults>>
    BY <1>10 DEF Acknowledge
  <2> QED
    BY <1>0, <2>1, <2>2, <2>4, <2>5
    DEF TypeInv, TypeOK, Phase, store, aborted, registration, server, mail
<1> QED
  BY <1>2, <1>3, <1>4, <1>5, <1>6, <1>7, <1>8, <1>9, <1>10 DEF Task

(* A task that is stopped or dies leaves nothing behind but a straggler.          *)
LEMMA TaskGoneType ==
  ASSUME TaskGone
  PROVE  /\ ids' \in Seq(Messages) /\ Len(ids') <= MAX_PERSISTENT_IDS /\ msg' = Login
         /\ line' \in BOOLEAN /\ frames' \in Seq(Frame) /\ streamId' \in Nat
<1>1. <<>> \in Seq(Messages) /\ Len(<<>>) <= MAX_PERSISTENT_IDS
  BY HistoryAssumption DEF MAX_PERSISTENT_IDS
<1>2. ids' = <<>> /\ msg' = Login /\ HangsUp
  BY DEF TaskGone
<1> QED
  BY <1>1, <1>2, HangsUpType

LEMMA StopTaskType ==
  ASSUME TypeInv, StopTask, UNCHANGED <<store, server>>, session' \in BOOLEAN, deletes' \in Nat,
         pruning' \in BOOLEAN, faults' \in 0..MaxFaults
  PROVE  TypeInv'
<1>1. TypeOK
  BY DEF TypeInv
<1>2. /\ ids' \in Seq(Messages) /\ Len(ids') <= MAX_PERSISTENT_IDS /\ msg' = Login
      /\ line' \in BOOLEAN /\ frames' \in Seq(Frame) /\ streamId' \in Nat
  BY TaskGoneType DEF StopTask
<1>3. stragglers' \subseteq Messages
  BY <1>1 DEF StopTask, TypeInv, TypeOK
<1>4. pc' = "stopped" /\ UNCHANGED <<degraded, log, acks>>
  BY DEF StopTask
<1> QED
  BY <1>1, <1>2, <1>3, <1>4 DEF TypeInv, TypeOK, Phase, store, server, mail

(* Steps of the manager.                                                          *)
LEMMA ManagerType ==
  ASSUME TypeInv, Manager
  PROVE  TypeInv'
<1> USE FaultsAssumption
<1>0. TypeOK /\ session \in BOOLEAN /\ deletes \in Nat /\ pruning \in BOOLEAN /\ faults \in 0..MaxFaults
  BY DEF TypeInv, TypeOK
<1>1. Fault => faults' \in 0..MaxFaults
  BY <1>0 DEF Fault
<1>2. CASE Reconfigure
  BY <1>0, <1>1, <1>2, StopTaskType DEF Reconfigure, registration
<1>3. CASE Unlisten
  BY <1>0, <1>1, <1>3, StopTaskType DEF Unlisten
<1>4. CASE StopPruned
  BY <1>0, <1>4, StopTaskType DEF StopPruned
<1>5. CASE StartListener
  <2>1. backlog' \subseteq 1..accepted /\ orphaned' \subseteq 1..accepted
    BY <1>0, <1>5 DEF StartListener, TypeOK
  <2>2. pc' = "starting"
        /\ UNCHANGED <<ids, msg, streamId, store, aborted, registration, mail, connection, faults>>
    BY <1>5 DEF StartListener
  <2> QED
    BY <1>0, <2>1, <2>2
    DEF TypeInv, TypeOK, Phase, store, aborted, registration, mail, connection
<1>6. CASE SaveSession
  <2>1. pc' = "seeding" /\ session' \in BOOLEAN /\ faults' \in 0..MaxFaults
        /\ UNCHANGED <<ids, msg, streamId, store, aborted, deletes, pruning, server, connection>>
    BY <1>0, <1>1, <1>6 DEF SaveSession
  <2> QED
    BY <1>0, <2>1 DEF TypeInv, TypeOK, Phase, store, aborted, server, mail, connection
<1>7. CASE StartFails
  BY <1>0, <1>1, <1>7
  DEF StartFails, TypeInv, TypeOK, Phase, store, aborted, registration, server, mail, connection
<1>8. CASE DeleteRegistration
  <2>1. PICK n \in 0..3 : DeleteRows(n) /\ IF n \in {0, 3} THEN UNCHANGED faults ELSE Fault
    BY <1>8 DEF DeleteRegistration
  <2>2. /\ outbox' \subseteq outbox /\ UNCHANGED posted /\ session' \in BOOLEAN
        /\ degraded' \in BOOLEAN
        /\ acked' \in Seq(Messages) /\ Len(acked') <= TrimLimit
        /\ recorded' \in Nat /\ era' \in Nat
    BY <1>0, <2>1, DeleteType
  <2>3. deletes' \in Nat /\ faults' \in 0..MaxFaults
        /\ UNCHANGED <<task, stragglers, pruning, server, connection>>
    BY <1>0, <1>1, <1>8, <2>1 DEF DeleteRegistration
  <2> QED
    BY <1>0, <2>2, <2>3 DEF TypeInv, TypeOK, task, server, mail, connection
<1>9. CASE PruneStale
  <2>1. PICK n \in 0..3 : DeleteRows(n)
    BY <1>9 DEF PruneStale
  <2>2. /\ outbox' \subseteq outbox /\ UNCHANGED posted /\ session' \in BOOLEAN
        /\ degraded' \in BOOLEAN
        /\ acked' \in Seq(Messages) /\ Len(acked') <= TrimLimit
        /\ recorded' \in Nat /\ era' \in Nat
    BY <1>0, <2>1, DeleteType
  <2>3. pruning' \in BOOLEAN /\ faults' \in 0..MaxFaults
        /\ UNCHANGED <<task, stragglers, deletes, server, connection>>
    BY <1>0, <1>1, <1>9 DEF PruneStale
  <2> QED
    BY <1>0, <2>2, <2>3 DEF TypeInv, TypeOK, task, server, mail, connection
<1>10. CASE Crash
  <2>1. PICK n \in 0..3 : DeleteRows(n)
    BY <1>10 DEF Crash
  <2>2. /\ outbox' \subseteq outbox /\ UNCHANGED posted /\ session' \in BOOLEAN
        /\ degraded' \in BOOLEAN
        /\ acked' \in Seq(Messages) /\ Len(acked') <= TrimLimit
        /\ recorded' \in Nat /\ era' \in Nat
    BY <1>0, <2>1, DeleteType
  <2>3. /\ ids' \in Seq(Messages) /\ Len(ids') <= MAX_PERSISTENT_IDS /\ msg' = Login
        /\ line' \in BOOLEAN /\ frames' \in Seq(Frame) /\ streamId' \in Nat
    BY <1>10, TaskGoneType DEF Crash
  <2>4. /\ pc' = "stopped" /\ stragglers' = {} /\ deletes' = 0 /\ pruning' = FALSE
        /\ faults' \in 0..MaxFaults /\ UNCHANGED <<server, log, acks>>
    BY <1>0, <1>1, <1>10 DEF Crash
  <2> QED
    BY <1>0, <2>2, <2>3, <2>4 DEF TypeInv, TypeOK, Phase, server, mail
<1>11. ASSUME NEW m \in stragglers, Straggle(m) PROVE TypeInv'
  <2>1. m \in Messages
    BY <1>0 DEF TypeOK
  <2>2. /\ outbox' \subseteq Messages /\ posted' \in Seq([msg: Messages, at: Nat, era: Nat])
        /\ acked' \in Seq(Messages) /\ Len(acked') <= TrimLimit
        /\ recorded' \in Nat /\ era' \in Nat
    BY <1>0, <1>11, <2>1, EnqueueType DEF Straggle
  <2>3. degraded' \in BOOLEAN
    BY <1>11 DEF Straggle
  <2> QED
    BY <1>0, <1>11, <2>2, <2>3
    DEF Straggle, TypeInv, TypeOK, task, registration, server, mail, connection
<1> QED
  BY <1>2, <1>3, <1>4, <1>5, <1>6, <1>7, <1>8, <1>9, <1>10, <1>11 DEF Manager

(* Steps of the server and of the outbox.                                         *)
LEMMA OthersType ==
  ASSUME TypeInv, McsServer \/ \E m \in outbox : RowLeaves(m)
  PROVE  TypeInv'
<1> USE FaultsAssumption
<1>0. TypeOK
  BY DEF TypeInv
<1>1. CASE Accept
  <2>1. accepted' \in 0..MaxMessage /\ accepted' = accepted + 1 /\ accepted \in Nat
    BY <1>0, <1>1, MessagesAssumption DEF Accept, TypeOK
  <2>2. backlog' \subseteq 1..accepted' /\ orphaned' \subseteq 1..accepted'
    BY <1>0, <1>1, <2>1 DEF Accept, TypeOK
  <2>3. undecodable' \subseteq 1..accepted'
    BY <1>0, <1>1, <2>1 DEF Accept, TypeOK
  <2> QED
    BY <1>0, <1>1, <2>1, <2>2, <2>3
    DEF Accept, TypeInv, TypeOK, task, store, aborted, registration, connection
<1>2. ASSUME NEW frame \in Frame, ServerSends(frame) PROVE TypeInv'
  <2>1. log' \in Seq(Frame) /\ frames' \in Seq(Frame)
    BY <1>0, <1>2, AppendType DEF ServerSends, TypeOK
  <2> QED
    BY <1>0, <1>2, <2>1
    DEF ServerSends, TypeInv, TypeOK, task, store, aborted, registration, server, mail
<1>3. CASE SendMessage
  <2>1. PICK m \in backlog : ServerSends(m)
    BY <1>3 DEF SendMessage
  <2>2. m \in Frame
    BY <1>0, MessagesAssumption DEF TypeOK, Frame, Messages
  <2> QED
    BY <1>2, <2>1, <2>2
<1>4. CASE SendPing
  BY <1>2, <1>4 DEF SendPing, Frame
<1>5. CASE ReadAck
  <2>1. acks' \in Seq(Nat) /\ backlog' \subseteq backlog
    BY <1>0, <1>5, TailType DEF ReadAck, TypeOK
  <2> QED
    BY <1>0, <1>5, <2>1
    DEF ReadAck, TypeInv, TypeOK, task, store, aborted, registration, mail
<1>6. CASE LineBreaks
  <2>1. frames' \in Seq(Frame) /\ acks' \in Seq(Nat)
    BY <1>0, <1>6, PrefixType DEF LineBreaks, TypeOK
  <2>2. faults' \in 0..MaxFaults
    BY <1>0, <1>6 DEF LineBreaks, Fault, TypeOK
  <2> QED
    BY <1>0, <1>6, <2>1, <2>2
    DEF LineBreaks, TypeInv, TypeOK, task, store, aborted, registration, server, mail
<1>7. ASSUME NEW m \in outbox, RowLeaves(m) PROVE TypeInv'
  BY <1>0, <1>7
  DEF RowLeaves, TypeInv, TypeOK, task, aborted, registration, server, mail, connection
<1> QED
  BY <1>1, <1>3, <1>4, <1>5, <1>6, <1>7 DEF McsServer

(* TypeInv is an invariant.                                                       *)
LEMMA TypeInvInductive ==
  /\ Init => TypeInv
  /\ TypeInv /\ [Next]_vars => TypeInv'
<1>1. Init => TypeInv
  <2> SUFFICES ASSUME Init PROVE TypeInv
    OBVIOUS
  <2>1. Len(ids) <= MAX_PERSISTENT_IDS /\ Len(acked) <= TrimLimit
    BY HistoryAssumption DEF Init, MAX_PERSISTENT_IDS, TrimLimit
  <2>2. /\ <<>> \in Seq(Messages) /\ <<>> \in Seq([msg: Messages, at: Nat, era: Nat])
        /\ <<>> \in Seq(Frame) /\ <<>> \in Seq(Nat)
    OBVIOUS
  <2>3. accepted \in 0..MaxMessage /\ backlog \subseteq 1..accepted /\ faults \in 0..MaxFaults
    BY MessagesAssumption, FaultsAssumption DEF Init
  <2> QED
    BY <2>1, <2>2, <2>3 DEF Init, TypeInv, TypeOK, Phase
<1>2. ASSUME TypeInv, [Next]_vars PROVE TypeInv'
  <2>1. CASE UNCHANGED vars
    BY <1>2, <2>1
    DEF vars, task, store, aborted, registration, server, mail, connection, TypeInv, TypeOK
  <2>2. CASE Next
    BY <1>2, <2>2, TaskType, ManagerType, OthersType DEF Next
  <2> QED
    BY <1>2, <2>1, <2>2
<1> QED
  BY <1>1, <1>2

(* Every reachable state has the declared types, for any size of the history: in  *)
(* particular the history of the task always fits into a login request.           *)
THEOREM TypeCorrect == Spec => []TypeOK
<1>1. TypeInv => TypeOK
  BY DEF TypeInv
<1> QED
  BY <1>1, TypeInvInductive, PTL DEF Spec

-------------------------------------------------------------------------------
(* No message is lost.                                                            *)

(* What has a row, an entry in the history or a place in the next login has been  *)
(* stored.                                                                        *)
KnownPosted == \A m \in outbox \cup Elements(acked) \cup Elements(ids) : Posted(m)

(* The messages among the first n frames of the connection have been stored.      *)
Covered(n) == n <= Len(log) /\ \A k \in 1..n : log[k] \in Messages => Posted(log[k])

Reading == pc \in {"select", "handling", "stored"}

(* The task counts its frames as the server does: what it has read are the first  *)
(* streamId frames, and all of them but the one at hand have been stored.         *)
CountInv ==
  /\ line => Reading /\ streamId + Len(frames) = Len(log)
  /\ Reading => /\ streamId + Len(frames) <= Len(log)
                /\ \A k \in 1..Len(frames) : frames[k] = log[streamId + k]
  /\ pc \in {"select", "stored"} => Covered(streamId)
  /\ pc = "handling" => streamId > 0 /\ Covered(streamId - 1) /\ msg = log[streamId]
  /\ pc = "stored" => Posted(msg)

(* Whatever acknowledgement is under way covers stored messages only.             *)
AcksInv == \A k \in 1..Len(acks) : Covered(acks[k])

LossInv == KnownPosted /\ CountInv /\ AcksInv /\ NoLoss

(* The transaction stores the message and forgets none.                           *)
LEMMA EnqueuePosts ==
  ASSUME TypeOK, KnownPosted, NEW m \in Messages, EnqueueFcmMessage(m), UNCHANGED ids
  PROVE  /\ \A x : Posted(x) => Posted(x)'
         /\ Posted(m)'
         /\ KnownPosted'
<1>1. /\ posted \in Seq([msg: Messages, at: Nat, era: Nat])
      /\ [msg |-> m, at |-> recorded, era |-> era] \in [msg: Messages, at: Nat, era: Nat]
  BY DEF TypeOK
<1>2. \/ UNCHANGED <<outbox, posted>> /\ Posted(m)
      \/ outbox' = outbox \cup {m} /\ posted' = Append(posted, [msg |-> m, at |-> recorded, era |-> era])
  BY DEF EnqueueFcmMessage, WasAcked, KnownPosted
<1>3. (\A x : Posted(x) => Posted(x)') /\ Posted(m)'
  <2>1. CASE UNCHANGED <<outbox, posted>> /\ Posted(m)
    BY <2>1 DEF Posted
  <2>2. CASE posted' = Append(posted, [msg |-> m, at |-> recorded, era |-> era])
    <3>1. /\ posted' \in Seq([msg: Messages, at: Nat, era: Nat]) /\ Len(posted') = Len(posted) + 1
          /\ \A k \in 1..Len(posted) : posted'[k] = posted[k]
          /\ posted'[Len(posted) + 1] = [msg |-> m, at |-> recorded, era |-> era]
      BY <1>1, <2>2, AppendType
    <3>2. Posted(m)'
      <4>1. Len(posted) + 1 \in DOMAIN posted'
        BY <1>1, <3>1
      <4> QED
        BY <3>1, <4>1 DEF Posted
    <3>3. ASSUME NEW x, Posted(x) PROVE Posted(x)'
      <4>1. PICK k \in DOMAIN posted : posted[k].msg = x
        BY <3>3 DEF Posted
      <4>2. DOMAIN posted = 1..Len(posted) /\ DOMAIN posted' = 1..Len(posted') /\ Len(posted) \in Nat
        BY <1>1, <3>1
      <4>3. k \in DOMAIN posted' /\ posted'[k] = posted[k]
        BY <3>1, <4>1, <4>2
      <4> QED
        BY <4>1, <4>3 DEF Posted
    <3> QED
      BY <3>2, <3>3
  <2> QED
    BY <1>2, <2>1, <2>2
<1>4. Elements(acked') \subseteq Elements(acked) \cup {m}
  <2>1. acked \in Seq(Messages) /\ TrimLimit \in Nat
    BY HistoryAssumption DEF TypeOK, TrimLimit
  <2>2. Append(acked, m) \in Seq(Messages) /\ Elements(Append(acked, m)) = Elements(acked) \cup {m}
    BY <2>1, AppendType
  <2>3. Elements(Newest(Append(acked, m), TrimLimit)) \subseteq Elements(acked) \cup {m}
    BY <2>1, <2>2, NewestType
  <2> QED
    BY <2>3 DEF EnqueueFcmMessage
<1>5. KnownPosted'
  BY <1>2, <1>3, <1>4 DEF KnownPosted
<1> QED
  BY <1>3, <1>5

(* The deletes forget, and take nothing back that was stored.                     *)
LEMMA DeletePosts ==
  ASSUME KnownPosted, NEW n, DeleteRows(n), Elements(ids') \subseteq Elements(ids)
  PROVE  KnownPosted' /\ UNCHANGED posted
<1>1. UNCHANGED posted /\ outbox' \subseteq outbox /\ (UNCHANGED acked \/ acked' = <<>>)
  BY DEF DeleteRows
<1>2. Elements(acked') \subseteq Elements(acked)
  BY <1>1 DEF Elements
<1> QED
  BY <1>1, <1>2 DEF KnownPosted, Posted

(* What is covered stays covered while the connection stays and messages are      *)
(* stored.                                                                        *)
LEMMA CoveredKeeps ==
  ASSUME NEW n, Covered(n), UNCHANGED log, \A x : Posted(x) => Posted(x)'
  PROVE  Covered(n)'
BY DEF Covered

(* Reading a frame: the one after the last.                                       *)
LEMMA ReadsFrameCounts ==
  ASSUME TypeOK, LossInv, ReadsFrame, UNCHANGED log
  PROVE  /\ streamId' = streamId + 1 /\ streamId' <= Len(log) /\ log[streamId'] = Head(frames)
         /\ Covered(streamId' - 1)
         /\ streamId' + Len(frames') <= Len(log)
         /\ line => streamId' + Len(frames') = Len(log)
         /\ \A k \in 1..Len(frames') : frames'[k] = log[streamId' + k]
<1>1. /\ pc = "select" /\ frames # <<>> /\ frames' = Tail(frames) /\ streamId' = streamId + 1
      /\ frames \in Seq(Frame) /\ streamId \in Nat /\ Len(log) \in Nat
  BY DEF ReadsFrame, TypeOK
<1>2. /\ Len(frames) > 0 /\ Len(frames') = Len(frames) - 1 /\ Head(frames) = frames[1]
      /\ \A k \in 1..Len(frames') : frames'[k] = frames[k + 1]
      /\ Len(frames) \in Nat
  BY <1>1, TailType
<1>3. /\ streamId + Len(frames) <= Len(log) /\ Covered(streamId)
      /\ \A k \in 1..Len(frames) : frames[k] = log[streamId + k]
      /\ line => streamId + Len(frames) = Len(log)
  BY <1>1 DEF LossInv, CountInv, Reading
<1>4. log[streamId'] = Head(frames)
  BY <1>1, <1>2, <1>3
<1>5. \A k \in 1..Len(frames') : frames'[k] = log[streamId' + k]
  <2> SUFFICES ASSUME NEW k \in 1..Len(frames') PROVE frames'[k] = log[streamId' + k]
    OBVIOUS
  <2>1. k + 1 \in 1..Len(frames) /\ streamId + (k + 1) = streamId' + k
    BY <1>1, <1>2
  <2> QED
    BY <1>2, <1>3, <2>1
<1>6. streamId' - 1 = streamId
  BY <1>1
<1> QED
  BY <1>1, <1>2, <1>3, <1>4, <1>5, <1>6

(* A frame that needs no storing extends what is covered.                         *)
LEMMA CoveredGrows ==
  ASSUME NEW n \in Nat, Covered(n), n + 1 <= Len(log), log[n + 1] \in Messages => Posted(log[n + 1])
  PROVE  Covered(n + 1)
BY DEF Covered

(* An acknowledgement of covered frames.                                          *)
LEMMA WriteAckKeeps ==
  ASSUME TypeOK, AcksInv, NEW n \in Nat, WriteAck(n), Covered(n), UNCHANGED <<log, posted>>
  PROVE  AcksInv' /\ pc' = "select"
<1>1. acks \in Seq(Nat)
  BY DEF TypeOK
<1>2. \A k \in 1..Len(acks') : Covered(acks'[k])
  <2>1. CASE acks' = Append(acks, n)
    <3>1. /\ Len(acks') = Len(acks) + 1 /\ \A k \in 1..Len(acks) : acks'[k] = acks[k]
          /\ acks'[Len(acks) + 1] = n
      BY <1>1, <2>1, AppendType
    <3> QED
      BY <1>1, <3>1 DEF AcksInv
  <2>2. CASE UNCHANGED acks
    BY <2>2 DEF AcksInv
  <2> QED
    BY <2>1, <2>2 DEF WriteAck
<1>3. AcksInv'
  BY <1>2 DEF AcksInv, Covered, Posted
<1> QED
  BY <1>3 DEF WriteAck

(* Steps of the task.                                                             *)
LEMMA TaskLossless ==
  ASSUME TypeInv, LossInv, Task
  PROVE  LossInv'
<1>0. /\ TypeOK /\ KnownPosted /\ CountInv /\ AcksInv /\ NoLoss
      /\ streamId \in Nat /\ Len(log) \in Nat /\ Len(frames) \in Nat
  BY DEF TypeInv, LossInv, TypeOK
<1>1. Login \notin Messages /\ Ping \notin Messages
  BY DEF Login, Ping, Messages
<1>2. CASE Seed
  <2>1. /\ UNCHANGED <<msg, streamId, store, backlog, orphaned, mail, connection>>
        /\ pc = "seeding" /\ pc' = "connecting"
    BY <1>2 DEF Seed, server
  <2>2. Elements(ids') \subseteq Elements(acked)
    <3>1. CASE ids' = RecentAcks
      <4>1. acked \in Seq(Messages) /\ MAX_ACK_HISTORY \in Nat
        BY <1>0, HistoryAssumption DEF TypeOK, MAX_ACK_HISTORY
      <4> QED
        BY <3>1, <4>1, NewestType DEF RecentAcks
    <3>2. CASE ids' = <<>>
      BY <3>2 DEF Elements
    <3> QED
      BY <1>2, <3>1, <3>2 DEF Seed
  <2>3. KnownPosted'
    BY <1>0, <2>1, <2>2 DEF KnownPosted, Posted, store
  <2>4. CountInv'
    BY <1>0, <2>1 DEF CountInv, Reading, connection
  <2>5. AcksInv' /\ NoLoss'
    BY <1>0, <2>1 DEF AcksInv, Covered, NoLoss, Posted, store, mail, connection
  <2> QED
    BY <2>3, <2>4, <2>5 DEF LossInv
<1>3. CASE Connect
  <2>1. /\ pc' = "select" /\ streamId' = 0 /\ line' = TRUE /\ log' = <<Login>> /\ frames' = <<Login>>
        /\ acks' = <<>> /\ backlog' = backlog \ Elements(ids)
        /\ UNCHANGED <<ids, msg, store, mail, orphaned>>
    BY <1>3 DEF Connect, ServerTakesLogin
  <2>2. KnownPosted'
    BY <1>0, <2>1 DEF KnownPosted, Posted, store
  <2>3. CountInv'
    BY <2>1 DEF CountInv, Reading, Covered
  <2>4. AcksInv'
    BY <2>1 DEF AcksInv
  <2>5. NoLoss'
    BY <1>0, <2>1 DEF NoLoss, KnownPosted, Posted, store, mail
  <2> QED
    BY <2>2, <2>3, <2>4, <2>5 DEF LossInv
<1>4. CASE ConnectFails
  <2>1. /\ UNCHANGED <<task, store, mail, orphaned, connection>>
        /\ backlog' = backlog \ Elements(ids) \/ UNCHANGED backlog
    BY <1>4 DEF ConnectFails, ServerTakesLogin
  <2>2. NoLoss'
    BY <1>0, <2>1 DEF NoLoss, KnownPosted, Posted, store, mail
  <2>3. KnownPosted' /\ CountInv' /\ AcksInv'
    BY <1>0, <2>1 DEF KnownPosted, CountInv, Reading, AcksInv, Covered, Posted, task, store, connection
  <2> QED
    BY <2>2, <2>3 DEF LossInv
<1>5. ASSUME UNCHANGED <<ids, store, server, log, acks>>
      PROVE  KnownPosted' /\ AcksInv' /\ NoLoss' /\ \A n : Covered(n) => Covered(n)'
  BY <1>0, <1>5 DEF KnownPosted, AcksInv, NoLoss, Covered, Posted, store, server, mail
<1>6. CASE ReceiveData
  <2>1. /\ ReadsFrame /\ msg' = Head(frames) /\ pc' = "handling"
        /\ UNCHANGED <<ids, store, server, line, log, acks>>
    BY <1>6 DEF ReceiveData
  <2>2. KnownPosted' /\ AcksInv' /\ NoLoss' /\ \A n : Covered(n) => Covered(n)'
    BY <1>5, <2>1
  <2>3. CountInv'
    BY <1>0, <2>1, <2>2, ReadsFrameCounts DEF CountInv, Reading, LossInv
  <2> QED
    BY <2>2, <2>3 DEF LossInv
<1>7. CASE ReceivePing
  <2>1. /\ pc = "select" /\ Head(frames) = Ping
        /\ UNCHANGED <<ids, msg, store, server, log>>
    BY <1>7 DEF ReceivePing
  <2>2. CASE ReadsFrame /\ WriteAck(streamId') /\ UNCHANGED line
    <3>1. /\ streamId' = streamId + 1 /\ streamId' <= Len(log) /\ log[streamId'] = Ping
          /\ Covered(streamId' - 1) /\ streamId' + Len(frames') <= Len(log)
          /\ line => streamId' + Len(frames') = Len(log)
          /\ \A k \in 1..Len(frames') : frames'[k] = log[streamId' + k]
      BY <1>0, <2>1, <2>2, ReadsFrameCounts
    <3>2. Covered(streamId')
      <4>1. streamId' - 1 = streamId
        BY <1>0, <3>1
      <4> QED
        BY <1>0, <1>1, <3>1, <4>1, CoveredGrows
    <3>3. AcksInv' /\ pc' = "select"
      <4>1. streamId' \in Nat /\ UNCHANGED <<log, posted>>
        BY <1>0, <2>1, <3>1 DEF store
      <4> QED
        BY <1>0, <2>2, <3>2, <4>1, WriteAckKeeps
    <3>4. KnownPosted' /\ NoLoss' /\ Covered(streamId)'
      BY <1>0, <2>1, <3>2 DEF KnownPosted, NoLoss, Covered, Posted, store, server, mail
    <3>5. CountInv'
      BY <2>1, <2>2, <3>1, <3>3, <3>4 DEF CountInv, Reading
    <3> QED
      BY <3>3, <3>4, <3>5 DEF LossInv
  <2>3. CASE WriteFails
    <3>1. pc' = "connecting" /\ line' = FALSE /\ UNCHANGED acks
      BY <2>3 DEF WriteFails, HangsUp
    <3>2. CountInv'
      BY <3>1 DEF CountInv, Reading
    <3> QED
      BY <1>5, <2>1, <3>1, <3>2 DEF LossInv
  <2> QED
    BY <1>7, <2>2, <2>3 DEF ReceivePing
<1>8. CASE ReceiveOther
  <2>1. /\ ReadsFrame /\ Head(frames) = Login /\ pc = "select"
        /\ UNCHANGED <<pc, ids, msg, store, server, line, log, acks>>
    BY <1>8 DEF ReceiveOther, ReadsFrame
  <2>2. /\ streamId' = streamId + 1 /\ streamId' <= Len(log) /\ log[streamId'] = Login
        /\ Covered(streamId' - 1) /\ streamId' + Len(frames') <= Len(log)
        /\ line => streamId' + Len(frames') = Len(log)
        /\ \A k \in 1..Len(frames') : frames'[k] = log[streamId' + k]
    BY <1>0, <2>1, ReadsFrameCounts
  <2>3. Covered(streamId')
    <3>1. streamId' - 1 = streamId
      BY <1>0, <2>2
    <3> QED
      BY <1>0, <1>1, <2>2, <3>1, CoveredGrows
  <2>4. KnownPosted' /\ AcksInv' /\ NoLoss' /\ \A n : Covered(n) => Covered(n)'
    BY <1>5, <2>1
  <2>5. CountInv'
    BY <2>1, <2>2, <2>3, <2>4 DEF CountInv, Reading
  <2> QED
    BY <2>4, <2>5 DEF LossInv
<1>9. CASE ReceiveUndecodable \/ StreamEnds
  <2>1. /\ UNCHANGED <<ids, store, server, log, acks>>
        /\ pc' = "connecting" /\ line' = FALSE
    BY <1>9 DEF ReceiveUndecodable, StreamEnds, HangsUp
  <2>2. CountInv'
    BY <2>1 DEF CountInv, Reading
  <2> QED
    BY <1>5, <2>1, <2>2 DEF LossInv
<1>10. CASE Persist
  <2>1. pc = "handling" /\ UNCHANGED <<ids, server, log, acks>>
    BY <1>10 DEF Persist
  <2>2. CASE EnqueueFcmMessage(msg) /\ pc' = "stored" /\ UNCHANGED <<msg, streamId, line, frames>>
    <3>1. msg \in Messages
      BY <2>1 DEF TypeInv
    <3>2. (\A x : Posted(x) => Posted(x)') /\ Posted(msg)' /\ KnownPosted'
      BY <1>0, <2>1, <2>2, <3>1, EnqueuePosts
    <3>3. AcksInv' /\ NoLoss'
      BY <1>0, <2>1, <3>2, CoveredKeeps DEF AcksInv, NoLoss, server, mail
    <3>4. Covered(streamId)'
      <4>1. streamId > 0 /\ Covered(streamId - 1) /\ msg = log[streamId] /\ streamId <= Len(log)
        BY <1>0, <2>1 DEF CountInv, Reading
      <4>2. \A k \in 1..streamId : k \in 1..(streamId - 1) \/ k = streamId
        BY <1>0
      <4>3. ASSUME NEW k \in 1..streamId, log[k] \in Messages PROVE Posted(log[k])'
        <5>1. CASE k \in 1..(streamId - 1)
          <6>1. Posted(log[k])
            BY <4>1, <4>3, <5>1 DEF Covered
          <6> QED
            BY <2>1, <3>2, <6>1 DEF Posted
        <5>2. CASE k = streamId
          BY <2>1, <2>2, <3>2, <4>1, <5>2 DEF Posted
        <5> QED
          BY <4>2, <5>1, <5>2
      <4> QED
        BY <2>1, <2>2, <4>1, <4>3 DEF Covered
    <3>5. CountInv'
      BY <1>0, <2>1, <2>2, <3>2, <3>4 DEF CountInv, Reading
    <3> QED
      BY <3>2, <3>3, <3>5 DEF LossInv
  <2>3. CASE pc' = "connecting" /\ line' = FALSE /\ UNCHANGED store
    <3>1. CountInv'
      BY <2>3 DEF CountInv, Reading
    <3> QED
      BY <1>5, <2>1, <2>3, <3>1 DEF LossInv
  <2> QED
    BY <1>10, <2>2, <2>3 DEF Persist, HangsUp
<1>11. CASE Acknowledge
  <2>1. pc = "stored" /\ UNCHANGED <<store, server, log>>
    BY <1>11 DEF Acknowledge
  <2>2. Posted(msg) /\ Covered(streamId) /\ msg \in Messages
    BY <1>0, <2>1 DEF CountInv, TypeInv
  <2>3. Elements(ids') \subseteq Elements(ids) \cup {msg}
    <3>1. ids \in Seq(Messages) /\ MAX_ACK_HISTORY \in Nat
      BY <1>0, HistoryAssumption DEF TypeOK, MAX_ACK_HISTORY
    <3>2. Append(ids, msg) \in Seq(Messages) /\ Elements(Append(ids, msg)) = Elements(ids) \cup {msg}
      BY <2>2, <3>1, AppendType
    <3>3. Elements(Newest(Append(ids, msg), MAX_ACK_HISTORY)) \subseteq Elements(ids) \cup {msg}
      BY <3>1, <3>2, NewestType
    <3> QED
      BY <1>11, <3>3 DEF Acknowledge
  <2>4. KnownPosted'
    BY <1>0, <2>1, <2>2, <2>3 DEF KnownPosted, Posted, store
  <2>5. NoLoss' /\ \A n : Covered(n) => Covered(n)'
    BY <1>0, <2>1 DEF NoLoss, Covered, Posted, store, server, mail
  <2>6. CASE WriteAck(streamId) /\ UNCHANGED <<streamId, line, frames>>
    <3>1. AcksInv' /\ pc' = "select"
      <4>1. UNCHANGED <<log, posted>>
        BY <2>1 DEF store
      <4> QED
        BY <1>0, <2>2, <2>6, <4>1, WriteAckKeeps
    <3>2. Covered(streamId)'
      BY <2>2, <2>5, <2>6
    <3>3. CountInv'
      BY <1>0, <2>1, <2>6, <3>1, <3>2 DEF CountInv, Reading
    <3> QED
      BY <2>4, <2>5, <3>1, <3>3 DEF LossInv
  <2>7. CASE WriteFails
    <3>1. pc' = "connecting" /\ line' = FALSE /\ UNCHANGED acks
      BY <2>7 DEF WriteFails, HangsUp
    <3>2. CountInv'
      BY <3>1 DEF CountInv, Reading
    <3>3. AcksInv'
      BY <1>0, <2>5, <3>1 DEF AcksInv
    <3> QED
      BY <2>4, <2>5, <3>2, <3>3 DEF LossInv
  <2> QED
    BY <1>11, <2>6, <2>7 DEF Acknowledge
<1> QED
  BY <1>2, <1>3, <1>4, <1>6, <1>7, <1>8, <1>9, <1>10, <1>11 DEF Task

(* Steps of the manager.                                                          *)
LEMMA ManagerLossless ==
  ASSUME TypeInv, LossInv, Manager
  PROVE  LossInv'
<1>0. TypeOK /\ KnownPosted /\ CountInv /\ AcksInv /\ NoLoss
  BY DEF TypeInv, LossInv
<1>1. ASSUME UNCHANGED <<posted, server, log, acks>>
      PROVE  AcksInv' /\ NoLoss'
  BY <1>0, <1>1 DEF AcksInv, NoLoss, Covered, Posted, server, mail
<1>2. ASSUME line' = FALSE, pc' = "stopped" PROVE CountInv'
  BY <1>2 DEF CountInv, Reading
<1>3. CASE Reconfigure \/ Unlisten \/ StopPruned
  <2>1. /\ ids' = <<>> /\ line' = FALSE /\ pc' = "stopped"
        /\ UNCHANGED <<store, server, log, acks>>
    BY <1>3 DEF Reconfigure, Unlisten, StopPruned, StopTask, TaskGone, HangsUp
  <2>2. KnownPosted'
    <3>1. Elements(ids') = {}
      BY <2>1 DEF Elements
    <3> QED
      BY <1>0, <2>1, <3>1 DEF KnownPosted, Posted, store
  <2>3. UNCHANGED posted
    BY <2>1 DEF store
  <2> QED
    BY <1>1, <1>2, <2>1, <2>2, <2>3 DEF LossInv
<1>4. CASE Crash
  <2>1. /\ ids' = <<>> /\ line' = FALSE /\ pc' = "stopped"
        /\ UNCHANGED <<server, log, acks>>
    BY <1>4 DEF Crash, TaskGone, HangsUp
  <2>2. KnownPosted' /\ UNCHANGED posted
    <3>1. Elements(ids') \subseteq Elements(ids)
      BY <2>1 DEF Elements
    <3> QED
      BY <1>0, <1>4, <3>1, DeletePosts DEF Crash
  <2> QED
    BY <1>1, <1>2, <2>1, <2>2 DEF LossInv
<1>5. CASE DeleteRegistration \/ PruneStale
  <2>1. UNCHANGED <<task, server, connection>>
    BY <1>5 DEF DeleteRegistration, PruneStale
  <2>2. KnownPosted' /\ UNCHANGED posted
    <3>1. Elements(ids') \subseteq Elements(ids)
      BY <2>1 DEF Elements, task
    <3> QED
      BY <1>0, <1>5, <3>1, DeletePosts DEF DeleteRegistration, PruneStale
  <2>3. CountInv'
    BY <1>0, <2>1, <2>2 DEF CountInv, Reading, Covered, Posted, task, connection
  <2> QED
    BY <1>1, <2>1, <2>2, <2>3 DEF LossInv, connection
<1>6. CASE SaveSession \/ StartFails
  <2>1. /\ pc = "starting" /\ pc' \in {"seeding", "stopped"}
        /\ UNCHANGED <<ids, store, server, connection>>
    BY <1>6 DEF SaveSession, StartFails
  <2>2. KnownPosted' /\ UNCHANGED posted
    BY <1>0, <2>1 DEF KnownPosted, Posted, store
  <2>3. CountInv'
    BY <1>0, <2>1 DEF CountInv, Reading, connection
  <2> QED
    BY <1>1, <2>1, <2>2, <2>3 DEF LossInv, connection
<1>7. CASE StartListener
  <2>1. /\ pc = "stopped" /\ pc' = "starting"
        /\ UNCHANGED <<ids, store, mail, connection>>
        /\ backlog' \cup orphaned' = backlog \cup orphaned
    BY <1>7 DEF StartListener
  <2>2. KnownPosted'
    BY <1>0, <2>1 DEF KnownPosted, Posted, store
  <2>3. CountInv'
    BY <1>0, <2>1 DEF CountInv, Reading, connection
  <2>4. AcksInv' /\ NoLoss'
    BY <1>0, <2>1 DEF AcksInv, NoLoss, Covered, Posted, store, mail, connection
  <2> QED
    BY <2>2, <2>3, <2>4 DEF LossInv
<1>8. ASSUME NEW m \in stragglers, Straggle(m) PROVE LossInv'
  <2>1. EnqueueFcmMessage(m) /\ m \in Messages /\ UNCHANGED <<task, server, connection>>
    BY <1>0, <1>8 DEF Straggle, TypeOK
  <2>2. (\A x : Posted(x) => Posted(x)') /\ KnownPosted'
    BY <1>0, <2>1, EnqueuePosts DEF task
  <2>3. AcksInv' /\ NoLoss'
    BY <1>0, <2>1, <2>2, CoveredKeeps DEF AcksInv, NoLoss, server, mail, connection
  <2>4. \A n : Covered(n) => Covered(n)'
    BY <2>1, <2>2, CoveredKeeps DEF connection
  <2>5. CountInv'
    BY <1>0, <2>1, <2>2, <2>4 DEF CountInv, Reading, task, connection
  <2> QED
    BY <2>2, <2>3, <2>5 DEF LossInv
<1> QED
  BY <1>3, <1>4, <1>5, <1>6, <1>7, <1>8 DEF Manager

(* Steps of the server and of the outbox.                                         *)
LEMMA OthersLossless ==
  ASSUME TypeInv, LossInv, McsServer \/ \E m \in outbox : RowLeaves(m)
  PROVE  LossInv'
<1>0. /\ TypeOK /\ KnownPosted /\ CountInv /\ AcksInv /\ NoLoss
      /\ streamId \in Nat /\ log \in Seq(Frame) /\ frames \in Seq(Frame) /\ acks \in Seq(Nat)
      /\ accepted \in 0..MaxMessage
  BY DEF TypeInv, LossInv, TypeOK
<1>5. CASE Accept
  <2>1. /\ accepted' = accepted + 1 /\ backlog' = backlog \cup {accepted + 1}
        /\ UNCHANGED <<task, store, orphaned, connection>>
    BY <1>5 DEF Accept
  <2>2. NoLoss'
    <3> SUFFICES ASSUME NEW m \in 1..accepted' PROVE m \in backlog' \cup orphaned' \/ Posted(m)'
      BY DEF NoLoss
    <3>1. m \in 1..accepted \/ m = accepted + 1
      BY <1>0, <2>1
    <3> QED
      BY <1>0, <2>1, <3>1 DEF NoLoss, Posted, store
  <2>3. KnownPosted' /\ CountInv' /\ AcksInv'
    BY <1>0, <2>1 DEF KnownPosted, CountInv, Reading, AcksInv, Covered, Posted, task, store, connection
  <2> QED
    BY <2>2, <2>3 DEF LossInv
<1>6. ASSUME NEW frame \in Frame, ServerSends(frame) PROVE LossInv'
  <2>1. /\ line /\ log' = Append(log, frame) /\ frames' = Append(frames, frame)
        /\ UNCHANGED <<task, store, server, line, acks>>
    BY <1>6 DEF ServerSends
  <2>2. /\ Len(log') = Len(log) + 1 /\ Len(frames') = Len(frames) + 1
        /\ \A k \in 1..Len(log) : log'[k] = log[k]
        /\ \A k \in 1..Len(frames) : frames'[k] = frames[k]
        /\ log'[Len(log) + 1] = frame /\ frames'[Len(frames) + 1] = frame
    BY <1>0, <2>1, AppendType
  <2>3. ASSUME NEW n \in Nat, Covered(n) PROVE Covered(n)'
    BY <1>0, <2>1, <2>2, <2>3 DEF Covered, Posted, store
  <2>4. KnownPosted' /\ NoLoss'
    BY <1>0, <2>1 DEF KnownPosted, NoLoss, Posted, task, store, server, mail
  <2>5. AcksInv'
    BY <1>0, <2>1, <2>3 DEF AcksInv
  <2>6. CountInv'
    <3>1. Reading /\ streamId + Len(frames) = Len(log)
      BY <1>0, <2>1 DEF CountInv
    <3>2. \A k \in 1..Len(frames') : frames'[k] = log'[streamId + k]
      <4> SUFFICES ASSUME NEW k \in 1..Len(frames') PROVE frames'[k] = log'[streamId + k]
        OBVIOUS
      <4>1. CASE k \in 1..Len(frames)
        <5>1. frames[k] = log[streamId + k] /\ streamId + k \in 1..Len(log)
          BY <1>0, <3>1, <4>1 DEF CountInv
        <5> QED
          BY <2>2, <4>1, <5>1
      <4>2. CASE k = Len(frames) + 1
        <5>1. streamId + k = Len(log) + 1
          BY <1>0, <3>1, <4>2
        <5> QED
          BY <2>2, <4>2, <5>1
      <4> QED
        BY <1>0, <2>2, <4>1, <4>2
    <3>3. pc = "handling" => streamId - 1 \in Nat /\ streamId \in 1..Len(log)
      BY <1>0, <3>1 DEF CountInv
    <3>4. UNCHANGED <<pc, msg, streamId, line>> /\ \A x : Posted(x) <=> Posted(x)'
      BY <2>1 DEF Posted, task, store
    <3>5. /\ pc \in {"select", "stored"} => Covered(streamId)'
          /\ pc = "handling" => /\ streamId > 0 /\ Covered(streamId - 1)'
                                /\ msg = log'[streamId]
      BY <1>0, <2>2, <2>3, <3>3, <3>4 DEF CountInv, Covered
    <3>6. streamId + Len(frames') = Len(log')
      BY <1>0, <2>2, <3>1
    <3>7. pc = "stored" => Posted(msg)
      BY <1>0 DEF CountInv
    <3> QED
      BY <3>1, <3>2, <3>4, <3>5, <3>6, <3>7 DEF CountInv, Reading
  <2> QED
    BY <2>4, <2>5, <2>6 DEF LossInv
<1>7. CASE SendMessage
  <2>1. PICK m \in backlog : ServerSends(m)
    BY <1>7 DEF SendMessage
  <2>2. m \in Frame
    BY <1>0, MessagesAssumption DEF TypeOK, Frame, Messages
  <2> QED
    BY <1>6, <2>1, <2>2
<1>8. CASE SendPing
  BY <1>6, <1>8 DEF SendPing, Frame
<1>9. CASE ReadAck
  <2>1. /\ acks # <<>> /\ acks' = Tail(acks) /\ backlog' = backlog \ {log[k] : k \in 1..Head(acks)}
        /\ UNCHANGED <<task, store, accepted, orphaned, line, log, frames>>
    BY <1>9 DEF ReadAck, mail
  <2>2. /\ Head(acks) = acks[1] /\ Len(acks) > 0 /\ Len(acks') = Len(acks) - 1
        /\ \A k \in 1..(Len(acks) - 1) : acks'[k] = acks[k + 1]
    BY <1>0, <2>1, TailType
  <2>3. Covered(Head(acks))
    BY <1>0, <2>2 DEF AcksInv
  <2>4. NoLoss'
    <3> SUFFICES ASSUME NEW m \in 1..accepted PROVE m \in backlog' \cup orphaned \/ Posted(m)
      BY <2>1 DEF NoLoss, Posted, store
    <3>1. m \in Messages
      BY <1>0, MessagesAssumption DEF Messages
    <3> QED
      BY <1>0, <2>1, <2>3, <3>1 DEF NoLoss, Covered
  <2>5. AcksInv'
    <3> SUFFICES ASSUME NEW k \in 1..Len(acks') PROVE Covered(acks[k])'
      BY DEF AcksInv
    <3>1. k + 1 \in 1..Len(acks) /\ acks'[k] = acks[k + 1]
      BY <1>0, <2>2
    <3> QED
      BY <1>0, <2>1, <3>1 DEF AcksInv, Covered, Posted, store
  <2>6. KnownPosted'
    BY <1>0, <2>1 DEF KnownPosted, Posted, task, store
  <2>7. CountInv'
    BY <1>0, <2>1 DEF CountInv, Reading, Covered, Posted, task, store
  <2> QED
    BY <2>4, <2>5, <2>6, <2>7 DEF LossInv
<1>10. CASE LineBreaks
  <2>1. PICK n \in 0..Len(frames) : frames' = SubSeq(frames, 1, n)
    BY <1>10 DEF LineBreaks
  <2>2. PICK i \in 0..Len(acks) : acks' = SubSeq(acks, 1, i)
    BY <1>10 DEF LineBreaks
  <2>3. line' = FALSE /\ UNCHANGED <<task, store, server, log>>
    BY <1>10 DEF LineBreaks
  <2>4. Len(frames') = n /\ \A k \in 1..n : frames'[k] = frames[k]
    BY <1>0, <2>1, PrefixType
  <2>5. Len(acks') = i /\ \A k \in 1..i : acks'[k] = acks[k]
    BY <1>0, <2>2, PrefixType
  <2>6. KnownPosted' /\ NoLoss' /\ \A x : Covered(x) => Covered(x)'
    BY <1>0, <2>3 DEF KnownPosted, NoLoss, Covered, Posted, task, store, server, mail
  <2>7. AcksInv'
    <3> SUFFICES ASSUME NEW k \in 1..Len(acks') PROVE Covered(acks[k])'
      BY DEF AcksInv
    <3>1. k \in 1..Len(acks) /\ acks'[k] = acks[k]
      BY <1>0, <2>5
    <3> QED
      BY <1>0, <2>6, <3>1 DEF AcksInv
  <2>8. CountInv'
    <3>1. /\ UNCHANGED <<pc, msg, streamId, log>> /\ (Posted(msg) => Posted(msg)')
      BY <2>3 DEF Posted, task, store
    <3>2. Reading => /\ streamId + Len(frames') <= Len(log)
                     /\ \A k \in 1..Len(frames') : frames'[k] = log[streamId + k]
      <4> SUFFICES ASSUME Reading
                   PROVE  /\ streamId + Len(frames') <= Len(log)
                          /\ \A k \in 1..Len(frames') : frames'[k] = log[streamId + k]
        OBVIOUS
      <4>1. /\ streamId + Len(frames) <= Len(log)
            /\ \A k \in 1..Len(frames) : frames[k] = log[streamId + k]
        BY <1>0 DEF CountInv
      <4>2. n \in Nat /\ n <= Len(frames) /\ streamId \in Nat /\ Len(log) \in Nat /\ Len(frames) \in Nat
        BY <1>0
      <4>3. streamId + n <= Len(log)
        BY <4>1, <4>2
      <4>4. ASSUME NEW k \in 1..n PROVE frames'[k] = log[streamId + k]
        <5>1. k \in 1..Len(frames)
          BY <4>2
        <5> QED
          BY <2>4, <4>1, <5>1
      <4> QED
        BY <2>4, <4>3, <4>4
    <3> QED
      BY <1>0, <2>3, <2>6, <3>1, <3>2 DEF CountInv, Reading
  <2> QED
    BY <2>6, <2>7, <2>8 DEF LossInv
<1>11. ASSUME NEW m \in outbox, RowLeaves(m) PROVE LossInv'
  <2>1. outbox' \subseteq outbox /\ UNCHANGED <<task, acked, posted, server, connection>>
    BY <1>11 DEF RowLeaves
  <2>2. KnownPosted' /\ CountInv' /\ AcksInv' /\ NoLoss'
    BY <1>0, <2>1
    DEF KnownPosted, CountInv, Reading, AcksInv, NoLoss, Covered, Posted, task, server, mail, connection
  <2> QED
    BY <2>2 DEF LossInv
<1> QED
  BY <1>5, <1>7, <1>8, <1>9, <1>10, <1>11 DEF McsServer

(* LossInv is inductive, relative to the types.                                   *)
LEMMA LossInvInductive ==
  /\ Init => LossInv
  /\ TypeInv /\ LossInv /\ [Next]_vars => LossInv'
<1>1. Init => LossInv
  <2> SUFFICES ASSUME Init PROVE LossInv
    OBVIOUS
  <2>1. KnownPosted
    BY DEF Init, KnownPosted, Elements
  <2>2. CountInv /\ AcksInv
    BY DEF Init, CountInv, Reading, AcksInv
  <2>3. NoLoss
    BY DEF Init, NoLoss
  <2> QED
    BY <2>1, <2>2, <2>3 DEF LossInv
<1>2. ASSUME TypeInv, LossInv, [Next]_vars PROVE LossInv'
  <2>1. CASE UNCHANGED vars
    <3>1. KnownPosted' /\ CountInv' /\ AcksInv' /\ NoLoss'
      BY <1>2, <2>1
      DEF vars, task, store, server, mail, connection, LossInv, KnownPosted, CountInv, Reading,
          AcksInv, NoLoss, Covered, Posted
    <3> QED
      BY <3>1 DEF LossInv
  <2>2. CASE Next
    BY <1>2, <2>2, TaskLossless, ManagerLossless, OthersLossless DEF Next
  <2> QED
    BY <1>2, <2>1, <2>2
<1> QED
  BY <1>1, <1>2

(* No message that FCM has accepted is lost, for any number of messages, faults   *)
(* and pings and any size of the history.                                         *)
THEOREM NothingLost == Spec => []NoLoss
<1>1. LossInv => NoLoss
  BY DEF LossInv
<1> QED
  BY <1>1, TypeInvInductive, LossInvInductive, PTL DEF Spec

-------------------------------------------------------------------------------
(* The history.                                                                   *)

(* What the task will remember once it has acknowledged the message at hand.      *)
IdsAfterAck ==
  IF IsRedelivery \/ msg \in Anonymous THEN ids ELSE Newest(Append(ids, msg), MAX_ACK_HISTORY)

(* Memory and table agree, but for the message that has been stored and not       *)
(* acknowledged: there the table is one step ahead.                               *)
AgreeInv ==
  /\ HistoryAgrees
  /\ ~degraded /\ pc = "stored" => IdsAfterAck = acked

(* A step that touches neither copy of the history, and begins no task.           *)
LEMMA QuietAgreeInv ==
  ASSUME AgreeInv, UNCHANGED <<ids, acked>>, degraded' = degraded,
         pc' \in {"connecting", "select", "handling"} => pc \in {"connecting", "select", "handling"},
         pc' = "stored" => pc = "stored" /\ UNCHANGED msg
  PROVE  AgreeInv'
BY DEF AgreeInv, HistoryAgrees, IdsAfterAck, IsRedelivery

(* AgreeInv is inductive, given the limits in the types.                          *)
LEMMA AgreeInvInductive ==
  /\ Init => AgreeInv
  /\ TypeInv /\ AgreeInv /\ [Next]_vars => AgreeInv'
<1>1. Init => AgreeInv
  BY DEF Init, AgreeInv, HistoryAgrees
<1>2. ASSUME TypeInv, AgreeInv, [Next]_vars PROVE AgreeInv'
  <2>0. TypeOK
    BY <1>2 DEF TypeInv
  <2>1. CASE UNCHANGED vars
    BY <1>2, <2>1, QuietAgreeInv DEF vars, task, store, aborted
  <2>2. CASE Seed
    <3>1. pc' = "connecting" /\ UNCHANGED acked
      BY <2>2 DEF Seed, store
    <3>2. RecentAcks = acked
      <4>1. Len(acked) \in Nat /\ Len(acked) <= H
        BY <2>0 DEF TypeOK, TrimLimit
      <4> QED
        BY <4>1, HistoryAssumption DEF RecentAcks, Newest, MAX_ACK_HISTORY
    <3>3. ~degraded' => ids' = acked'
      BY <2>2, <3>1, <3>2 DEF Seed
    <3> QED
      BY <3>1, <3>3 DEF AgreeInv, HistoryAgrees
  <2>3. CASE Persist
    <3>1. pc = "handling" /\ UNCHANGED <<ids, degraded>>
      BY <2>3 DEF Persist, aborted
    <3>2. CASE pc' = "connecting" /\ UNCHANGED store
      BY <1>2, <3>1, <3>2, QuietAgreeInv DEF store
    <3>3. CASE pc' = "stored" /\ EnqueueFcmMessage(msg) /\ UNCHANGED msg
      <4>1. ~degraded => ids = acked
        BY <1>2, <3>1 DEF AgreeInv, HistoryAgrees
      <4>2. acked' = IF msg \in Anonymous \cup Elements(acked) THEN acked
                     ELSE Newest(Append(acked, msg), TrimLimit)
        BY <3>3 DEF EnqueueFcmMessage
      <4>3. ~degraded => IdsAfterAck = acked'
        BY <4>1, <4>2 DEF IdsAfterAck, IsRedelivery, MAX_ACK_HISTORY, TrimLimit
      <4>4. IdsAfterAck' = IdsAfterAck
        BY <3>1, <3>3 DEF IdsAfterAck, IsRedelivery
      <4> QED
        BY <3>1, <3>3, <4>3, <4>4 DEF AgreeInv, HistoryAgrees
    <3> QED
      BY <2>3, <3>2, <3>3 DEF Persist
  <2>4. CASE Acknowledge
    <3>1. pc = "stored" /\ ids' = IdsAfterAck /\ UNCHANGED <<acked, degraded>>
      BY <2>4 DEF Acknowledge, IdsAfterAck, store, aborted
    <3>2. pc' # "stored"
      BY <2>4 DEF Acknowledge, WriteAck, WriteFails
    <3> QED
      BY <1>2, <3>1, <3>2 DEF AgreeInv, HistoryAgrees
  <2>5. ASSUME NEW m \in stragglers, Straggle(m) PROVE AgreeInv'
    BY <2>5 DEF Straggle, AgreeInv, HistoryAgrees
  <2>6. CASE Connect \/ ConnectFails \/ ReceiveOther \/ ReceivePing \/ ReceiveData
             \/ ReceiveUndecodable \/ StreamEnds
    <3>1. UNCHANGED <<ids, acked, degraded>> /\ pc \in {"connecting", "select"} /\ pc' # "stored"
      BY <2>6 DEF Connect, ConnectFails, ReceiveOther, ReceivePing, ReceiveData,
                  ReceiveUndecodable, StreamEnds, ReadsFrame, WriteAck, WriteFails, task, store,
                  aborted
    <3> QED
      BY <1>2, <3>1, QuietAgreeInv
  <2>7. CASE Reconfigure \/ Unlisten \/ StopPruned \/ StartListener \/ SaveSession \/ StartFails
             \/ Crash
    <3>1. pc' \in {"stopped", "starting", "seeding"}
      BY <2>7 DEF Reconfigure, Unlisten, StopPruned, StopTask, StartListener, SaveSession,
                  StartFails, Crash
    <3> QED
      BY <3>1 DEF AgreeInv, HistoryAgrees
  <2>9. CASE DeleteRegistration \/ PruneStale
    <3>1. UNCHANGED <<pc, ids, msg>> /\ \E n \in 0..3 : DeleteRows(n)
      BY <2>9 DEF DeleteRegistration, PruneStale, task
    <3>2. UNCHANGED <<acked, degraded>> \/ degraded' = TRUE
      BY <3>1 DEF DeleteRows
    <3>3. CASE UNCHANGED <<acked, degraded>>
      BY <1>2, <3>1, <3>3, QuietAgreeInv
    <3>4. CASE degraded' = TRUE
      BY <3>4 DEF AgreeInv, HistoryAgrees
    <3> QED
      BY <3>2, <3>3, <3>4
  <2>8. CASE McsServer \/ \E m \in outbox : RowLeaves(m)
    <3>1. UNCHANGED <<pc, ids, msg, acked, degraded>>
      BY <2>8 DEF McsServer, Accept, SendMessage, SendPing, ServerSends, ReadAck, LineBreaks,
                  RowLeaves, task, store, aborted
    <3> QED
      BY <1>2, <3>1, QuietAgreeInv
  <2> QED
    BY <1>2, <2>1, <2>2, <2>3, <2>4, <2>5, <2>6, <2>7, <2>8, <2>9 DEF Next, Task, Manager
<1> QED
  BY <1>1, <1>2

(* Wherever the task may connect, it names in its login exactly the ids the table *)
(* acked_messages holds, in the order in which both evict them, for any size of   *)
(* the history: as long as no straggler writes behind its back, and no unregister *)
(* or prune deletes before it stops the task, or after another was started.       *)
THEOREM HistoriesAgree == Spec => []HistoryAgrees
<1>1. AgreeInv => HistoryAgrees
  BY DEF AgreeInv
<1> QED
  BY <1>1, TypeInvInductive, AgreeInvInductive, PTL DEF Spec

(* The table holds the last ids it was given since it was empty, H of them once   *)
(* there are as many, and each row inserted since then knows the place its own id *)
(* was given.                                                                     *)
FullInv ==
  \/ Len(acked) = recorded /\ recorded <= H
  \/ Len(acked) = H /\ H < recorded

PlaceOf(row) == row.at + 1 - recorded + Len(acked)

HasPlace(row) ==
  /\ row.at < recorded
  /\ PlaceOf(row) > 0 => acked[PlaceOf(row)] = row.msg

Recorded(row) == row.msg \notin Anonymous /\ row.era = era

EraInv == \A j \in 1..Len(posted) : posted[j].era <= era

PlaceInv == \A j \in 1..Len(posted) : Recorded(posted[j]) => HasPlace(posted[j])

OnceInv == FullInv /\ EraInv /\ PlaceInv /\ OnceWithinHistory

(* What a sequence holds.                                                         *)
LEMMA ElementType ==
  ASSUME NEW S, NEW s \in Seq(S)
  PROVE  \A k \in 1..Len(s) : s[k] \in S
OBVIOUS

(* A transaction that stores a message again finds that its id has left the       *)
(* table.                                                                         *)
LEMMA EnqueueOnce ==
  ASSUME TypeOK, OnceInv, NEW m \in Messages, EnqueueFcmMessage(m)
  PROVE  OnceInv'
<1> DEFINE row == [msg |-> m, at |-> recorded, era |-> era]
<1> DEFINE Rows == [msg: Messages, at: Nat, era: Nat]
<1>0. /\ posted \in Seq(Rows) /\ acked \in Seq(Messages) /\ recorded \in Nat /\ H \in Nat \ {0}
      /\ era \in Nat
  BY HistoryAssumption DEF TypeOK
<1>1. /\ posted \in Seq(Rows) /\ acked \in Seq(Messages) /\ recorded \in Nat /\ H \in Nat \ {0}
      /\ Len(acked) \in Nat /\ Len(posted) \in Nat
      /\ \A j \in 1..Len(posted) : posted[j] \in Rows
      /\ row \in Rows /\ row.msg = m /\ row.at = recorded /\ row.era = era
      /\ era \in Nat /\ era' = era
  <2>1. \A j \in 1..Len(posted) : posted[j] \in Rows
    BY <1>0, ElementType
  <2>2. row \in Rows /\ row.msg = m /\ row.at = recorded /\ row.era = era
    BY <1>0
  <2>3. Len(acked) \in Nat /\ Len(posted) \in Nat
    BY <1>0
  <2>4. era' = era
    BY DEF EnqueueFcmMessage
  <2> QED
    BY <1>0, <2>1, <2>2, <2>3, <2>4
<1> HIDE DEF row
<1>4. EraInv'
  <2>1. CASE UNCHANGED posted
    BY <1>1, <2>1 DEF OnceInv, EraInv
  <2>2. CASE posted' = Append(posted, row)
    <3>1. /\ Len(posted') = Len(posted) + 1 /\ posted'[Len(posted) + 1] = row
          /\ \A j \in 1..Len(posted) : posted'[j] = posted[j]
      BY <1>1, <2>2, AppendType
    <3> SUFFICES ASSUME NEW j \in 1..Len(posted') PROVE posted'[j].era <= era'
      BY DEF EraInv
    <3>2. j \in 1..Len(posted) \/ j = Len(posted) + 1
      BY <1>1, <3>1
    <3> QED
      BY <1>1, <3>1, <3>2 DEF OnceInv, EraInv
  <2> QED
    BY <2>1, <2>2 DEF EnqueueFcmMessage, row
<1>2. CASE m \in Anonymous \cup Elements(acked)
  <2>1. UNCHANGED <<acked, recorded>>
    BY <1>2 DEF EnqueueFcmMessage
  <2>2. CASE UNCHANGED posted
    BY <1>1, <1>4, <2>1, <2>2
    DEF OnceInv, FullInv, PlaceInv, Recorded, HasPlace, PlaceOf, OnceWithinHistory
  <2>3. CASE m \in Anonymous /\ posted' = Append(posted, row)
    <3>1. /\ Len(posted') = Len(posted) + 1 /\ posted'[Len(posted) + 1] = row
          /\ \A j \in 1..Len(posted) : posted'[j] = posted[j]
      BY <1>1, <2>3, AppendType
    <3>2. \A j \in 1..Len(posted') : posted'[j].msg \notin Anonymous => j \in 1..Len(posted)
      BY <1>1, <2>3, <3>1
    <3>3. FullInv'
      BY <2>1 DEF OnceInv, FullInv
    <3>4. PlaceInv'
      BY <1>1, <2>1, <3>1, <3>2 DEF OnceInv, PlaceInv, Recorded, HasPlace, PlaceOf
    <3>5. OnceWithinHistory'
      <4>1. DOMAIN posted' = 1..Len(posted') /\ DOMAIN posted = 1..Len(posted)
        BY <1>1, <2>3
      <4> QED
        BY <3>1, <3>2, <4>1 DEF OnceInv, OnceWithinHistory, SameStoring
    <3> QED
      BY <1>4, <3>3, <3>4, <3>5 DEF OnceInv
  <2> QED
    BY <1>2, <2>2, <2>3 DEF EnqueueFcmMessage, WasAcked, row
<1>3. CASE m \notin Anonymous \cup Elements(acked)
  <2> DEFINE a == Append(acked, m)
  <2>1. acked' = Newest(a, H) /\ recorded' = recorded + 1
    BY <1>3 DEF EnqueueFcmMessage, TrimLimit
  <2>2. /\ a \in Seq(Messages) /\ Len(a) = Len(acked) + 1 /\ a[Len(acked) + 1] = m
        /\ \A k \in 1..Len(acked) : a[k] = acked[k]
    BY <1>1, AppendType
  <2> HIDE DEF a
  <2>3. /\ Len(acked') = IF Len(acked) + 1 > H THEN H ELSE Len(acked) + 1
        /\ \A k \in 1..Len(acked') : acked'[k] = a[Len(acked) + 1 - Len(acked') + k]
    <3>1. CASE Len(a) > H
      <4>1. acked' = SubSeq(a, Len(a) - H + 1, Len(a))
        BY <2>1, <3>1 DEF Newest
      <4>2. Len(a) \in Nat /\ Len(a) - H + 1 \in 1..Len(a)
        BY <1>1, <2>2, <3>1
      <4>3. /\ Len(acked') = H
            /\ \A k \in 1..H : acked'[k] = a[Len(a) - H + 1 + k - 1]
        BY <1>1, <2>2, <4>1, <4>2, SubSeqProperties
      <4>4. H \in Nat /\ Len(acked) \in Nat /\ Len(a) = Len(acked) + 1
        BY <1>1, <2>2
      <4>5. Len(acked') = IF Len(acked) + 1 > H THEN H ELSE Len(acked) + 1
        BY <3>1, <4>3, <4>4
      <4>6. ASSUME NEW k \in 1..H PROVE acked'[k] = a[Len(acked) + 1 - Len(acked') + k]
        <5>1. Len(a) - H + 1 + k - 1 = Len(acked) + 1 - Len(acked') + k
          BY <4>3, <4>4
        <5> QED
          BY <4>3, <5>1
      <4> QED
        BY <4>3, <4>5, <4>6
    <3>2. CASE ~(Len(a) > H)
      BY <1>1, <2>1, <2>2, <3>2 DEF Newest
    <3> QED
      BY <3>1, <3>2
  <2>4. FullInv'
    BY <1>1, <2>1, <2>3 DEF OnceInv, FullInv
  <2>5. Len(acked) <= H /\ Len(acked) <= recorded
    BY <1>1 DEF OnceInv, FullInv
  <2> DEFINE place(r) == r.at + 1 - recorded' + Len(acked')
             hasPlace(r) == r.at < recorded' /\ (place(r) > 0 => acked'[place(r)] = r.msg)
  <2>6. ASSUME NEW r \in Rows, HasPlace(r) PROVE hasPlace(r)
    <3> DEFINE p == place(r)
               q == Len(acked) + 1 - Len(acked') + p
    <3>1. r.at \in Nat /\ Len(acked') \in Nat /\ r.at < recorded
      BY <1>1, <2>3, <2>6 DEF HasPlace
    <3>2. q = PlaceOf(r)
      BY <1>1, <2>1, <3>1 DEF PlaceOf
    <3>3. ASSUME p > 0 PROVE acked'[p] = r.msg
      <4>0. /\ recorded' = recorded + 1 /\ recorded \in Nat
            /\ Len(acked) \in Nat /\ Len(acked') \in Nat /\ Len(acked') <= Len(acked) + 1
        BY <1>1, <2>1, <2>3, <2>5, <3>1
      <4>1. p \in 1..Len(acked')
        BY <3>1, <3>3, <4>0
      <4>2. q \in Int /\ q > 0 /\ q <= Len(acked)
        <5>1. q = r.at + 1 - recorded + Len(acked)
          BY <3>1, <4>0
        <5>2. q \in Int /\ q <= Len(acked)
          BY <3>1, <4>0, <5>1
        <5>3. q > 0
          BY <3>1, <3>3, <4>0, <5>1
        <5> QED
          BY <5>2, <5>3
      <4>3. q \in 1..Len(acked)
        BY <4>0, <4>2
      <4>4. acked'[p] = a[q]
        BY <2>3, <4>1
      <4>5. acked[q] = r.msg
        BY <2>6, <3>2, <4>2 DEF HasPlace
      <4> QED
        BY <2>2, <4>3, <4>4, <4>5
    <3>4. r.at < recorded'
      BY <1>1, <2>1, <3>1
    <3> QED
      BY <3>3, <3>4
  <2>7. ASSUME NEW r \in Rows, r.msg = m, HasPlace(r)
        PROVE  recorded - r.at > H
    <3>1. r.at \in Nat /\ r.at < recorded
      BY <2>7 DEF HasPlace
    <3>2. ~(PlaceOf(r) > 0)
      <4>1. PlaceOf(r) \in Int /\ PlaceOf(r) <= Len(acked)
        BY <1>1, <3>1 DEF PlaceOf
      <4>2. \A k \in 1..Len(acked) : acked[k] # m
        BY <1>1, <1>3 DEF Elements
      <4> QED
        BY <1>1, <2>7, <4>1, <4>2 DEF HasPlace
    <3> QED
      BY <1>1, <3>1, <3>2 DEF PlaceOf, OnceInv, FullInv
  <2>8. CASE UNCHANGED posted
    <3>1. PlaceInv'
      <4>1. \A j \in 1..Len(posted) : Recorded(posted[j]) => hasPlace(posted[j])
        BY <1>1, <2>6 DEF OnceInv, PlaceInv
      <4> QED
        BY <1>1, <2>8, <4>1 DEF PlaceInv, Recorded, HasPlace, PlaceOf
    <3> QED
      BY <1>4, <2>4, <2>8, <3>1 DEF OnceInv, OnceWithinHistory
  <2>9. CASE posted' = Append(posted, row)
    <3>1. /\ Len(posted') = Len(posted) + 1 /\ posted'[Len(posted) + 1] = row
          /\ \A j \in 1..Len(posted) : posted'[j] = posted[j]
      BY <1>1, <2>9, AppendType
    <3>2. PlaceInv'
      <4>1. ASSUME NEW j \in 1..Len(posted'), Recorded(posted'[j])
            PROVE  hasPlace(posted'[j])
        <5>1. CASE j \in 1..Len(posted)
          BY <1>1, <2>6, <3>1, <4>1, <5>1 DEF OnceInv, PlaceInv
        <5>2. CASE j = Len(posted) + 1
          <6>1. posted'[j].at = recorded /\ posted'[j].msg = m
            BY <1>1, <3>1, <5>2
          <6>2. Len(acked') \in 1..H /\ acked'[Len(acked')] = m
            <7>1. Len(acked') \in 1..H
              BY <1>1, <2>3
            <7>2. acked'[Len(acked')] = a[Len(acked) + 1]
              <8> DEFINE n == Len(acked')
              <8>1. n \in Nat /\ n \in 1..n /\ Len(acked) + 1 - n + n = Len(acked) + 1
                BY <1>1, <7>1
              <8>2. \A k \in 1..n : acked'[k] = a[Len(acked) + 1 - n + k]
                BY <2>3
              <8> HIDE DEF n
              <8>3. acked'[n] = a[Len(acked) + 1 - n + n]
                BY <8>1, <8>2
              <8> QED
                BY <8>1, <8>3 DEF n
            <7> QED
              BY <2>2, <7>1, <7>2
          <6>3. place(posted'[j]) = Len(acked')
            BY <1>1, <2>1, <6>1, <6>2
          <6>4. recorded < recorded'
            BY <1>1, <2>1
          <6> QED
            BY <6>1, <6>2, <6>3, <6>4
        <5>3. j \in 1..Len(posted) \/ j = Len(posted) + 1
          <6>1. Len(posted) \in Nat
            BY <1>1
          <6> QED
            BY <3>1, <6>1
        <5> QED
          BY <5>1, <5>2, <5>3
      <4> QED
        BY <1>1, <4>1 DEF PlaceInv, Recorded, HasPlace, PlaceOf
    <3>3. OnceWithinHistory'
      <4>1. ASSUME NEW j \in 1..Len(posted'), NEW k \in 1..Len(posted'), j < k,
                   SameStoring(posted'[j], posted'[k])
            PROVE  posted'[k].at - posted'[j].at > H
        <5>1. j \in 1..Len(posted)
          BY <1>1, <3>1, <4>1
        <5>2. CASE k \in 1..Len(posted)
          <6>1. DOMAIN posted = 1..Len(posted)
            BY <1>1
          <6> QED
            BY <3>1, <4>1, <5>1, <5>2, <6>1 DEF OnceInv, OnceWithinHistory
        <5>3. CASE k = Len(posted) + 1
          <6>1. posted'[k].at = recorded /\ posted'[k].msg = m /\ posted'[k].era = era
            BY <1>1, <3>1, <5>3
          <6>2. posted[j] \in Rows /\ posted[j] = posted'[j]
            BY <1>1, <3>1, <5>1
          <6>3. recorded - posted[j].at > H
            <7>1. posted[j].msg = m /\ Recorded(posted[j])
              BY <4>1, <6>1, <6>2 DEF SameStoring, Recorded
            <7> QED
              BY <2>7, <5>1, <6>2, <7>1 DEF OnceInv, PlaceInv
          <6>4. posted'[k].at - posted'[j].at = recorded - posted[j].at
            BY <6>1, <6>2
          <6> QED
            BY <6>3, <6>4
        <5>4. k \in 1..Len(posted) \/ k = Len(posted) + 1
          <6>1. Len(posted) \in Nat
            BY <1>1
          <6> QED
            BY <3>1, <6>1
        <5> QED
          BY <5>2, <5>3, <5>4
      <4>2. DOMAIN posted' = 1..Len(posted')
        BY <1>1, <2>9
      <4> QED
        BY <4>1, <4>2 DEF OnceWithinHistory
    <3> QED
      BY <1>4, <2>4, <3>2, <3>3 DEF OnceInv
  <2> QED
    BY <2>8, <2>9 DEF EnqueueFcmMessage, row
<1> QED
  BY <1>2, <1>3

(* Deletes empty the table, and begin a new era.                                  *)
LEMMA DeleteOnce ==
  ASSUME TypeOK, OnceInv, NEW n, DeleteRows(n)
  PROVE  OnceInv'
<1>1. /\ posted \in Seq([msg: Messages, at: Nat, era: Nat]) /\ era \in Nat /\ H \in Nat \ {0}
      /\ Len(posted) \in Nat
  BY HistoryAssumption DEF TypeOK
<1>2. /\ UNCHANGED posted
      /\ \/ UNCHANGED <<acked, recorded, era>>
         \/ acked' = <<>> /\ recorded' = 0 /\ era' = era + 1
  <2>1. CASE n < 2
    BY <2>1 DEF DeleteRows
  <2>2. CASE ~(n < 2)
    BY <2>2 DEF DeleteRows
  <2> QED
    BY <2>1, <2>2
<1>3. CASE UNCHANGED <<acked, recorded, era>>
  BY <1>2, <1>3
  DEF OnceInv, FullInv, EraInv, PlaceInv, Recorded, HasPlace, PlaceOf, OnceWithinHistory
<1>4. CASE acked' = <<>> /\ recorded' = 0 /\ era' = era + 1
  <2>1. FullInv'
    BY <1>1, <1>4 DEF FullInv
  <2>2. \A j \in 1..Len(posted) : posted[j].era \in Nat /\ posted[j].era <= era
    <3>1. \A j \in 1..Len(posted) : posted[j] \in [msg: Messages, at: Nat, era: Nat]
      BY <1>1, ElementType
    <3> QED
      BY <3>1 DEF OnceInv, EraInv
  <2>3. EraInv'
    BY <1>1, <1>2, <1>4, <2>2 DEF EraInv
  <2>4. PlaceInv'
    BY <1>1, <1>2, <1>4, <2>2 DEF PlaceInv, Recorded
  <2>5. OnceWithinHistory'
    BY <1>2 DEF OnceInv, OnceWithinHistory
  <2> QED
    BY <2>1, <2>3, <2>4, <2>5 DEF OnceInv
<1> QED
  BY <1>2, <1>3, <1>4

(* OnceInv is inductive: only the transaction and the deletes write the history.  *)
LEMMA OnceInvInductive ==
  /\ Init => OnceInv
  /\ TypeInv /\ OnceInv /\ [Next]_vars => OnceInv'
<1>1. Init => OnceInv
  BY HistoryAssumption DEF Init, OnceInv, FullInv, EraInv, PlaceInv, OnceWithinHistory
<1>2. ASSUME TypeInv, OnceInv, [Next]_vars PROVE OnceInv'
  <2>0. TypeOK
    BY <1>2 DEF TypeInv
  <2>1. ASSUME UNCHANGED <<acked, recorded, era, posted>> PROVE OnceInv'
    BY <1>2, <2>1
    DEF OnceInv, FullInv, EraInv, PlaceInv, Recorded, HasPlace, PlaceOf, OnceWithinHistory
  <2>2. CASE UNCHANGED vars
    BY <2>1, <2>2 DEF vars, store
  <2>3. CASE Persist
    <3>1. msg \in Messages
      BY <1>2, <2>3 DEF Persist, TypeInv
    <3> QED
      BY <1>2, <2>0, <2>1, <2>3, <3>1, EnqueueOnce DEF Persist, store
  <2>4. ASSUME NEW m \in stragglers, Straggle(m) PROVE OnceInv'
    <3>1. m \in Messages
      BY <2>0 DEF TypeOK
    <3> QED
      BY <1>2, <2>0, <2>4, <3>1, EnqueueOnce DEF Straggle
  <2>5. CASE Seed \/ Connect \/ ConnectFails \/ ReceiveData \/ ReceivePing \/ ReceiveOther
             \/ ReceiveUndecodable \/ StreamEnds \/ Acknowledge
    BY <2>1, <2>5 DEF Seed, Connect, ConnectFails, ReceiveData, ReceivePing, ReceiveOther,
                      ReceiveUndecodable, StreamEnds, Acknowledge, store
  <2>6. CASE Reconfigure \/ Unlisten \/ StopPruned \/ StartListener \/ SaveSession \/ StartFails
    BY <2>1, <2>6
    DEF Reconfigure, Unlisten, StopPruned, StartListener, SaveSession, StartFails, store
  <2>7. CASE McsServer \/ \E m \in outbox : RowLeaves(m)
    BY <2>1, <2>7 DEF McsServer, Accept, SendMessage, SendPing, ServerSends, ReadAck, LineBreaks,
                      RowLeaves, store
  <2>8. CASE DeleteRegistration \/ PruneStale \/ Crash
    <3>1. PICK n \in 0..3 : DeleteRows(n)
      BY <2>8 DEF DeleteRegistration, PruneStale, Crash
    <3> QED
      BY <1>2, <2>0, <3>1, DeleteOnce
  <2> QED
    BY <1>2, <2>2, <2>3, <2>4, <2>5, <2>6, <2>7, <2>8 DEF Next, Task, Manager
<1> QED
  BY <1>1, <1>2

(* A message is stored a second time only after H younger ids have been recorded, *)
(* or after the history was deleted with the registration, for any size of the    *)
(* history and any number of redeliveries, restarts and aborted tasks.            *)
THEOREM StoredOnceWithinHistory == Spec => []OnceWithinHistory
<1>1. OnceInv => OnceWithinHistory
  BY DEF OnceInv
<1> QED
  BY <1>1, TypeInvInductive, OnceInvInductive, PTL DEF Spec
================================================================================
