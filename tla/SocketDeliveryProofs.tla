------------------------- MODULE SocketDeliveryProofs -------------------------
(* TypeOK and SkipFree are invariants of SocketDelivery for all values of its    *)
(* constants, and it implements Mailbox.  The arguments are in ResumeInv and     *)
(* MailInv below; the lemmas before them establish the types action by action.   *)
EXTENDS SocketDelivery, TLAPS

USE InstallsAssumption, NoneAssumption, ForgedAssumption, BoundAssumption

(* The initial state is well typed: an empty outbox and no connection.          *)
LEMMA InitTypeOK == Init => TypeOK
<1> SUFFICES ASSUME Init PROVE TypeOK
  OBVIOUS
<1>1. NoRequest \in [install: Installs, cursor: Int]
  BY DEF NoRequest
<1> QED
  BY <1>1 DEF Init, TypeOK, Detached, Attachment, Phase

(* Inserting, waking, aborting and unregistering keep every type.               *)
LEMMA ProducersTypeOK == TypeOK /\ Producers => TypeOK'
<1> SUFFICES ASSUME TypeOK, Producers PROVE TypeOK'
  OBVIOUS
<1> USE DEF TypeOK, store, wakers, task, wire, device
<1>1. ASSUME NEW i \in Installs, NEW a \in Apps, Enqueue(i, a) PROVE TypeOK'
  BY <1>1 DEF Enqueue, NextId, Row
<1>2. ASSUME NEW i \in Installs, NEW a \in Apps, Unregister(i, a) PROVE TypeOK'
  BY <1>2 DEF Unregister, RowsOf
<1>3. ASSUME NEW row \in waking, HubWake(row) PROVE TypeOK'
  BY <1>3 DEF HubWake, Wake, SocketEvent, Row
<1>4. ASSUME NEW row \in waking, AbortProducer(row) PROVE TypeOK'
  BY <1>4 DEF AbortProducer
<1> QED
  BY <1>1, <1>2, <1>3, <1>4 DEF Producers

(* What send_frame writes to a link is a sequence of server frames.             *)
LEMMA SendType ==
  ASSUME TypeOK, NEW c \in Conns, NEW frames \in Seq(ServerFrame), Send(c, frames)
  PROVE  down' \in [Conns -> Seq(ServerFrame)]
BY DEF TypeOK, Send

(* Going back to the top of the loop of run_socket keeps pc and todo typed.     *)
LEMMA LoopAgainType ==
  ASSUME TypeOK, NEW c \in Conns, LoopAgain(c)
  PROVE  pc' \in [Conns -> Phase] /\ todo' \in [Conns -> SUBSET Installs]
BY DEF TypeOK, LoopAgain, Phase

(* A detach, however many installs it covers, keeps att and the hub typed.      *)
LEMMA DetachType ==
  ASSUME TypeOK, NEW c \in Conns, NEW gone, NEW told,
         DetachLocally(c, gone), HubDetach(c, told)
  PROVE  /\ att' \in [Conns -> [Installs -> Attachment]]
         /\ hub' \in [Installs -> Conns \cup {None}]
<1>1. Detached \in Attachment
  BY DEF Detached, Attachment
<1>2. att' \in [Conns -> [Installs -> Attachment]]
  BY <1>1 DEF TypeOK, DetachLocally
<1>3. hub' \in [Installs -> Conns \cup {None}]
  BY DEF TypeOK, HubDetach
<1> QED
  BY <1>2, <1>3

(* An attached, detached or attach_error notice is a server frame.              *)
LEMMA NoticeType ==
  ASSUME NEW i \in Installs, NEW type \in {"attached", "detached", "attach_error"}
  PROVE  <<Notice(type, i)>> \in Seq(ServerFrame)
BY DEF Notice, ServerFrame

(* The answer to a detach is one server frame or none.                          *)
LEMMA DetachAnswerType ==
  ASSUME NEW c, NEW i \in Installs
  PROVE  DetachAnswer(c, i) \in Seq(ServerFrame)
BY NoticeType DEF DetachAnswer

(* Reading a frame off the socket yields a client frame and leaves the rest.    *)
LEMMA ReadsType ==
  ASSUME TypeOK, NEW c \in Conns, NEW type, Reads(c, type)
  PROVE  /\ Head(up[c]) \in ClientFrame
         /\ Head(up[c]).install \in Installs
         /\ up' \in [Conns -> Seq(ClientFrame)]
<1>1. up[c] \in Seq(ClientFrame) /\ up[c] # <<>>
  BY DEF TypeOK, Reads
<1>2. Head(up[c]) \in ClientFrame /\ Tail(up[c]) \in Seq(ClientFrame)
  BY <1>1
<1>3. Head(up[c]).install \in Installs
  BY <1>2 DEF ClientFrame
<1> QED
  BY <1>2, <1>3 DEF TypeOK, Reads

(* Taking an event off the channel leaves a channel of events.                  *)
LEMMA TakesType ==
  ASSUME TypeOK, NEW c \in Conns, NEW type, Takes(c, type)
  PROVE  /\ Head(events[c]) \in SocketEvent
         /\ events' \in [Conns -> Seq(SocketEvent)]
<1>1. events[c] \in Seq(SocketEvent) /\ events[c] # <<>>
  BY DEF TypeOK, Takes
<1>2. Head(events[c]) \in SocketEvent /\ Tail(events[c]) \in Seq(SocketEvent)
  BY <1>1
<1> QED
  BY <1>2 DEF TypeOK, Takes

(* One turn of pending_messages keeps every type: the id of a row is a number.  *)
LEMMA PollInstallTypeOK ==
  ASSUME TypeOK, NEW c \in Conns, NEW i \in Installs, PollInstall(c, i)
  PROVE  TypeOK'
<1> USE DEF TypeOK
<1>1. todo' \in [Conns -> SUBSET Installs]
  BY DEF PollInstall
<1>2. att' \in [Conns -> [Installs -> Attachment]] /\ batch' \in [Conns -> Seq(ServerFrame)]
  <2>1. CASE UNCHANGED <<att, batch>>
    BY <2>1
  <2>2. ASSUME NEW r \in outbox,
               att' = [att EXCEPT ![c][i] = AwaitingAck(r.id)],
               batch' = [batch EXCEPT ![c] =
                  Append(@, [type |-> "message", install |-> i, id |-> r.id])]
        PROVE  /\ att' \in [Conns -> [Installs -> Attachment]]
               /\ batch' \in [Conns -> Seq(ServerFrame)]
    <3>1. AwaitingAck(r.id) \in Attachment
      BY DEF AwaitingAck, Attachment, Row
    <3>2. [type |-> "message", install |-> i, id |-> r.id] \in ServerFrame
      BY DEF ServerFrame, Row
    <3> QED
      BY <2>2, <3>1, <3>2
  <2> QED
    BY <2>1, <2>2 DEF PollInstall
<1> QED
  BY <1>1, <1>2 DEF PollInstall, store, wakers, wire, device

(* The awaits of attach keep every type: a clamped cursor is a natural number   *)
(* by the time it becomes an attachment.                                        *)
LEMMA AttachingTypeOK ==
  ASSUME TypeOK, NEW c \in Conns, Attaching(c),
         pc[c] = "attach_hub" => req[c].cursor \in Nat
  PROVE  TypeOK'
<1> USE DEF TypeOK, store, wakers, wire, device
<1>1. ASSUME ReadMaxOutboxId(c) PROVE TypeOK'
  <2>1. PICK m \in {0} \cup {r.id : r \in outbox} :
          req' = [req EXCEPT ![c] = [install |-> @.install, cursor |-> Clamp(@.cursor, m)]]
    BY <1>1 DEF ReadMaxOutboxId
  <2>2. m \in Nat
    BY DEF Row
  <2>3. Clamp(req[c].cursor, m) \in Int
    BY <2>2 DEF Clamp
  <2>4. req' \in [Conns -> [install: Installs, cursor: Int]]
    BY <2>1, <2>3
  <2> QED
    BY <1>1, <2>4 DEF ReadMaxOutboxId, Phase
<1>2. ASSUME AckSocketThrough(c) PROVE TypeOK'
  BY <1>2 DEF AckSocketThrough, Phase
<1>3. ASSUME FinishAttach(c) PROVE TypeOK'
  <2> DEFINE i == req[c].install
  <2>1. i \in Installs
    OBVIOUS
  <2>2. hub' \in [Installs -> Conns \cup {None}]
    BY <1>3, <2>1 DEF FinishAttach, HubAttach
  <2>3. events' \in [Conns -> Seq(SocketEvent)]
    <3>1. Replaced(i) \in SocketEvent
      BY <2>1 DEF Replaced, SocketEvent
    <3> QED
      BY <1>3, <2>1, <3>1 DEF FinishAttach, HubAttach
  <2>4. Ready(req[c].cursor) \in Attachment
    BY <1>3 DEF FinishAttach, Ready, Attachment
  <2>5. att' \in [Conns -> [Installs -> Attachment]]
    BY <1>3, <2>1, <2>4 DEF FinishAttach
  <2>6. down' \in [Conns -> Seq(ServerFrame)]
    BY <1>3, <2>1, SendType, NoticeType DEF FinishAttach
  <2>7. req' \in [Conns -> [install: Installs, cursor: Int]]
    BY <1>3 DEF FinishAttach, NoRequest
  <2> QED
    BY <1>3, <2>2, <2>3, <2>5, <2>6, <2>7, LoopAgainType DEF FinishAttach
<1> QED
  BY <1>1, <1>2, <1>3 DEF Attaching

(* Handling an attach, a detach or an ack keeps every type.                     *)
LEMMA ReadingTypeOK ==
  ASSUME TypeOK, NEW c \in Conns, Reading(c)
  PROVE  TypeOK'
<1> USE DEF TypeOK, store, wakers, device
<1> DEFINE i == Head(up[c]).install
<1>1. ASSUME ReceiveAttach(c) PROVE TypeOK'
  <2>1. /\ i \in Installs
        /\ Head(up[c]) \in ClientFrame
        /\ up' \in [Conns -> Seq(ClientFrame)]
    BY <1>1, ReadsType DEF ReceiveAttach
  <2>2. Head(up[c]).type = "attach"
    BY <1>1 DEF ReceiveAttach, Reads
  <2>3. CASE Head(up[c]).proof
    <3>1. Head(up[c]).cursor \in Int
      BY <2>1, <2>2 DEF ClientFrame
    <3>2. req' \in [Conns -> [install: Installs, cursor: Int]] /\ UNCHANGED <<todo, att, down>>
      <4>1. /\ req' = [req EXCEPT ![c] = [install |-> i, cursor |-> Head(up[c]).cursor]]
            /\ UNCHANGED <<todo, att, down>>
        BY <1>1, <2>3 DEF ReceiveAttach
      <4> QED
        BY <2>1, <3>1, <4>1
    <3>3. pc' \in [Conns -> Phase]
      BY <1>1, <2>3 DEF ReceiveAttach, Phase
    <3> QED
      BY <1>1, <2>1, <3>2, <3>3 DEF ReceiveAttach
  <2>4. CASE ~Head(up[c]).proof
    <3>1. down' \in [Conns -> Seq(ServerFrame)]
      BY <1>1, <2>1, <2>4, SendType, NoticeType DEF ReceiveAttach
    <3>2. LoopAgain(c) /\ UNCHANGED <<req, att>>
      BY <1>1, <2>4 DEF ReceiveAttach
    <3> QED
      BY <1>1, <2>1, <3>1, <3>2, LoopAgainType DEF ReceiveAttach
  <2> QED
    BY <2>3, <2>4
<1>2. ASSUME ReceiveDetach(c) PROVE TypeOK'
  <2>1. i \in Installs /\ up' \in [Conns -> Seq(ClientFrame)]
    BY <1>2, ReadsType DEF ReceiveDetach
  <2>2. /\ att' \in [Conns -> [Installs -> Attachment]]
        /\ hub' \in [Installs -> Conns \cup {None}]
    BY <1>2, DetachType DEF ReceiveDetach, Detach
  <2>3. down' \in [Conns -> Seq(ServerFrame)]
    BY <1>2, <2>1, SendType, DetachAnswerType DEF ReceiveDetach
  <2> QED
    BY <1>2, <2>1, <2>2, <2>3, LoopAgainType DEF ReceiveDetach
<1>3. ASSUME ReceiveAck(c) PROVE TypeOK'
  <2> DEFINE id == Head(up[c]).id
  <2>1. /\ i \in Installs
        /\ Head(up[c]) \in ClientFrame
        /\ up' \in [Conns -> Seq(ClientFrame)]
    BY <1>3, ReadsType DEF ReceiveAck
  <2>2. id \in Nat
    BY <1>3, <2>1 DEF ReceiveAck, Reads, ClientFrame
  <2>3. /\ outbox' \subseteq Row
        /\ att' \in [Conns -> [Installs -> Attachment]]
        /\ hub' \in [Installs -> Conns \cup {None}]
        /\ down' \in [Conns -> Seq(ServerFrame)]
    <3>1. CASE Acknowledges(c, i, id)
      <4>1. Ready(id) \in Attachment
        BY <2>2 DEF Ready, Attachment
      <4> QED
        <5>1. /\ outbox' = outbox \ AckedRow(i, id)
              /\ att' = [att EXCEPT ![c][i] = Ready(id)]
              /\ UNCHANGED <<hub, down>>
          BY <1>3, <3>1 DEF ReceiveAck
        <5> QED
          BY <2>1, <4>1, <5>1
    <3>2. CASE ~Acknowledges(c, i, id)
      <4>1. Detach(c, i) /\ Send(c, <<Notice("detached", i)>>) /\ UNCHANGED outbox
        BY <1>3, <3>2 DEF ReceiveAck
      <4> QED
        BY <2>1, <4>1, DetachType, SendType, NoticeType DEF Detach
    <3> QED
      BY <3>1, <3>2
  <2> QED
    BY <1>3, <2>1, <2>3, LoopAgainType DEF ReceiveAck
<1> QED
  BY <1>1, <1>2, <1>3 DEF Reading

(* Every step of a connection task keeps every type.                            *)
LEMMA ConnectionTypeOK ==
  ASSUME TypeOK, NEW c \in Conns, Connection(c),
         pc[c] = "attach_hub" => req[c].cursor \in Nat
  PROVE  TypeOK'
<1> USE DEF TypeOK, store, wakers, wire, device
<1>1. ASSUME SendBatch(c) PROVE TypeOK'
  BY <1>1, SendType DEF SendBatch, Phase
<1>2. ASSUME OnWake(c) PROVE TypeOK'
  BY <1>2, TakesType, LoopAgainType DEF OnWake
<1>3. ASSUME OnReplaced(c) PROVE TypeOK'
  <2> DEFINE i == Head(events[c]).install
  <2>1. events' \in [Conns -> Seq(SocketEvent)]
    BY <1>3, TakesType DEF OnReplaced
  <2>2. i \in Installs
    <3>1. Head(events[c]) \in SocketEvent /\ Head(events[c]).type = "replaced"
      BY <1>3, TakesType DEF OnReplaced, Takes
    <3> QED
      BY <3>1 DEF SocketEvent
  <2>3. /\ att' \in [Conns -> [Installs -> Attachment]]
        /\ hub' \in [Installs -> Conns \cup {None}]
    BY <1>3, DetachType DEF OnReplaced, Detach
  <2>4. down' \in [Conns -> Seq(ServerFrame)]
    BY <1>3, <2>2, SendType, DetachAnswerType DEF OnReplaced
  <2> QED
    BY <1>3, <2>1, <2>3, <2>4, LoopAgainType DEF OnReplaced
<1>4. ASSUME Heartbeat(c) PROVE TypeOK'
  BY <1>4, LoopAgainType DEF Heartbeat
<1>5. ASSUME Shutdown(c), faults' \in 0..MaxFaults PROVE TypeOK'
  BY <1>5, DetachType DEF Shutdown, Phase, NoRequest
<1>6. ASSUME CloseBroken(c) PROVE TypeOK'
  BY <1>5, <1>6 DEF CloseBroken
<1>7. ASSUME CloseOnError(c) PROVE TypeOK'
  BY <1>5, <1>7 DEF CloseOnError
<1> QED
  BY <1>1, <1>2, <1>3, <1>4, <1>6, <1>7, PollInstallTypeOK, AttachingTypeOK, ReadingTypeOK
  DEF Connection, Polling, Notified

(* A frame the device sends is added to a sequence of client frames.            *)
LEMMA DeviceSendsType ==
  ASSUME TypeOK, NEW c \in Conns, NEW frame \in ClientFrame, DeviceSends(c, frame)
  PROVE  up' \in [Conns -> Seq(ClientFrame)]
BY DEF TypeOK, DeviceSends

(* An attach with any integer cursor is a client frame.                         *)
LEMMA SendAttachType ==
  ASSUME TypeOK, NEW c \in Conns, NEW i \in Installs, NEW cursor \in Int,
         NEW proof \in BOOLEAN, SendAttach(c, i, cursor, proof)
  PROVE  /\ up' \in [Conns -> Seq(ClientFrame)]
         /\ view' \in [Conns -> [Installs -> {"no", "asked", "yes"}]]
<1>1. [type |-> "attach", install |-> i, cursor |-> cursor, proof |-> proof] \in ClientFrame
  BY DEF ClientFrame
<1> QED
  BY <1>1, DeviceSendsType DEF SendAttach, SetView, TypeOK

(* An acknowledgement of a natural number is a client frame.                    *)
LEMMA AckFrameType ==
  ASSUME NEW i \in Installs, NEW id \in Nat
  PROVE  AckFrame(i, id) \in ClientFrame
BY DEF AckFrame, ClientFrame

(* Every step of a device keeps every type.                                     *)
LEMMA DeviceTypeOK ==
  ASSUME TypeOK, NEW c \in Conns, Device(c)
  PROVE  TypeOK'
<1> USE DEF TypeOK, store, wakers, task, device
<1>1. ASSUME Connect(c) PROVE TypeOK'
  BY <1>1 DEF Connect, Phase, wire
<1>2. ASSUME DeviceReads(c) PROVE TypeOK'
  <2> DEFINE frame == Head(down[c])
  <2> DEFINE i == frame.install
  <2>1. frame \in ServerFrame /\ Tail(down[c]) \in Seq(ServerFrame)
    BY <1>2 DEF DeviceReads
  <2>2. i \in Installs
    BY <2>1 DEF ServerFrame
  <2>3. /\ received' \in [Installs -> SUBSET Nat]
        /\ up' \in [Conns -> Seq(ClientFrame)]
        /\ view' \in [Conns -> [Installs -> {"no", "asked", "yes"}]]
    <3>1. CASE frame.type = "message"
      <4>1. frame.id \in Nat
        BY <2>1, <3>1 DEF ServerFrame
      <4>2. received' = [received EXCEPT ![i] = @ \cup {frame.id}] /\ UNCHANGED view
        BY <1>2, <3>1 DEF DeviceReads
      <4>3. DeviceSends(c, AckFrame(i, frame.id))
        BY <1>2, <3>1 DEF DeviceReads
      <4> QED
        BY <2>2, <4>1, <4>2, <4>3, AckFrameType, DeviceSendsType
    <3>2. CASE frame.type # "message"
      <4>1. ViewAfter(frame.type, view[c][i]) \in {"no", "asked", "yes"}
        BY DEF ViewAfter
      <4>2. SetView(c, i, ViewAfter(frame.type, view[c][i])) /\ UNCHANGED <<received, up>>
        BY <1>2, <3>2 DEF DeviceReads
      <4> QED
        BY <2>2, <4>1, <4>2 DEF SetView
    <3> QED
      BY <3>1, <3>2
  <2>4. down' \in [Conns -> Seq(ServerFrame)]
    BY <1>2, <2>1 DEF DeviceReads
  <2> QED
    BY <1>2, <2>3, <2>4 DEF DeviceReads
<1>3. ASSUME DeviceSeesClose(c) PROVE TypeOK'
  BY <1>3 DEF DeviceSeesClose, wire
<1>4. ASSUME LinkBreaks(c) PROVE TypeOK'
  BY <1>4 DEF LinkBreaks
<1>5. ASSUME NEW i \in Installs, DeviceAttaches(c, i) PROVE TypeOK'
  <2>1. PICK cursor \in {0} \cup received[i] : SendAttach(c, i, cursor, TRUE)
    BY <1>5 DEF DeviceAttaches
  <2>2. cursor \in Int
    OBVIOUS
  <2> QED
    BY <1>5, <2>1, <2>2, SendAttachType DEF DeviceAttaches
<1>6. ASSUME NEW i \in Installs, DeviceMisbehaves(c, i) PROVE TypeOK'
  <2>1. /\ up' \in [Conns -> Seq(ClientFrame)]
        /\ view' \in [Conns -> [Installs -> {"no", "asked", "yes"}]]
    <3>1. ASSUME NEW cursor \in Cursors(i), SendAttach(c, i, cursor, TRUE) PROVE <2>1
      <4>1. cursor \in Int
        BY DEF Cursors
      <4> QED
        BY <3>1, <4>1, SendAttachType
    <3>2. CASE SendAttach(c, i, 0, FALSE)
      <4>1. 0 \in Int /\ FALSE \in BOOLEAN
        OBVIOUS
      <4> QED
        BY <3>2, <4>1, SendAttachType
    <3>3. CASE DeviceSends(c, [type |-> "detach", install |-> i]) /\ UNCHANGED view
      <4>1. [type |-> "detach", install |-> i] \in ClientFrame
        BY DEF ClientFrame
      <4> QED
        BY <3>3, <4>1, DeviceSendsType
    <3>4. ASSUME NEW id \in received[i], DeviceSends(c, AckFrame(i, id)), UNCHANGED view
          PROVE  <2>1
      BY <3>4, AckFrameType, DeviceSendsType
    <3> QED
      BY <1>6, <3>1, <3>2, <3>3, <3>4 DEF DeviceMisbehaves
  <2> QED
    BY <1>6, <2>1 DEF DeviceMisbehaves
<1> QED
  BY <1>1, <1>2, <1>3, <1>4, <1>5, <1>6 DEF Device

(* A restart of the bridge keeps every type.                                    *)
LEMMA CrashTypeOK == TypeOK /\ Crash => TypeOK'
BY DEF TypeOK, Crash, Phase, NoRequest, Attachment, Detached, store, wakers, task, wire, device

-------------------------------------------------------------------------------
(* The cursors of every connection stay below the ids to come (seq), and no row  *)
(* is left behind one: neither behind an attachment nor behind an attach that    *)
(* has applied its cursor and is about to become one.                            *)
RowIds == \A r \in outbox : r.id \in 1..seq

CursorsBelowSeq ==
  \A c \in Conns :
    /\ \A i \in Installs : att[c][i].at <= seq
    /\ pc[c] \in {"attach_through", "attach_hub"} => req[c].cursor \in 0..seq

AttachesAhead ==
  \A c \in Conns : \A r \in outbox :
    pc[c] = "attach_hub" /\ r.install = req[c].install => r.id > req[c].cursor

ResumeInv == RowIds /\ CursorsBelowSeq /\ AttachesAhead /\ SkipFree

(* What most steps do: rows only leave, attachments only end, and no attach      *)
(* comes closer to its end.                                                      *)
OnlyShrinks ==
  /\ outbox' \subseteq outbox
  /\ seq' = seq
  /\ \A c \in Conns, i \in Installs : att'[c][i] \in {att[c][i], Detached}
  /\ \A c \in Conns :
       pc'[c] \in {"attach_through", "attach_hub"} => pc'[c] = pc[c] /\ req'[c] = req[c]

(* A step that only shrinks (see OnlyShrinks) keeps ResumeInv.                  *)
LEMMA ShrinkingKeepsResumeInv ==
  ASSUME TypeOK, ResumeInv, OnlyShrinks
  PROVE  ResumeInv'
<1>1. RowIds'
  BY DEF ResumeInv, RowIds, OnlyShrinks
<1>2. CursorsBelowSeq'
  <2>1. ASSUME NEW c \in Conns, NEW i \in Installs PROVE att'[c][i].at <= seq'
    <3>1. att[c][i].at <= seq /\ Detached.at <= seq
      BY DEF ResumeInv, CursorsBelowSeq, TypeOK, Detached
    <3> QED
      BY <3>1 DEF OnlyShrinks
  <2>2. ASSUME NEW c \in Conns, pc'[c] \in {"attach_through", "attach_hub"}
        PROVE  req'[c].cursor \in 0..seq'
    BY <2>2 DEF ResumeInv, CursorsBelowSeq, OnlyShrinks
  <2> QED
    BY <2>1, <2>2 DEF CursorsBelowSeq
<1>3. AttachesAhead'
  BY DEF ResumeInv, AttachesAhead, OnlyShrinks
<1>4. SkipFree'
  BY DEF ResumeInv, SkipFree, OnlyShrinks, Detached
<1> QED
  BY <1>1, <1>2, <1>3, <1>4 DEF ResumeInv

(* A detach turns attachments into Detached and changes no other.               *)
LEMMA DetachShrinks ==
  ASSUME TypeOK, NEW d \in Conns, NEW gone, DetachLocally(d, gone)
  PROVE  \A c \in Conns, i \in Installs : att'[c][i] \in {att[c][i], Detached}
BY DEF TypeOK, DetachLocally

(* Going back to the top of the loop leaves the attach phases.                  *)
LEMMA LoopAgainShrinks ==
  ASSUME TypeOK, NEW d \in Conns, LoopAgain(d), UNCHANGED req
  PROVE  \A c \in Conns :
           pc'[c] \in {"attach_through", "attach_hub"} => pc'[c] = pc[c] /\ req'[c] = req[c]
BY DEF TypeOK, LoopAgain

(* Producers keep ResumeInv: a new row takes an id beyond every cursor.         *)
LEMMA ProducersResumeInv ==
  ASSUME TypeOK, ResumeInv, Producers
  PROVE  ResumeInv'
<1>1. ASSUME NEW i \in Installs, NEW a \in Apps, Enqueue(i, a) PROVE ResumeInv'
  <2> DEFINE row == [id |-> seq + 1, install |-> i, app |-> a]
  <2>1. /\ outbox' = outbox \cup {row}
        /\ seq' = seq + 1
        /\ UNCHANGED <<pc, req, att>>
    BY <1>1 DEF Enqueue, NextId, task
  <2>2. seq \in Nat /\ row.id = seq + 1
    BY DEF TypeOK
  <2>3. RowIds'
    BY <2>1, <2>2 DEF ResumeInv, RowIds
  <2>4. CursorsBelowSeq'
    BY <2>1, <2>2 DEF ResumeInv, CursorsBelowSeq, TypeOK, Attachment
  <2>5. AttachesAhead'
    BY <2>1, <2>2 DEF ResumeInv, AttachesAhead, CursorsBelowSeq
  <2>6. SkipFree'
    BY <2>1, <2>2 DEF ResumeInv, SkipFree, CursorsBelowSeq, TypeOK, Attachment
  <2> QED
    BY <2>3, <2>4, <2>5, <2>6 DEF ResumeInv
<1>2. ASSUME NEW i \in Installs, NEW a \in Apps, Unregister(i, a) PROVE ResumeInv'
  BY <1>2, ShrinkingKeepsResumeInv DEF Unregister, OnlyShrinks, task
<1>3. ASSUME NEW row \in waking, HubWake(row) \/ AbortProducer(row) PROVE ResumeInv'
  BY <1>3, ShrinkingKeepsResumeInv DEF HubWake, AbortProducer, OnlyShrinks, store, task
<1> QED
  BY <1>1, <1>2, <1>3 DEF Producers

(* Polling keeps ResumeInv: the message sent is the oldest row beyond the       *)
(* cursor.                                                                      *)
LEMMA PollInstallResumeInv ==
  ASSUME TypeOK, ResumeInv, NEW c \in Conns, NEW i \in Installs, PollInstall(c, i)
  PROVE  ResumeInv'
<1>1. CASE UNCHANGED att
  BY <1>1, ShrinkingKeepsResumeInv DEF PollInstall, OnlyShrinks, store
<1>2. ASSUME NEW r \in outbox, att[c][i].state = "ready", IsNextMessage(r, i, att[c][i].at),
             att' = [att EXCEPT ![c][i] = AwaitingAck(r.id)]
      PROVE  ResumeInv'
  <2>1. UNCHANGED <<outbox, seq, pc, req>>
    BY DEF PollInstall, store
  <2>2. /\ \A d \in Conns, j \in Installs : <<d, j>> # <<c, i>> => att'[d][j] = att[d][j]
        /\ att'[c][i] = AwaitingAck(r.id)
    BY <1>2 DEF TypeOK
  <2>3. \A s \in outbox : s.install = i => r.id <= s.id
    BY <1>2 DEF ResumeInv, SkipFree, IsNextMessage, Pending
  <2>4. RowIds' /\ AttachesAhead'
    BY <2>1 DEF ResumeInv, RowIds, AttachesAhead
  <2>5. CursorsBelowSeq'
    BY <2>1, <2>2 DEF ResumeInv, RowIds, CursorsBelowSeq, AwaitingAck
  <2>6. SkipFree'
    <3> SUFFICES ASSUME NEW d \in Conns, NEW j \in Installs, NEW s \in outbox, s.install = j
                 PROVE  /\ att'[d][j].state = "ready" => s.id > att'[d][j].at
                        /\ att'[d][j].state = "awaiting" => s.id >= att'[d][j].at
      BY <2>1 DEF SkipFree
    <3>1. CASE <<d, j>> = <<c, i>>
      BY <2>2, <2>3, <3>1 DEF AwaitingAck, TypeOK, Row
    <3>2. CASE <<d, j>> # <<c, i>>
      BY <2>2, <3>2 DEF ResumeInv, SkipFree
    <3> QED
      BY <3>1, <3>2
  <2> QED
    BY <2>4, <2>5, <2>6 DEF ResumeInv
<1> QED
  BY <1>1, <1>2 DEF PollInstall

(* attach keeps ResumeInv: ack_socket_through removes the rows the clamped      *)
(* cursor covers before the attachment exists.                                  *)
LEMMA AttachingResumeInv ==
  ASSUME TypeOK, ResumeInv, NEW c \in Conns, Attaching(c)
  PROVE  ResumeInv'
<1>1. ASSUME ReadMaxOutboxId(c) PROVE ResumeInv'
  <2>1. PICK m \in {0} \cup {r.id : r \in outbox} :
          req' = [req EXCEPT ![c] = [install |-> @.install, cursor |-> Clamp(@.cursor, m)]]
    BY <1>1 DEF ReadMaxOutboxId
  <2>2. m \in 0..seq
    BY DEF ResumeInv, RowIds, TypeOK
  <2>3. Clamp(req[c].cursor, m) \in 0..seq
    BY <2>2 DEF Clamp, TypeOK
  <2>4. /\ UNCHANGED <<outbox, seq, att>>
        /\ pc' = [pc EXCEPT ![c] = "attach_through"]
    BY <1>1 DEF ReadMaxOutboxId, store
  <2>5. /\ \A d \in Conns \ {c} : pc'[d] = pc[d] /\ req'[d] = req[d]
        /\ pc'[c] = "attach_through"
        /\ req'[c].cursor \in 0..seq
    BY <2>1, <2>3, <2>4 DEF TypeOK
  <2>6. RowIds' /\ SkipFree'
    BY <2>4 DEF ResumeInv, RowIds, SkipFree
  <2>7. CursorsBelowSeq'
    BY <2>4, <2>5 DEF ResumeInv, CursorsBelowSeq
  <2>8. AttachesAhead'
    BY <2>4, <2>5 DEF ResumeInv, AttachesAhead
  <2> QED
    BY <2>6, <2>7, <2>8 DEF ResumeInv
<1>2. ASSUME AckSocketThrough(c) PROVE ResumeInv'
  <2>1. /\ outbox' = outbox \ Through(req[c].install, req[c].cursor)
        /\ pc' = [pc EXCEPT ![c] = "attach_hub"]
        /\ pc[c] = "attach_through"
        /\ UNCHANGED <<seq, req, att>>
    BY <1>2 DEF AckSocketThrough
  <2>2. /\ \A d \in Conns \ {c} : pc'[d] = pc[d]
        /\ pc'[c] = "attach_hub"
    BY <2>1 DEF TypeOK
  <2>3. RowIds' /\ SkipFree'
    BY <2>1 DEF ResumeInv, RowIds, SkipFree
  <2>4. CursorsBelowSeq'
    BY <2>1, <2>2 DEF ResumeInv, CursorsBelowSeq
  <2>5. AttachesAhead'
    <3>1. \A r \in outbox' : r.install = req[c].install => r.id > req[c].cursor
      BY <2>1 DEF Through, TypeOK, Row
    <3> QED
      BY <2>1, <2>2, <3>1 DEF ResumeInv, AttachesAhead
  <2> QED
    BY <2>3, <2>4, <2>5 DEF ResumeInv
<1>3. ASSUME FinishAttach(c) PROVE ResumeInv'
  <2> DEFINE i == req[c].install
  <2>1. /\ pc[c] = "attach_hub"
        /\ att' = [att EXCEPT ![c][i] = Ready(req[c].cursor)]
        /\ pc' = [pc EXCEPT ![c] = "poll"]
        /\ req' = [req EXCEPT ![c] = NoRequest]
        /\ UNCHANGED <<outbox, seq>>
    BY <1>3 DEF FinishAttach, LoopAgain, store
  <2>2. i \in Installs /\ req[c].cursor \in 0..seq
    BY <2>1 DEF ResumeInv, CursorsBelowSeq, TypeOK
  <2>3. /\ \A d \in Conns, j \in Installs : <<d, j>> # <<c, i>> => att'[d][j] = att[d][j]
        /\ att'[c][i] = Ready(req[c].cursor)
        /\ \A d \in Conns \ {c} : pc'[d] = pc[d] /\ req'[d] = req[d]
        /\ pc'[c] = "poll"
    BY <2>1, <2>2 DEF TypeOK
  <2>4. RowIds'
    BY <2>1 DEF ResumeInv, RowIds
  <2>5. CursorsBelowSeq'
    BY <2>1, <2>2, <2>3 DEF ResumeInv, CursorsBelowSeq, Ready
  <2>6. AttachesAhead'
    BY <2>1, <2>3 DEF ResumeInv, AttachesAhead
  <2>7. SkipFree'
    <3> SUFFICES ASSUME NEW d \in Conns, NEW j \in Installs, NEW s \in outbox, s.install = j
                 PROVE  /\ att'[d][j].state = "ready" => s.id > att'[d][j].at
                        /\ att'[d][j].state = "awaiting" => s.id >= att'[d][j].at
      BY <2>1 DEF SkipFree
    <3>1. CASE <<d, j>> = <<c, i>>
      BY <2>1, <2>3, <3>1 DEF ResumeInv, AttachesAhead, Ready
    <3>2. CASE <<d, j>> # <<c, i>>
      BY <2>3, <3>2 DEF ResumeInv, SkipFree
    <3> QED
      BY <3>1, <3>2
  <2> QED
    BY <2>4, <2>5, <2>6, <2>7 DEF ResumeInv
<1> QED
  BY <1>1, <1>2, <1>3 DEF Attaching

(* Client frames keep ResumeInv: an acknowledged row is gone when its id        *)
(* becomes the cursor.                                                          *)
LEMMA ReadingResumeInv ==
  ASSUME TypeOK, ResumeInv, NEW c \in Conns, Reading(c)
  PROVE  ResumeInv'
<1> DEFINE i == Head(up[c]).install
<1>1. ASSUME ReceiveAttach(c) PROVE ResumeInv'
  <2>1. CASE Head(up[c]).proof
    <3>1. /\ req' = [req EXCEPT ![c] = [install |-> i, cursor |-> Head(up[c]).cursor]]
          /\ pc' = [pc EXCEPT ![c] = "attach_max"]
          /\ UNCHANGED <<outbox, seq, att>>
      BY <1>1, <2>1 DEF ReceiveAttach, store
    <3> QED
      BY <3>1, ShrinkingKeepsResumeInv DEF OnlyShrinks, TypeOK
  <2>2. CASE ~Head(up[c]).proof
    <3>1. LoopAgain(c) /\ UNCHANGED <<outbox, seq, req, att>>
      BY <1>1, <2>2 DEF ReceiveAttach, store
    <3> QED
      BY <3>1, LoopAgainShrinks, ShrinkingKeepsResumeInv DEF OnlyShrinks
  <2> QED
    BY <2>1, <2>2
<1>2. ASSUME ReceiveDetach(c) PROVE ResumeInv'
  <2>1. DetachLocally(c, {i}) /\ LoopAgain(c) /\ UNCHANGED <<outbox, seq, req>>
    BY <1>2 DEF ReceiveDetach, Detach, store
  <2> QED
    BY <2>1, DetachShrinks, LoopAgainShrinks, ShrinkingKeepsResumeInv DEF OnlyShrinks
<1>3. ASSUME ReceiveAck(c) PROVE ResumeInv'
  <2> DEFINE id == Head(up[c]).id
  <2>1. CASE ~Acknowledges(c, i, id)
    <3>1. DetachLocally(c, {i}) /\ LoopAgain(c) /\ UNCHANGED <<outbox, seq, req>>
      BY <1>3, <2>1 DEF ReceiveAck, Detach
    <3> QED
      BY <3>1, DetachShrinks, LoopAgainShrinks, ShrinkingKeepsResumeInv DEF OnlyShrinks
  <2>2. CASE Acknowledges(c, i, id)
    <3>1. /\ outbox' = outbox \ AckedRow(i, id)
          /\ att' = [att EXCEPT ![c][i] = Ready(id)]
          /\ LoopAgain(c)
          /\ UNCHANGED <<seq, req>>
      BY <1>3, <2>2 DEF ReceiveAck
    <3>2. i \in Installs /\ att[c][i] = AwaitingAck(id)
      BY <1>3, <2>2, ReadsType DEF ReceiveAck, Acknowledges
    <3>3. /\ \A d \in Conns, j \in Installs : <<d, j>> # <<c, i>> => att'[d][j] = att[d][j]
          /\ att'[c][i] = Ready(id)
      BY <3>1, <3>2 DEF TypeOK
    <3>4. RowIds'
      BY <3>1 DEF ResumeInv, RowIds
    <3>5. CursorsBelowSeq'
      <4>1. id <= seq
        BY <3>2 DEF ResumeInv, CursorsBelowSeq, AwaitingAck
      <4> QED
        BY <3>1, <3>3, <4>1, LoopAgainShrinks DEF ResumeInv, CursorsBelowSeq, Ready
    <3>6. AttachesAhead'
      BY <3>1, LoopAgainShrinks DEF ResumeInv, AttachesAhead
    <3>7. SkipFree'
      <4> SUFFICES ASSUME NEW d \in Conns, NEW j \in Installs, NEW s \in outbox', s.install = j
                   PROVE  /\ att'[d][j].state = "ready" => s.id > att'[d][j].at
                          /\ att'[d][j].state = "awaiting" => s.id >= att'[d][j].at
        BY DEF SkipFree
      <4>1. s \in outbox /\ s.id \in Nat
        BY <3>1 DEF TypeOK, Row
      <4>2. CASE <<d, j>> = <<c, i>>
        <5>1. s.id >= id
          BY <3>2, <4>1, <4>2 DEF ResumeInv, SkipFree, AwaitingAck
        <5>2. s.id # id
          BY <3>1, <4>1, <4>2 DEF AckedRow
        <5>3. id \in Nat
          <6>1. att[c][i] \in Attachment
            BY <3>2 DEF TypeOK
          <6>2. att[c][i].at = id
            BY <3>2 DEF AwaitingAck
          <6> QED
            BY <6>1, <6>2 DEF Attachment
        <5> QED
          BY <3>3, <4>1, <4>2, <5>1, <5>2, <5>3 DEF Ready
      <4>3. CASE <<d, j>> # <<c, i>>
        BY <3>3, <4>1, <4>3 DEF ResumeInv, SkipFree
      <4> QED
        BY <4>2, <4>3
    <3> QED
      BY <3>4, <3>5, <3>6, <3>7 DEF ResumeInv
  <2> QED
    BY <2>1, <2>2
<1> QED
  BY <1>1, <1>2, <1>3 DEF Reading

(* Every step of a connection task keeps ResumeInv.                             *)
LEMMA ConnectionResumeInv ==
  ASSUME TypeOK, ResumeInv, NEW c \in Conns, Connection(c)
  PROVE  ResumeInv'
<1>1. ASSUME SendBatch(c) PROVE ResumeInv'
  BY <1>1, ShrinkingKeepsResumeInv DEF SendBatch, OnlyShrinks, store, TypeOK
<1>2. ASSUME OnWake(c) \/ Heartbeat(c) PROVE ResumeInv'
  BY <1>2, LoopAgainShrinks, ShrinkingKeepsResumeInv DEF OnWake, Heartbeat, OnlyShrinks, store
<1>3. ASSUME OnReplaced(c) PROVE ResumeInv'
  BY <1>3, DetachShrinks, LoopAgainShrinks, ShrinkingKeepsResumeInv
  DEF OnReplaced, Detach, OnlyShrinks, store
<1>4. ASSUME Shutdown(c) PROVE ResumeInv'
  <2>1. DetachLocally(c, Installs) /\ UNCHANGED <<outbox, seq>>
    BY <1>4 DEF Shutdown, store
  <2>2. \A d \in Conns :
          pc'[d] \in {"attach_through", "attach_hub"} => pc'[d] = pc[d] /\ req'[d] = req[d]
    BY <1>4 DEF Shutdown, TypeOK
  <2> QED
    BY <2>1, <2>2, DetachShrinks, ShrinkingKeepsResumeInv DEF OnlyShrinks
<1>5. ASSUME CloseBroken(c) \/ CloseOnError(c) PROVE ResumeInv'
  BY <1>4, <1>5 DEF CloseBroken, CloseOnError
<1> QED
  BY <1>1, <1>2, <1>3, <1>5, PollInstallResumeInv, AttachingResumeInv, ReadingResumeInv
  DEF Connection, Polling, Notified

(* Nothing a device does touches rows, cursors or attachments.                  *)
LEMMA DeviceResumeInv ==
  ASSUME TypeOK, ResumeInv, NEW c \in Conns, Device(c)
  PROVE  ResumeInv'
<1>1. CASE Connect(c)
  BY <1>1, ShrinkingKeepsResumeInv DEF Connect, OnlyShrinks, store, TypeOK
<1>2. CASE ~Connect(c)
  <2>1. UNCHANGED <<outbox, seq, pc, req, att>>
    BY <1>2 DEF Device, DeviceReads, DeviceSeesClose, LinkBreaks, DeviceAttaches,
                DeviceMisbehaves, store, task
  <2> QED
    BY <2>1, ShrinkingKeepsResumeInv DEF OnlyShrinks
<1> QED
  BY <1>1, <1>2

(* A restart ends every attachment and keeps seq, so ResumeInv survives it.     *)
LEMMA CrashResumeInv ==
  ASSUME TypeOK, ResumeInv, Crash
  PROVE  ResumeInv'
<1>1. OnlyShrinks
  BY DEF Crash, OnlyShrinks, store
<1> QED
  BY <1>1, ShrinkingKeepsResumeInv

(* The type invariant and ResumeInv are inductive together: the cursor of an     *)
(* attach is a natural number only because it has been clamped.                  *)
LEMMA ResumeInvInductive == TypeOK /\ ResumeInv /\ [Next]_vars => TypeOK' /\ ResumeInv'
<1> SUFFICES ASSUME TypeOK, ResumeInv, [Next]_vars PROVE TypeOK' /\ ResumeInv'
  OBVIOUS
<1>1. CASE UNCHANGED vars
  <2>1. TypeOK'
    BY <1>1 DEF vars, TypeOK, store, wakers, task, wire, device
  <2>2. OnlyShrinks
    BY <1>1 DEF vars, store, task, OnlyShrinks
  <2> QED
    BY <2>1, <2>2, ShrinkingKeepsResumeInv
<1>2. CASE Producers
  BY <1>2, ProducersTypeOK, ProducersResumeInv
<1>3. CASE Crash
  BY <1>3, CrashTypeOK, CrashResumeInv
<1>4. ASSUME NEW c \in Conns, Connection(c) PROVE TypeOK' /\ ResumeInv'
  <2>1. pc[c] = "attach_hub" => req[c].cursor \in Nat
    BY DEF ResumeInv, CursorsBelowSeq
  <2> QED
    BY <1>4, <2>1, ConnectionTypeOK, ConnectionResumeInv
<1>5. ASSUME NEW c \in Conns, Device(c) PROVE TypeOK' /\ ResumeInv'
  BY <1>5, DeviceTypeOK, DeviceResumeInv
<1> QED
  BY <1>1, <1>2, <1>3, <1>4, <1>5 DEF Next

(* ResumeInv holds of an empty outbox.                                          *)
LEMMA InitResumeInv == Init => ResumeInv
BY DEF Init, ResumeInv, RowIds, CursorsBelowSeq, AttachesAhead, SkipFree, Detached

(* ResumeInv and the types hold in every reachable state.                       *)
LEMMA SpecResumeInv == Spec => [](TypeOK /\ ResumeInv)
BY InitTypeOK, InitResumeInv, ResumeInvInductive, PTL DEF Spec

(* Every variable keeps its type, whatever cursor a device sends: the cursor     *)
(* stored in an attachment is a natural number.                                  *)
THEOREM TypeCorrect == Spec => []TypeOK
BY SpecResumeInv, PTL

(* No message is ever skipped: for any number of installs and connections, and   *)
(* for any cursors devices send, no row lies behind the cursor of an attachment. *)
THEOREM NothingSkipped == Spec => []SkipFree
<1>1. ResumeInv => SkipFree
  BY DEF ResumeInv
<1> QED
  BY <1>1, SpecResumeInv, PTL

-------------------------------------------------------------------------------
(* The mailbox.  Posted rows map to posted messages and the outbox to what is    *)
(* kept.  A device takes a message from a frame, and the frame may be old by     *)
(* then; a row is deleted for an acknowledgement or a resume cursor that has     *)
(* been under way.  MailInv says what these still mean when they arrive: nothing *)
(* older than the message of a frame is kept (SkipFree holds when it is made,    *)
(* and ids only grow), and whatever a cursor covers has been taken.              *)

(* The rows of install i up to cursor have been taken, and no later row will be  *)
(* among them.                                                                   *)
Covered(i, cursor) ==
  /\ cursor <= seq
  /\ \A r \in outbox : r.install = i /\ r.id <= cursor => r.id \in received[i]

(* The id is that of a posted row of install i, and none that is kept is older.  *)
Oldest(i, id) ==
  /\ \E m \in posted : m.id = id /\ m.install = i
  /\ id <= seq
  /\ \A r \in outbox : r.install = i => r.id >= id

SoundFrame == {f \in ServerFrame : f.type = "message" => Oldest(f.install, f.id)}

FoundedFrame ==
  {f \in ClientFrame : /\ f.type = "attach" => Covered(f.install, f.cursor)
                       /\ f.type = "ack" => f.id \in received[f.install]}

RowsPosted == outbox \subseteq posted /\ \A m \in posted : m.id \in 1..seq

TakenCovered == \A i \in Installs : \A id \in received[i] : Covered(i, id)

FramesSound ==
  \A c \in Conns :
    /\ batch[c] \in Seq(SoundFrame)
    /\ down[c] \in Seq(SoundFrame)
    /\ up[c] \in Seq(FoundedFrame)

AttachesCovered ==
  \A c \in Conns :
    pc[c] \in {"attach_max", "attach_through"} => Covered(req[c].install, req[c].cursor)

MailInv == RowsPosted /\ TakenCovered /\ FramesSound /\ AttachesCovered

(* What every step does to the data the frames speak of.                         *)
Onward ==
  /\ seq <= seq'
  /\ posted \subseteq posted'
  /\ \A r \in outbox' : r \in outbox \/ r.id > seq
  /\ \A i \in Installs : received[i] \subseteq received'[i]

(* The numbers MailInv compares are numbers.                                     *)
LEMMA Numbers ==
  ASSUME TypeOK
  PROVE  /\ seq \in Nat
         /\ \A r \in outbox : r.id \in Nat /\ r.install \in Installs
         /\ \A i \in Installs : \A id \in received[i] : id \in Nat
         /\ \A f \in ServerFrame : f.type = "message" => f.id \in Nat /\ f.install \in Installs
         /\ \A f \in ClientFrame : f.type = "attach" => f.cursor \in Int /\ f.install \in Installs
BY DEF TypeOK, Row, ServerFrame, ClientFrame

(* A sequence over a set is one over every larger set.                           *)
LEMMA SeqGrows ==
  ASSUME NEW S, NEW T, S \subseteq T
  PROVE  Seq(S) \subseteq Seq(T)
OBVIOUS

(* What was covered, sound or founded remains so.                                *)
LEMMA OnwardKeeps ==
  ASSUME TypeOK, TypeOK', Onward
  PROVE  /\ \A i \in Installs, cursor \in Int : Covered(i, cursor) => Covered(i, cursor)'
         /\ Seq(SoundFrame) \subseteq Seq(SoundFrame)'
         /\ Seq(FoundedFrame) \subseteq Seq(FoundedFrame)'
<1>1. ASSUME NEW i \in Installs, NEW cursor \in Int, Covered(i, cursor)
      PROVE  Covered(i, cursor)'
  <2>1. seq \in Nat /\ seq' \in Nat /\ \A r \in outbox' : r.id \in Nat
    BY DEF TypeOK, Row
  <2> QED
    BY <1>1, <2>1 DEF Covered, Onward
<1>2. SoundFrame \subseteq SoundFrame'
  <2> SUFFICES ASSUME NEW f \in ServerFrame, f.type = "message", Oldest(f.install, f.id)
               PROVE  Oldest(f.install, f.id)'
    BY DEF SoundFrame
  <2>1. seq \in Nat /\ f.id \in Nat
    BY Numbers
  <2>2. seq' \in Nat /\ \A r \in outbox' : r.id \in Nat
    BY DEF TypeOK, Row
  <2> QED
    BY <2>1, <2>2 DEF Oldest, Onward
<1>3. FoundedFrame \subseteq FoundedFrame'
  <2> SUFFICES ASSUME NEW f \in FoundedFrame
               PROVE  f \in FoundedFrame'
    OBVIOUS
  <2>1. f \in ClientFrame
    BY DEF FoundedFrame
  <2>2. f.type = "attach" => Covered(f.install, f.cursor)'
    BY <1>1, <2>1, Numbers DEF FoundedFrame
  <2>3. f.type = "ack" => f.id \in received'[f.install]
    BY <2>1 DEF FoundedFrame, ClientFrame, Onward
  <2> QED
    BY <2>1, <2>2, <2>3 DEF FoundedFrame
<1>4. Seq(SoundFrame) \subseteq Seq(SoundFrame')
  BY <1>2, SeqGrows
<1>5. Seq(FoundedFrame) \subseteq Seq(FoundedFrame')
  BY <1>3, SeqGrows
<1> QED
  BY <1>1, <1>4, <1>5

(* Every step moves on.                                                          *)
LEMMA NextOnward ==
  ASSUME TypeOK, [Next]_vars
  PROVE  Onward
<1> USE DEF Onward
<1>1. seq \in Nat
  BY DEF TypeOK
<1>2. ASSUME outbox' \subseteq outbox, UNCHANGED <<seq, posted, received>> PROVE Onward
  BY <1>1, <1>2
<1>3. CASE UNCHANGED vars
  BY <1>2, <1>3 DEF vars, store, device
<1>4. CASE Producers
  <2>1. ASSUME NEW i \in Installs, NEW a \in Apps, Enqueue(i, a) PROVE Onward
    BY <1>1, <2>1 DEF Enqueue, NextId, device
  <2>2. ASSUME NEW i \in Installs, NEW a \in Apps, Unregister(i, a) PROVE Onward
    BY <1>2, <2>2 DEF Unregister, device
  <2>3. ASSUME NEW row \in waking, HubWake(row) \/ AbortProducer(row) PROVE Onward
    BY <1>2, <2>3 DEF HubWake, AbortProducer, store, device
  <2> QED
    BY <1>4, <2>1, <2>2, <2>3 DEF Producers
<1>5. CASE Crash
  BY <1>2, <1>5 DEF Crash, store, device
<1>6. ASSUME NEW c \in Conns, Connection(c) PROVE Onward
  <2>1. ASSUME Polling(c) \/ Attaching(c) PROVE Onward
    BY <1>2, <2>1 DEF Polling, SendBatch, PollInstall, Attaching, ReadMaxOutboxId,
                      AckSocketThrough, FinishAttach, store, device
  <2>2. ASSUME Reading(c) PROVE Onward
    BY <1>2, <2>2 DEF Reading, ReceiveAttach, ReceiveDetach, ReceiveAck, store, device
  <2>3. ASSUME Notified(c) \/ Heartbeat(c) PROVE Onward
    BY <1>2, <2>3 DEF Notified, OnWake, OnReplaced, Heartbeat, store, device
  <2>4. ASSUME CloseBroken(c) \/ CloseOnError(c) PROVE Onward
    BY <1>2, <2>4 DEF CloseBroken, CloseOnError, Shutdown, store, device
  <2> QED
    BY <1>6, <2>1, <2>2, <2>3, <2>4 DEF Connection
<1>7. ASSUME NEW c \in Conns, Device(c) PROVE Onward
  <2>1. ASSUME DeviceReads(c) PROVE Onward
    <3>1. UNCHANGED <<seq, posted, outbox>>
      BY <2>1 DEF DeviceReads, store
    <3>2. \A i \in Installs : received[i] \subseteq received'[i]
      <4>1. CASE UNCHANGED received
        BY <4>1
      <4>2. ASSUME NEW j, NEW id, received' = [received EXCEPT ![j] = @ \cup {id}]
            PROVE  \A i \in Installs : received[i] \subseteq received'[i]
        BY <4>2 DEF TypeOK
      <4> QED
        BY <2>1, <4>1, <4>2 DEF DeviceReads
    <3> QED
      BY <1>1, <3>1, <3>2
  <2>2. ASSUME ~DeviceReads(c) PROVE Onward
    BY <1>2, <1>7, <2>2 DEF Device, Connect, DeviceSeesClose, LinkBreaks, DeviceAttaches,
                            DeviceMisbehaves, store, device
  <2> QED
    BY <2>1, <2>2
<1> QED
  BY <1>3, <1>4, <1>5, <1>6, <1>7 DEF Next

(* What a step other than a device reading a message has to show.                *)
LEMMA StepKeepsMailInv ==
  ASSUME TypeOK, TypeOK', MailInv, Onward, RowsPosted', UNCHANGED received,
         \A c \in Conns : batch'[c] \in Seq(SoundFrame),
         \A c \in Conns : down'[c] \in Seq(SoundFrame),
         \A c \in Conns : up'[c] \in Seq(FoundedFrame),
         \A c \in Conns : pc'[c] \in {"attach_max", "attach_through"}
                            => Covered(req'[c].install, req'[c].cursor)
  PROVE  MailInv'
<1>1. TakenCovered'
  <2>1. \A i \in Installs : \A id \in received[i] : id \in Int
    BY DEF TypeOK
  <2> QED
    BY <2>1, OnwardKeeps DEF MailInv, TakenCovered
<1>2. FramesSound'
  BY OnwardKeeps DEF FramesSound
<1>3. AttachesCovered'
  <2>1. \A c \in Conns : req'[c].install \in Installs /\ req'[c].cursor \in Int
    BY DEF TypeOK
  <2>2. ASSUME NEW c \in Conns, pc'[c] \in {"attach_max", "attach_through"}
        PROVE  Covered(req[c].install, req[c].cursor)'
    <3> DEFINE i == req'[c].install
               n == req'[c].cursor
    <3>1. i \in Installs /\ n \in Int /\ Covered(i, n)
      BY <2>1, <2>2
    <3>2. seq \in Nat /\ seq' \in Nat /\ \A r \in outbox' : r.id \in Nat
      BY DEF TypeOK, Row
    <3> QED
      BY <3>1, <3>2 DEF Covered, Onward
  <2> QED
    BY <2>2 DEF AttachesCovered
<1> QED
  BY <1>1, <1>2, <1>3 DEF MailInv

(* Rows that leave are rows that were posted.                                    *)
LEMMA RowsStayPosted ==
  ASSUME MailInv, outbox' \subseteq outbox, UNCHANGED <<posted, seq>>
  PROVE  RowsPosted'
BY DEF MailInv, RowsPosted

(* A step that leaves the frames and the attaches under way alone.               *)
LEMMA QuietMailInv ==
  ASSUME TypeOK, TypeOK', MailInv, Onward, RowsPosted',
         UNCHANGED <<received, batch, down, up, pc, req>>
  PROVE  MailInv'
<1>1. \A c \in Conns : /\ batch'[c] \in Seq(SoundFrame)
                       /\ down'[c] \in Seq(SoundFrame)
                       /\ up'[c] \in Seq(FoundedFrame)
  BY DEF MailInv, FramesSound
<1>2. \A c \in Conns : pc'[c] \in {"attach_max", "attach_through"}
                         => Covered(req'[c].install, req'[c].cursor)
  BY DEF MailInv, AttachesCovered
<1> QED
  BY <1>1, <1>2, StepKeepsMailInv

(* Sound frames that are sent are sound where they arrive.                       *)
LEMMA SendSound ==
  ASSUME TypeOK, MailInv, NEW c \in Conns, NEW frames \in Seq(SoundFrame), Send(c, frames)
  PROVE  \A d \in Conns : down'[d] \in Seq(SoundFrame)
<1>1. \A d \in Conns : down[d] \in Seq(SoundFrame)
  BY DEF MailInv, FramesSound
<1>2. CASE ~link[c]
  BY <1>1, <1>2 DEF Send
<1>3. CASE link[c]
  <2>1. down[c] \o frames \in Seq(SoundFrame)
    BY <1>1
  <2> QED
    BY <1>1, <1>3, <2>1 DEF Send, TypeOK
<1> QED
  BY <1>2, <1>3

(* A notice is sound: it is no message.                                          *)
LEMMA NoticeSound ==
  ASSUME NEW i \in Installs, NEW type \in {"attached", "detached", "attach_error"}
  PROVE  <<Notice(type, i)>> \in Seq(SoundFrame)
<1>1. Notice(type, i) \in ServerFrame /\ Notice(type, i).type # "message"
  BY DEF Notice, ServerFrame
<1>2. Notice(type, i) \in SoundFrame
  BY <1>1 DEF SoundFrame
<1> QED
  BY <1>2

(* The answer to a detach is sound.                                              *)
LEMMA DetachAnswerSound ==
  ASSUME NEW c, NEW i \in Installs
  PROVE  DetachAnswer(c, i) \in Seq(SoundFrame)
BY NoticeSound DEF DetachAnswer

(* A frame that is read was founded, and the others stay so.                     *)
LEMMA ReadsFounded ==
  ASSUME TypeOK, MailInv, NEW c \in Conns, NEW type, Reads(c, type)
  PROVE  /\ Head(up[c]) \in FoundedFrame
         /\ \A d \in Conns : up'[d] \in Seq(FoundedFrame)
<1>1. up[c] \in Seq(FoundedFrame) /\ up[c] # <<>>
  BY DEF MailInv, FramesSound, Reads
<1>2. Head(up[c]) \in FoundedFrame /\ Tail(up[c]) \in Seq(FoundedFrame)
  BY <1>1
<1> QED
  BY <1>2 DEF MailInv, FramesSound, TypeOK, Reads

(* Producers: a new row is posted with the largest id.                           *)
LEMMA ProducersMailInv ==
  ASSUME TypeOK, TypeOK', MailInv, Onward, Producers
  PROVE  MailInv'
<1>1. ASSUME NEW i \in Installs, NEW a \in Apps, Enqueue(i, a) PROVE MailInv'
  <2> DEFINE row == [id |-> seq + 1, install |-> i, app |-> a]
  <2>1. /\ outbox' = outbox \cup {row} /\ posted' = posted \cup {row} /\ seq' = seq + 1
        /\ UNCHANGED <<received, batch, down, up, pc, req>>
    BY <1>1 DEF Enqueue, NextId, task, wire, device
  <2>2. RowsPosted'
    <3>1. seq \in Nat /\ row.id = seq + 1
      BY DEF TypeOK
    <3>2. \A m \in posted : m.id \in 1..seq
      BY DEF MailInv, RowsPosted
    <3>3. \A m \in posted' : m.id \in 1..seq'
      BY <2>1, <3>1, <3>2
    <3> QED
      BY <2>1, <3>3 DEF MailInv, RowsPosted
  <2> QED
    BY <2>1, <2>2, QuietMailInv
<1>2. ASSUME NEW i \in Installs, NEW a \in Apps, Unregister(i, a) PROVE MailInv'
  <2>1. outbox' \subseteq outbox /\ UNCHANGED <<posted, seq, received, batch, down, up, pc, req>>
    BY <1>2 DEF Unregister, task, wire, device
  <2> QED
    BY <2>1, RowsStayPosted, QuietMailInv
<1>3. ASSUME NEW row \in waking, HubWake(row) \/ AbortProducer(row) PROVE MailInv'
  <2>1. UNCHANGED <<outbox, posted, seq, received, batch, down, up, pc, req>>
    BY <1>3 DEF HubWake, AbortProducer, store, task, wire, device
  <2> QED
    BY <2>1, RowsStayPosted, QuietMailInv
<1> QED
  BY <1>1, <1>2, <1>3 DEF Producers

(* next_socket_message selects the oldest row that is kept, because no row is    *)
(* behind the cursor.                                                            *)
LEMMA PollingMailInv ==
  ASSUME TypeOK, TypeOK', ResumeInv, MailInv, Onward, NEW c \in Conns, Polling(c)
  PROVE  MailInv'
<1>1. \A d \in Conns : /\ batch[d] \in Seq(SoundFrame)
                       /\ down[d] \in Seq(SoundFrame)
                       /\ up[d] \in Seq(FoundedFrame)
  BY DEF MailInv, FramesSound
<1>2. ASSUME SendBatch(c) PROVE MailInv'
  <2>1. /\ UNCHANGED <<outbox, posted, seq, received, up, req>>
        /\ Send(c, batch[c])
        /\ batch' = [batch EXCEPT ![c] = <<>>] /\ pc' = [pc EXCEPT ![c] = "select"]
    BY <1>2 DEF SendBatch, store, device
  <2>2. \A d \in Conns : down'[d] \in Seq(SoundFrame)
    BY <1>1, <2>1, SendSound
  <2>3. \A d \in Conns : batch'[d] \in Seq(SoundFrame)
    BY <1>1, <2>1 DEF TypeOK
  <2>4. \A d \in Conns : pc'[d] \in {"attach_max", "attach_through"}
                           => Covered(req'[d].install, req'[d].cursor)
    BY <2>1 DEF MailInv, AttachesCovered, TypeOK
  <2> QED
    BY <1>1, <2>1, <2>2, <2>3, <2>4, RowsStayPosted, StepKeepsMailInv
<1>3. ASSUME NEW i \in Installs, PollInstall(c, i) PROVE MailInv'
  <2>1. UNCHANGED <<outbox, posted, seq, received, up, down, req, pc>>
    BY <1>3 DEF PollInstall, store, wire, device
  <2>2. CASE UNCHANGED batch
    BY <2>1, <2>2, RowsStayPosted, QuietMailInv
  <2>3. ASSUME att[c][i].state = "ready", NEW r \in outbox, IsNextMessage(r, i, att[c][i].at),
               batch' = [batch EXCEPT ![c] =
                 Append(@, [type |-> "message", install |-> i, id |-> r.id])]
        PROVE  MailInv'
    <3> DEFINE f == [type |-> "message", install |-> i, id |-> r.id]
    <3>1. \A s \in outbox : s.install = i => s.id >= r.id
      <4>1. \A s \in outbox : s.install = i => s \in Pending(i, att[c][i].at)
        BY <2>3 DEF ResumeInv, SkipFree, Pending
      <4> QED
        BY <2>3, <4>1, Numbers DEF IsNextMessage
    <3>2. r \in posted /\ r.id \in 1..seq /\ r.install = i
      BY <2>3 DEF MailInv, RowsPosted, IsNextMessage, Pending
    <3>3. Oldest(i, r.id)
      BY <3>1, <3>2, Numbers DEF Oldest
    <3>4. f \in SoundFrame
      BY <3>2, <3>3, Numbers DEF SoundFrame, ServerFrame
    <3>5. \A d \in Conns : batch'[d] \in Seq(SoundFrame)
      BY <1>1, <2>3, <3>4 DEF TypeOK
    <3>6. \A d \in Conns : pc'[d] \in {"attach_max", "attach_through"}
                             => Covered(req'[d].install, req'[d].cursor)
      BY <2>1 DEF MailInv, AttachesCovered
    <3> QED
      BY <1>1, <2>1, <3>5, <3>6, RowsStayPosted, StepKeepsMailInv
  <2> QED
    BY <1>3, <2>2, <2>3 DEF PollInstall
<1> QED
  BY <1>2, <1>3 DEF Polling

(* A clamped cursor covers no more than the cursor that was sent.                *)
LEMMA AttachingMailInv ==
  ASSUME TypeOK, TypeOK', ResumeInv, MailInv, Onward, NEW c \in Conns, Attaching(c)
  PROVE  MailInv'
<1>1. \A d \in Conns : /\ batch[d] \in Seq(SoundFrame)
                       /\ down[d] \in Seq(SoundFrame)
                       /\ up[d] \in Seq(FoundedFrame)
  BY DEF MailInv, FramesSound
<1>2. \A d \in Conns : pc[d] \in {"attach_max", "attach_through"}
                         => Covered(req[d].install, req[d].cursor)
  BY DEF MailInv, AttachesCovered
<1>3. ASSUME ReadMaxOutboxId(c) PROVE MailInv'
  <2>1. /\ UNCHANGED <<outbox, posted, seq, received, batch, down, up>>
        /\ pc[c] = "attach_max" /\ pc' = [pc EXCEPT ![c] = "attach_through"]
    BY <1>3 DEF ReadMaxOutboxId, store, wire, device
  <2>2. PICK m \in {0} \cup {r.id : r \in outbox} :
          /\ IsMaxOutboxId(m)
          /\ req' = [req EXCEPT ![c] = [install |-> @.install, cursor |-> Clamp(@.cursor, m)]]
    BY <1>3 DEF ReadMaxOutboxId
  <2>3. /\ req'[c] = [install |-> req[c].install, cursor |-> Clamp(req[c].cursor, m)]
        /\ \A d \in Conns \ {c} : req'[d] = req[d] /\ pc'[d] = pc[d]
    BY <2>1, <2>2 DEF TypeOK
  <2>4. Covered(req[c].install, Clamp(req[c].cursor, m))
    <3>1. \A r \in outbox : r.id \in 1..seq
      BY DEF ResumeInv, RowIds
    <3>2. seq \in Nat /\ m \in 0..seq /\ req[c].cursor \in Int
      BY <3>1 DEF TypeOK
    <3>3. Covered(req[c].install, req[c].cursor)
      BY <1>2, <2>1
    <3>4. CASE req[c].cursor < 0
      BY <3>1, <3>2, <3>4 DEF Clamp, Covered
    <3>5. CASE req[c].cursor \in 0..m
      BY <3>2, <3>3, <3>5 DEF Clamp
    <3>6. CASE req[c].cursor > m
      BY <3>1, <3>2, <3>3, <3>6 DEF Clamp, Covered
    <3> QED
      BY <3>2, <3>4, <3>5, <3>6
  <2>5. \A d \in Conns : pc'[d] \in {"attach_max", "attach_through"}
                           => Covered(req'[d].install, req'[d].cursor)
    <3>1. Covered(req'[c].install, req'[c].cursor)
      BY <2>3, <2>4
    <3> QED
      BY <1>2, <2>3, <3>1
  <2> QED
    BY <1>1, <2>1, <2>5, RowsStayPosted, StepKeepsMailInv
<1>4. ASSUME AckSocketThrough(c) PROVE MailInv'
  <2>1. /\ outbox' \subseteq outbox /\ UNCHANGED <<posted, seq, received, batch, down, up, req>>
        /\ pc' = [pc EXCEPT ![c] = "attach_hub"]
    BY <1>4 DEF AckSocketThrough, wire, device
  <2>2. \A d \in Conns : pc'[d] \in {"attach_max", "attach_through"}
                           => Covered(req'[d].install, req'[d].cursor)
    BY <1>2, <2>1 DEF TypeOK
  <2> QED
    BY <1>1, <2>1, <2>2, RowsStayPosted, StepKeepsMailInv
<1>5. ASSUME FinishAttach(c) PROVE MailInv'
  <2>1. /\ UNCHANGED <<outbox, posted, seq, received, batch, up>>
        /\ Send(c, <<Notice("attached", req[c].install)>>)
        /\ req' = [req EXCEPT ![c] = NoRequest] /\ pc' = [pc EXCEPT ![c] = "poll"]
    BY <1>5 DEF FinishAttach, LoopAgain, store, device
  <2>2. \A d \in Conns : down'[d] \in Seq(SoundFrame)
    <3>1. req[c].install \in Installs
      BY DEF TypeOK
    <3> QED
      BY <2>1, <3>1, NoticeSound, SendSound
  <2>3. \A d \in Conns : pc'[d] \in {"attach_max", "attach_through"}
                           => Covered(req'[d].install, req'[d].cursor)
    BY <1>2, <2>1 DEF TypeOK
  <2> QED
    BY <1>1, <2>1, <2>2, <2>3, RowsStayPosted, StepKeepsMailInv
<1> QED
  BY <1>3, <1>4, <1>5 DEF Attaching

(* Back at the top of the loop, with sound frames sent and founded ones left.    *)
LEMMA LoopAgainMailInv ==
  ASSUME TypeOK, TypeOK', MailInv, Onward, NEW c \in Conns, LoopAgain(c),
         outbox' \subseteq outbox, UNCHANGED <<posted, seq, received, batch, req>>,
         \A d \in Conns : down'[d] \in Seq(SoundFrame),
         \A d \in Conns : up'[d] \in Seq(FoundedFrame)
  PROVE  MailInv'
<1>1. \A d \in Conns : batch'[d] \in Seq(SoundFrame)
  BY DEF MailInv, FramesSound
<1>2. \A d \in Conns : pc'[d] \in {"attach_max", "attach_through"}
                         => Covered(req'[d].install, req'[d].cursor)
  BY DEF LoopAgain, MailInv, AttachesCovered, TypeOK
<1> QED
  BY <1>1, <1>2, RowsStayPosted, StepKeepsMailInv

(* Frames from the device: an attach that is read has a cursor that covers only  *)
(* what was taken.                                                               *)
LEMMA ReadingMailInv ==
  ASSUME TypeOK, TypeOK', MailInv, Onward, NEW c \in Conns, Reading(c)
  PROVE  MailInv'
<1> DEFINE i == Head(up[c]).install
<1>1. i \in Installs
  BY ReadsType DEF Reading, ReceiveAttach, ReceiveDetach, ReceiveAck
<1>2. \A d \in Conns : batch[d] \in Seq(SoundFrame) /\ down[d] \in Seq(SoundFrame)
  BY DEF MailInv, FramesSound
<1>3. /\ Head(up[c]) \in FoundedFrame
      /\ \A d \in Conns : up'[d] \in Seq(FoundedFrame)
  BY ReadsFounded DEF Reading, ReceiveAttach, ReceiveDetach, ReceiveAck
<1>4. ASSUME ReceiveAttach(c) PROVE MailInv'
  <2>1. Head(up[c]).type = "attach" /\ UNCHANGED <<outbox, posted, seq, received, batch>>
    BY <1>4 DEF ReceiveAttach, Reads, store, device
  <2>2. ASSUME req' = [req EXCEPT ![c] = [install |-> i, cursor |-> Head(up[c]).cursor]],
               pc' = [pc EXCEPT ![c] = "attach_max"], UNCHANGED down
        PROVE  MailInv'
    <3>1. Covered(i, Head(up[c]).cursor)
      BY <1>3, <2>1 DEF FoundedFrame
    <3>2. /\ req'[c] = [install |-> i, cursor |-> Head(up[c]).cursor]
          /\ \A d \in Conns \ {c} : req'[d] = req[d] /\ pc'[d] = pc[d]
      BY <2>2 DEF TypeOK
    <3>3. Covered(req'[c].install, req'[c].cursor)
      BY <3>1, <3>2
    <3>4. \A d \in Conns : pc'[d] \in {"attach_max", "attach_through"}
                             => Covered(req'[d].install, req'[d].cursor)
      BY <3>2, <3>3 DEF MailInv, AttachesCovered
    <3> QED
      BY <1>2, <1>3, <2>1, <2>2, <3>4, RowsStayPosted, StepKeepsMailInv
  <2>3. ASSUME Send(c, <<Notice("attach_error", i)>>), UNCHANGED req, LoopAgain(c)
        PROVE  MailInv'
    <3>1. \A d \in Conns : down'[d] \in Seq(SoundFrame)
      BY <1>1, <2>3, NoticeSound, SendSound
    <3> QED
      BY <1>3, <2>1, <2>3, <3>1, LoopAgainMailInv
  <2> QED
    BY <1>4, <2>2, <2>3 DEF ReceiveAttach
<1>5. ASSUME ReceiveDetach(c) PROVE MailInv'
  <2>1. /\ UNCHANGED <<outbox, posted, seq, received, batch, req>>
        /\ LoopAgain(c) /\ Send(c, DetachAnswer(c, i))
    BY <1>5 DEF ReceiveDetach, store, device
  <2>2. \A d \in Conns : down'[d] \in Seq(SoundFrame)
    BY <1>1, <2>1, DetachAnswerSound, SendSound
  <2> QED
    BY <1>3, <2>1, <2>2, LoopAgainMailInv
<1>6. ASSUME ReceiveAck(c) PROVE MailInv'
  <2>1. /\ outbox' \subseteq outbox /\ UNCHANGED <<posted, seq, received, batch, req>>
        /\ LoopAgain(c)
        /\ UNCHANGED down \/ Send(c, <<Notice("detached", i)>>)
    BY <1>6 DEF ReceiveAck, device
  <2>2. \A d \in Conns : down'[d] \in Seq(SoundFrame)
    BY <1>1, <1>2, <2>1, NoticeSound, SendSound
  <2> QED
    BY <1>3, <2>1, <2>2, LoopAgainMailInv
<1> QED
  BY <1>4, <1>5, <1>6 DEF Reading

(* Every step of a connection task.                                              *)
LEMMA ConnectionMailInv ==
  ASSUME TypeOK, TypeOK', ResumeInv, MailInv, Onward, NEW c \in Conns, Connection(c)
  PROVE  MailInv'
<1>1. \A d \in Conns : /\ batch[d] \in Seq(SoundFrame)
                       /\ down[d] \in Seq(SoundFrame)
                       /\ up[d] \in Seq(FoundedFrame)
  BY DEF MailInv, FramesSound
<1>2. ASSUME OnWake(c) \/ Heartbeat(c) PROVE MailInv'
  <2>1. LoopAgain(c) /\ UNCHANGED <<outbox, posted, seq, received, batch, req, down, up>>
    BY <1>2 DEF OnWake, Heartbeat, store, wire, device
  <2> QED
    BY <1>1, <2>1, LoopAgainMailInv
<1>3. ASSUME OnReplaced(c) PROVE MailInv'
  <2> DEFINE i == Head(events[c]).install
  <2>1. /\ LoopAgain(c) /\ UNCHANGED <<outbox, posted, seq, received, batch, req, up>>
        /\ Send(c, DetachAnswer(c, i))
    BY <1>3 DEF OnReplaced, store, device
  <2>2. i \in Installs
    <3>1. Head(events[c]) \in SocketEvent /\ Head(events[c]).type = "replaced"
      BY <1>3, TakesType DEF OnReplaced, Takes
    <3> QED
      BY <3>1 DEF SocketEvent
  <2>3. \A d \in Conns : down'[d] \in Seq(SoundFrame)
    BY <2>1, <2>2, DetachAnswerSound, SendSound
  <2> QED
    BY <1>1, <2>1, <2>3, LoopAgainMailInv
<1>4. ASSUME Shutdown(c) PROVE MailInv'
  <2>1. UNCHANGED <<outbox, posted, seq, received, down>>
    BY <1>4 DEF Shutdown, store, device
  <2>2. \A d \in Conns : batch'[d] \in Seq(SoundFrame) /\ up'[d] \in Seq(FoundedFrame)
    BY <1>1, <1>4 DEF Shutdown, TypeOK
  <2>3. \A d \in Conns : pc'[d] \in {"attach_max", "attach_through"}
                           => Covered(req'[d].install, req'[d].cursor)
    BY <1>4 DEF Shutdown, TypeOK, MailInv, AttachesCovered
  <2> QED
    BY <1>1, <2>1, <2>2, <2>3, RowsStayPosted, StepKeepsMailInv
<1>5. ASSUME CloseBroken(c) \/ CloseOnError(c) PROVE MailInv'
  BY <1>4, <1>5 DEF CloseBroken, CloseOnError
<1> QED
  BY <1>2, <1>3, <1>5, PollingMailInv, AttachingMailInv, ReadingMailInv DEF Connection, Notified

(* A restart leaves what is under way to the devices.                            *)
LEMMA CrashMailInv ==
  ASSUME TypeOK, TypeOK', MailInv, Onward, Crash
  PROVE  MailInv'
<1>1. /\ UNCHANGED <<outbox, posted, seq, received, down>>
      /\ \A c \in Conns : pc'[c] = "closed" /\ batch'[c] = <<>> /\ up'[c] = <<>>
  BY DEF Crash, store, device
<1>2. <<>> \in Seq(SoundFrame) /\ <<>> \in Seq(FoundedFrame)
  OBVIOUS
<1>3. \A c \in Conns : batch'[c] \in Seq(SoundFrame) /\ up'[c] \in Seq(FoundedFrame)
  BY <1>1, <1>2
<1>4. \A c \in Conns : down'[c] \in Seq(SoundFrame)
  BY <1>1 DEF MailInv, FramesSound
<1> QED
  BY <1>1, <1>3, <1>4, RowsStayPosted, StepKeepsMailInv

(* A device that sends a founded frame.                                          *)
LEMMA DeviceSendsFounded ==
  ASSUME TypeOK, MailInv, NEW c \in Conns, NEW f \in FoundedFrame, DeviceSends(c, f)
  PROVE  \A d \in Conns : up'[d] \in Seq(FoundedFrame)
<1>1. \A d \in Conns : up[d] \in Seq(FoundedFrame)
  BY DEF MailInv, FramesSound
<1>2. Append(up[c], f) \in Seq(FoundedFrame)
  BY <1>1
<1> QED
  BY <1>1, <1>2 DEF DeviceSends, TypeOK

(* A cursor that is an id the device has taken, or not positive, covers only     *)
(* what was taken.                                                               *)
LEMMA CursorFounded ==
  ASSUME TypeOK, ResumeInv, MailInv, NEW i \in Installs, NEW cursor \in Int,
         cursor \in received[i] \/ cursor <= 0, NEW proof \in BOOLEAN
  PROVE  [type |-> "attach", install |-> i, cursor |-> cursor, proof |-> proof] \in FoundedFrame
<1> DEFINE f == [type |-> "attach", install |-> i, cursor |-> cursor, proof |-> proof]
<1>1. Covered(i, cursor)
  <2>1. CASE cursor \in received[i]
    BY <2>1 DEF MailInv, TakenCovered
  <2>2. CASE cursor <= 0
    BY <2>2 DEF ResumeInv, RowIds, TypeOK, Covered
  <2> QED
    BY <2>1, <2>2
<1>2. f \in ClientFrame
  BY DEF ClientFrame
<1> QED
  BY <1>1, <1>2 DEF FoundedFrame

(* A message that is read is the oldest that is kept for its device.             *)
LEMMA DeviceReadsMailInv ==
  ASSUME TypeOK, TypeOK', MailInv, Onward, NEW c \in Conns, DeviceReads(c)
  PROVE  MailInv'
<1> DEFINE frame == Head(down[c])
           i == frame.install
<1>1. /\ down[c] # <<>> /\ down' = [down EXCEPT ![c] = Tail(@)]
      /\ UNCHANGED <<outbox, posted, seq, batch, pc, req>>
  BY DEF DeviceReads, store, task
<1>2. \A d \in Conns : /\ batch[d] \in Seq(SoundFrame)
                       /\ down[d] \in Seq(SoundFrame)
                       /\ up[d] \in Seq(FoundedFrame)
  BY DEF MailInv, FramesSound
<1>3. frame \in SoundFrame /\ Tail(down[c]) \in Seq(SoundFrame)
  BY <1>1, <1>2
<1>4. \A d \in Conns : batch'[d] \in Seq(SoundFrame) /\ down'[d] \in Seq(SoundFrame)
  BY <1>1, <1>2, <1>3 DEF TypeOK
<1>5. RowsPosted'
  BY <1>1, RowsStayPosted
<1>6. \A d \in Conns : pc'[d] \in {"attach_max", "attach_through"}
                         => Covered(req'[d].install, req'[d].cursor)
  BY <1>1 DEF MailInv, AttachesCovered
<1>7. CASE frame.type # "message"
  <2>1. UNCHANGED <<received, up>>
    BY <1>7 DEF DeviceReads
  <2> QED
    BY <1>2, <1>4, <1>5, <1>6, <2>1, StepKeepsMailInv
<1>8. CASE frame.type = "message"
  <2> DEFINE id == frame.id
  <2>1. i \in Installs /\ id \in Nat
    BY <1>3, <1>8, Numbers DEF SoundFrame
  <2>2. /\ received' = [received EXCEPT ![i] = @ \cup {id}]
        /\ DeviceSends(c, AckFrame(i, id))
    BY <1>8 DEF DeviceReads
  <2>3. Oldest(i, id)
    BY <1>3, <1>8 DEF SoundFrame
  <2>4. received'[i] = received[i] \cup {id} /\ \A j \in Installs \ {i} : received'[j] = received[j]
    BY <2>1, <2>2 DEF TypeOK
  <2>5. TakenCovered'
    <3>1. ASSUME NEW j \in Installs, NEW n \in received'[j] PROVE Covered(j, n)'
      <4>1. CASE n \in received[j]
        <5>1. n \in Int
          BY <4>1 DEF TypeOK
        <5> QED
          BY <4>1, <5>1, OnwardKeeps DEF MailInv, TakenCovered
      <4>2. CASE n \notin received[j]
        <5>1. j = i /\ n = id
          BY <2>4, <3>1, <4>2
        <5> QED
          BY <1>1, <2>1, <2>3, <2>4, <5>1, Numbers DEF Oldest, Covered
      <4> QED
        BY <4>1, <4>2
    <3> QED
      BY <3>1 DEF TakenCovered
  <2>6. FramesSound'
    <3>1. AckFrame(i, id) \in FoundedFrame'
      BY <2>1, <2>4, AckFrameType DEF FoundedFrame, AckFrame
    <3>2. \A d \in Conns : up[d] \in Seq(FoundedFrame)'
      BY <1>2, OnwardKeeps
    <3>3. Append(up[c], AckFrame(i, id)) \in Seq(FoundedFrame)'
      BY <3>1, <3>2
    <3>4. \A d \in Conns : up'[d] \in Seq(FoundedFrame)'
      BY <2>2, <3>2, <3>3 DEF DeviceSends, TypeOK
    <3> QED
      BY <1>4, <3>4, OnwardKeeps DEF FramesSound
  <2>7. AttachesCovered'
    <3>1. \A d \in Conns : req[d].install \in Installs /\ req[d].cursor \in Int
      BY DEF TypeOK
    <3>2. ASSUME NEW d \in Conns, pc'[d] \in {"attach_max", "attach_through"}
          PROVE  Covered(req[d].install, req[d].cursor)'
      <4>1. Covered(req[d].install, req[d].cursor)
        BY <1>1, <1>6, <3>2
      <4> QED
        BY <1>1, <3>1, <4>1 DEF Covered, Onward
    <3> QED
      BY <3>2 DEF AttachesCovered
  <2> QED
    BY <1>5, <2>5, <2>6, <2>7 DEF MailInv
<1> QED
  BY <1>7, <1>8

(* A device that resumes from what it has taken, or from nothing, keeps MailInv  *)
(* whatever else it sends and wherever its link breaks.                          *)
LEMMA DeviceMailInv ==
  ASSUME \A n \in ForgedCursors : n <= 0,
         TypeOK, TypeOK', ResumeInv, MailInv, Onward, NEW c \in Conns, Device(c)
  PROVE  MailInv'
<1>1. \A d \in Conns : /\ batch[d] \in Seq(SoundFrame)
                       /\ down[d] \in Seq(SoundFrame)
                       /\ up[d] \in Seq(FoundedFrame)
  BY DEF MailInv, FramesSound
<1>2. \A d \in Conns : pc[d] \in {"attach_max", "attach_through"}
                         => Covered(req[d].install, req[d].cursor)
  BY DEF MailInv, AttachesCovered
<1>3. ASSUME DeviceReads(c) PROVE MailInv'
  BY <1>3, DeviceReadsMailInv
<1>4. ASSUME Connect(c) PROVE MailInv'
  <2>1. /\ UNCHANGED <<outbox, posted, seq, received, batch, down, up, req>>
        /\ pc' = [pc EXCEPT ![c] = "poll"]
    BY <1>4 DEF Connect, store, wire
  <2>2. \A d \in Conns : pc'[d] \in {"attach_max", "attach_through"}
                           => Covered(req'[d].install, req'[d].cursor)
    BY <1>2, <2>1 DEF TypeOK
  <2> QED
    BY <1>1, <2>1, <2>2, RowsStayPosted, StepKeepsMailInv
<1>5. ASSUME DeviceSeesClose(c) PROVE MailInv'
  <2>1. UNCHANGED <<outbox, posted, seq, received, batch, down, up, pc, req>>
    BY <1>5 DEF DeviceSeesClose, store, wire, task
  <2> QED
    BY <2>1, RowsStayPosted, QuietMailInv
<1>6. ASSUME LinkBreaks(c) PROVE MailInv'
  <2>1. /\ UNCHANGED <<outbox, posted, seq, received, batch, pc, req>>
        /\ down' = [down EXCEPT ![c] = <<>>]
    BY <1>6 DEF LinkBreaks, store, task
  <2>2. \A d \in Conns : down'[d] \in Seq(SoundFrame)
    BY <1>1, <2>1 DEF TypeOK
  <2>3. \A d \in Conns : up'[d] \in Seq(FoundedFrame)
    <3>1. PICK n \in 0..Len(up[c]) : up' = [up EXCEPT ![c] = SubSeq(@, 1, n)]
      BY <1>6 DEF LinkBreaks
    <3>2. SubSeq(up[c], 1, n) \in Seq(FoundedFrame)
      BY <1>1
    <3> QED
      BY <1>1, <3>1, <3>2 DEF TypeOK
  <2> QED
    BY <1>1, <1>2, <2>1, <2>2, <2>3, RowsStayPosted, StepKeepsMailInv
<1>7. ASSUME NEW f \in FoundedFrame, DeviceSends(c, f),
             UNCHANGED <<outbox, posted, seq, received, batch, down, pc, req>>
      PROVE  MailInv'
  BY <1>1, <1>2, <1>7, DeviceSendsFounded, RowsStayPosted, StepKeepsMailInv
<1>8. ASSUME NEW i \in Installs, DeviceAttaches(c, i) PROVE MailInv'
  <2>1. UNCHANGED <<outbox, posted, seq, received, batch, down, pc, req>>
    BY <1>8 DEF DeviceAttaches, store, task
  <2>2. PICK cursor \in {0} \cup received[i] : SendAttach(c, i, cursor, TRUE)
    BY <1>8 DEF DeviceAttaches
  <2>3. cursor \in Int /\ (cursor \in received[i] \/ cursor <= 0) /\ TRUE \in BOOLEAN
    BY DEF TypeOK
  <2> QED
    BY <1>7, <2>1, <2>2, <2>3, CursorFounded DEF SendAttach
<1>9. ASSUME NEW i \in Installs, DeviceMisbehaves(c, i) PROVE MailInv'
  <2>1. UNCHANGED <<outbox, posted, seq, received, batch, down, pc, req>>
    BY <1>9 DEF DeviceMisbehaves, store, task
  <2>2. ASSUME NEW cursor \in Cursors(i), SendAttach(c, i, cursor, TRUE) PROVE MailInv'
    <3>1. cursor \in Int /\ (cursor \in received[i] \/ cursor <= 0) /\ TRUE \in BOOLEAN
      BY DEF Cursors, TypeOK
    <3> QED
      BY <1>7, <2>1, <2>2, <3>1, CursorFounded DEF SendAttach
  <2>3. ASSUME SendAttach(c, i, 0, FALSE) PROVE MailInv'
    <3>1. 0 \in Int /\ 0 <= 0 /\ FALSE \in BOOLEAN
      OBVIOUS
    <3> QED
      BY <1>7, <2>1, <2>3, <3>1, CursorFounded DEF SendAttach
  <2>4. ASSUME DeviceSends(c, [type |-> "detach", install |-> i]) PROVE MailInv'
    <3>1. [type |-> "detach", install |-> i] \in FoundedFrame
      BY DEF FoundedFrame, ClientFrame
    <3> QED
      BY <1>7, <2>1, <2>4, <3>1
  <2>5. ASSUME NEW id \in received[i], DeviceSends(c, AckFrame(i, id)) PROVE MailInv'
    <3>1. id \in Nat
      BY DEF TypeOK
    <3>2. AckFrame(i, id) \in FoundedFrame
      BY <3>1, AckFrameType DEF FoundedFrame, AckFrame
    <3> QED
      BY <1>7, <2>1, <2>5, <3>2
  <2> QED
    BY <1>9, <2>2, <2>3, <2>4, <2>5 DEF DeviceMisbehaves
<1> QED
  BY <1>3, <1>4, <1>5, <1>6, <1>8, <1>9 DEF Device

(* MailInv is inductive, given ResumeInv and devices that forge no cursor above  *)
(* zero.                                                                         *)
LEMMA MailInvInductive ==
  ASSUME \A n \in ForgedCursors : n <= 0
  PROVE  TypeOK /\ ResumeInv /\ MailInv /\ TypeOK' /\ [Next]_vars => MailInv'
<1> SUFFICES ASSUME TypeOK, ResumeInv, MailInv, TypeOK', [Next]_vars PROVE MailInv'
  OBVIOUS
<1>1. Onward
  BY NextOnward
<1>2. CASE UNCHANGED vars
  <2>1. UNCHANGED <<outbox, posted, seq, received, batch, down, up, pc, req>>
    BY <1>2 DEF vars, store, task, wire, device
  <2> QED
    BY <1>1, <2>1, RowsStayPosted, QuietMailInv
<1>3. CASE Producers
  BY <1>1, <1>3, ProducersMailInv
<1>4. CASE Crash
  BY <1>1, <1>4, CrashMailInv
<1>5. ASSUME NEW c \in Conns, Connection(c) PROVE MailInv'
  BY <1>1, <1>5, ConnectionMailInv
<1>6. ASSUME NEW c \in Conns, Device(c) PROVE MailInv'
  BY <1>1, <1>6, DeviceMailInv
<1> QED
  BY <1>2, <1>3, <1>4, <1>5, <1>6 DEF Next

(* MailInv holds of an empty mailbox.                                            *)
LEMMA InitMailInv == Init => MailInv
<1> SUFFICES ASSUME Init PROVE MailInv
  OBVIOUS
<1>1. RowsPosted /\ TakenCovered /\ AttachesCovered
  BY DEF Init, RowsPosted, TakenCovered, AttachesCovered
<1>2. <<>> \in Seq(SoundFrame) /\ <<>> \in Seq(FoundedFrame)
  OBVIOUS
<1>3. FramesSound
  BY <1>2 DEF Init, FramesSound
<1> QED
  BY <1>1, <1>3 DEF MailInv

(* A step that deletes only what the device of one install has taken is a Settle *)
(* of the mailbox.                                                               *)
LEMMA SettleStep ==
  ASSUME NEW i \in Installs, NEW gone, outbox' = outbox \ gone,
         \A r \in outbox : r \in gone => r.install = i /\ r.id \in received[i],
         UNCHANGED <<posted, dropped, received>>
  PROVE  Mail!Next
<1> DEFINE settled == outbox \cap gone
<1>1. settled \in SUBSET {m \in outbox : m.install = i /\ m.id \in received[i]}
  OBVIOUS
<1>2. outbox' = outbox \ settled
  OBVIOUS
<1>3. Mail!Settle(i)
  BY <1>1, <1>2 DEF Mail!Settle
<1> QED
  BY <1>3 DEF Mail!Next

(* Every step of socket delivery is a step of the mailbox or none.               *)
LEMMA MailboxStep == TypeOK /\ ResumeInv /\ MailInv /\ TypeOK' /\ [Next]_vars => [Mail!Next]_Mail!vars
<1> SUFFICES ASSUME TypeOK, ResumeInv, MailInv, TypeOK', [Next]_vars PROVE [Mail!Next]_Mail!vars
  OBVIOUS
<1>1. ASSUME UNCHANGED <<posted, outbox, dropped, received>> PROVE [Mail!Next]_Mail!vars
  BY <1>1 DEF Mail!vars
<1>2. CASE UNCHANGED vars
  BY <1>1, <1>2 DEF vars, store, device
<1>3. CASE Producers
  <2>1. ASSUME NEW i \in Installs, NEW a \in Apps, Enqueue(i, a) PROVE Mail!Next
    <3> DEFINE row == [id |-> seq + 1, install |-> i, app |-> a]
    <3>1. /\ outbox' = outbox \cup {row} /\ posted' = posted \cup {row}
          /\ UNCHANGED <<dropped, received>> /\ seq < MaxId
      BY <2>1 DEF Enqueue, NextId, device
    <3>2. seq \in Nat /\ seq + 1 \in 1..MaxId /\ row.id = seq + 1
      <4>1. seq \in 0..MaxId /\ MaxId \in Nat /\ seq < MaxId
        BY <3>1, BoundAssumption DEF TypeOK
      <4> QED
        BY <4>1
    <3>3. \A n \in posted : n.id < row.id
      BY <3>2 DEF MailInv, RowsPosted
    <3>4. row \in Mail!Message
      BY <3>2 DEF Mail!Message
    <3>5. Mail!Post(row)
      BY <3>1, <3>3 DEF Mail!Post
    <3> QED
      BY <3>4, <3>5 DEF Mail!Next
  <2>2. ASSUME NEW i \in Installs, NEW a \in Apps, Unregister(i, a) PROVE Mail!Next
    <3>1. Mail!Unregister(i, a)
      BY <2>2 DEF Unregister, RowsOf, Mail!Unregister, device
    <3> QED
      BY <3>1 DEF Mail!Next
  <2>3. ASSUME NEW row \in waking, HubWake(row) \/ AbortProducer(row)
        PROVE  [Mail!Next]_Mail!vars
    BY <1>1, <2>3 DEF HubWake, AbortProducer, store, device
  <2> QED
    BY <1>3, <2>1, <2>2, <2>3 DEF Producers
<1>4. CASE Crash
  BY <1>1, <1>4 DEF Crash, store, device
<1>5. ASSUME NEW c \in Conns, Connection(c) PROVE [Mail!Next]_Mail!vars
  <2>1. ASSUME Polling(c) PROVE [Mail!Next]_Mail!vars
    BY <1>1, <2>1 DEF Polling, SendBatch, PollInstall, store, device
  <2>2. ASSUME ReadMaxOutboxId(c) \/ FinishAttach(c) PROVE [Mail!Next]_Mail!vars
    BY <1>1, <2>2 DEF ReadMaxOutboxId, FinishAttach, store, device
  <2>3. ASSUME AckSocketThrough(c) PROVE Mail!Next
    <3> DEFINE i == req[c].install
    <3>1. i \in Installs /\ Covered(i, req[c].cursor)
      BY <2>3 DEF AckSocketThrough, TypeOK, MailInv, AttachesCovered
    <3>2. \A r \in outbox : r \in Through(i, req[c].cursor) => r.install = i /\ r.id \in received[i]
      BY <3>1 DEF Through, Covered
    <3>3. outbox' = outbox \ Through(i, req[c].cursor) /\ UNCHANGED <<posted, dropped, received>>
      BY <2>3 DEF AckSocketThrough, device
    <3> QED
      BY <3>1, <3>2, <3>3, SettleStep
  <2>4. ASSUME ReceiveAck(c) PROVE [Mail!Next]_Mail!vars
    <3> DEFINE i == Head(up[c]).install
               id == Head(up[c]).id
    <3>1. UNCHANGED <<posted, dropped, received>>
      BY <2>4 DEF ReceiveAck, device
    <3>2. CASE UNCHANGED outbox
      BY <1>1, <3>1, <3>2
    <3>3. CASE outbox' = outbox \ AckedRow(i, id)
      <4>1. i \in Installs /\ id \in received[i]
        BY <2>4, ReadsType, ReadsFounded DEF ReceiveAck, Reads, FoundedFrame
      <4>2. \A r \in outbox : r \in AckedRow(i, id) => r.install = i /\ r.id \in received[i]
        BY <4>1 DEF AckedRow
      <4> QED
        BY <3>1, <3>3, <4>1, <4>2, SettleStep
    <3> QED
      BY <2>4, <3>2, <3>3 DEF ReceiveAck
  <2>5. ASSUME ReceiveAttach(c) \/ ReceiveDetach(c) \/ Notified(c) \/ Heartbeat(c)
        PROVE  [Mail!Next]_Mail!vars
    BY <1>1, <2>5 DEF ReceiveAttach, ReceiveDetach, Notified, OnWake, OnReplaced, Heartbeat,
                      store, device
  <2>6. ASSUME CloseBroken(c) \/ CloseOnError(c) PROVE [Mail!Next]_Mail!vars
    BY <1>1, <2>6 DEF CloseBroken, CloseOnError, Shutdown, store, device
  <2> QED
    BY <1>5, <2>1, <2>2, <2>3, <2>4, <2>5, <2>6 DEF Connection, Attaching, Reading
<1>6. ASSUME NEW c \in Conns, Device(c) PROVE [Mail!Next]_Mail!vars
  <2>1. ASSUME DeviceReads(c) PROVE [Mail!Next]_Mail!vars
    <3> DEFINE frame == Head(down[c])
               i == frame.install
               id == frame.id
    <3>1. UNCHANGED <<posted, outbox, dropped>>
      BY <2>1 DEF DeviceReads, store
    <3>2. CASE frame.type # "message"
      BY <1>1, <2>1, <3>1, <3>2 DEF DeviceReads
    <3>3. CASE frame.type = "message"
      <4>1. frame \in SoundFrame
        <5>1. down[c] \in Seq(SoundFrame) /\ down[c] # <<>>
          BY <2>1 DEF DeviceReads, MailInv, FramesSound
        <5> QED
          BY <5>1
      <4>2. Oldest(i, id) /\ id \in Nat
        BY <3>3, <4>1, Numbers DEF SoundFrame
      <4>3. PICK m \in posted : m.id = id /\ m.install = i
        BY <4>2 DEF Oldest
      <4>4. \A n \in outbox : ~(n.install = i /\ n.id < id)
        BY <4>2, Numbers DEF Oldest
      <4>5. received' = [received EXCEPT ![i] = @ \cup {id}]
        BY <2>1, <3>3 DEF DeviceReads
      <4>6. Mail!Take(m)
        BY <3>1, <4>3, <4>4, <4>5 DEF Mail!Take
      <4> QED
        BY <4>6 DEF Mail!Next
    <3> QED
      BY <3>2, <3>3
  <2>2. ASSUME ~DeviceReads(c) PROVE [Mail!Next]_Mail!vars
    BY <1>1, <1>6, <2>2 DEF Device, Connect, DeviceSeesClose, LinkBreaks, DeviceAttaches,
                            DeviceMisbehaves, store, device
  <2> QED
    BY <2>1, <2>2
<1> QED
  BY <1>2, <1>3, <1>4, <1>5, <1>6 DEF Next

(* Socket delivery implements the mailbox, for devices that resume from a message *)
(* they have taken or from nothing: they take their messages in order, and a row  *)
(* leaves the outbox only when its device has taken it or its application is      *)
(* gone, however connections end, supersede each other or are restarted.          *)
THEOREM MailboxImplemented ==
  ASSUME \A n \in ForgedCursors : n <= 0
  PROVE  Spec => ImplementsMailbox
<1>1. Init => Mail!Init
  BY DEF Init, Mail!Init
<1>2. TypeOK /\ ResumeInv /\ MailInv /\ TypeOK' /\ [Next]_vars => MailInv'
  BY MailInvInductive
<1> QED
  BY <1>1, <1>2, InitMailInv, SpecResumeInv, MailboxStep, PTL DEF Spec, ImplementsMailbox, Mail!Spec
===============================================================================
