---------------------------- MODULE SocketDelivery ----------------------------
(* Socket delivery of the bridge: the outbox table of db.rs, the SocketHub of   *)
(* socket.rs and the V2Connection tasks of socket_v2.rs, with the device at the  *)
(* other end of every WebSocket.                                                 *)
(*                                                                               *)
(* One action is one uninterrupted piece of a task: what runs between two        *)
(* awaits.  The database executes one statement or transaction at a time, the    *)
(* hub is behind a mutex, and everything else belongs to one connection task.    *)
(* Payload encryption, the hello nonce and the ping frames carry no state the    *)
(* properties look at and are left out.                                          *)
EXTENDS Integers, Sequences

CONSTANTS
  Installs,       (* install ids: the devices that hold an installation secret    *)
  Apps,           (* application ids; a row belongs to one application            *)
  Conns,          (* WebSocket connections that can be open at the same time      *)
  None,           (* the absent hub entry                                         *)
  ForgedCursors,  (* resume cursors a device may send besides ids it has received *)
  MaxId,          (* bound: largest row id the outbox hands out                   *)
  MaxInFlight,    (* bound: the device sends while fewer frames are under way     *)
  MaxFaults       (* bound: crashes, lost links and unhelpful client frames       *)

ASSUME InstallsAssumption == Installs # {}
ASSUME NoneAssumption == None \notin Conns
ASSUME ForgedAssumption == ForgedCursors \subseteq Int
ASSUME BoundAssumption == MaxId \in Nat /\ MaxInFlight \in Nat /\ MaxFaults \in Nat

VARIABLES
  outbox,    (* rows of the outbox table                                          *)
  seq,       (* largest id ever handed out (AUTOINCREMENT), survives a restart    *)
  posted,    (* history: every row ever inserted                                  *)
  dropped,   (* history: rows deleted because their application unregistered      *)
  waking,    (* rows committed whose producer has not called hub.wake yet         *)
  unwoken,   (* history: rows whose producer was aborted before hub.wake          *)
  hub,       (* SocketHub::attachments: the connection that owns each install     *)
  pc,        (* where each connection task stands                                 *)
  todo,      (* installs pending_messages still has to look at                    *)
  batch,     (* frames pending_messages has collected                             *)
  req,       (* the attach being served: its install and cursor                   *)
  att,       (* V2Connection::attachments                                         *)
  events,    (* the unbounded SocketEvent channel of each connection              *)
  up,        (* frames from the device that the connection has not read           *)
  down,      (* frames from the connection that the device has not read           *)
  link,      (* the device's end of the connection is open                        *)
  view,      (* external: what the device thinks of its attachments               *)
  received,  (* external: ids of the messages the device has taken                *)
  faults     (* crashes, lost links and unhelpful client frames so far            *)

store == <<outbox, seq, posted, dropped>>
wakers == <<waking, unwoken>>
task == <<pc, todo, batch, req, att>>
wire == <<up, down>>
device == <<link, view, received>>
vars == <<store, wakers, hub, task, events, wire, device, faults>>

-------------------------------------------------------------------------------
Row == [id: Nat, install: Installs, app: Apps]

(* AttachmentState, with "none" for an install that is not attached.             *)
Attachment == [state: {"none", "ready", "awaiting"}, at: Nat]
Detached == [state |-> "none", at |-> 0]
Ready(cursor) == [state |-> "ready", at |-> cursor]
AwaitingAck(id) == [state |-> "awaiting", at |-> id]

ClientFrame == [type: {"attach"}, install: Installs, cursor: Int, proof: BOOLEAN]
          \cup [type: {"detach"}, install: Installs]
          \cup [type: {"ack"}, install: Installs, id: Nat]
ServerFrame == [type: {"message"}, install: Installs, id: Nat]
          \cup [type: {"attached", "detached", "attach_error"}, install: Installs]
SocketEvent == [type: {"wake"}] \cup [type: {"replaced"}, install: Installs]

(* "poll": in pending_messages; "select": waiting in select!; the three others   *)
(* are the awaits of attach that touch shared state.                             *)
Phase == {"closed", "poll", "select", "attach_max", "attach_through", "attach_hub"}

(* The value of req outside attach.                                              *)
NoRequest == [install |-> CHOOSE i \in Installs : TRUE, cursor |-> 0]

Wake == [type |-> "wake"]
Replaced(i) == [type |-> "replaced", install |-> i]
Notice(type, i) == [type |-> type, install |-> i]

Init ==
  /\ outbox = {}
  /\ seq = 0
  /\ posted = {}
  /\ dropped = {}
  /\ waking = {}
  /\ unwoken = {}
  /\ hub = [i \in Installs |-> None]
  /\ pc = [c \in Conns |-> "closed"]
  /\ todo = [c \in Conns |-> {}]
  /\ batch = [c \in Conns |-> <<>>]
  /\ req = [c \in Conns |-> NoRequest]
  /\ att = [c \in Conns |-> [i \in Installs |-> Detached]]
  /\ events = [c \in Conns |-> <<>>]
  /\ up = [c \in Conns |-> <<>>]
  /\ down = [c \in Conns |-> <<>>]
  /\ link = [c \in Conns |-> FALSE]
  /\ view = [c \in Conns |-> [i \in Installs |-> "no"]]
  /\ received = [i \in Installs |-> {}]
  /\ faults = 0

-------------------------------------------------------------------------------
(* Producers: the FCM listeners and the push endpoint insert a row and then wake *)
(* the connection that owns the install.                                         *)

(* COALESCE(MAX(id), 0) over the rows of every install.                          *)
IsMaxOutboxId(m) ==
  /\ m \in {0} \cup {r.id : r \in outbox}
  /\ \A r \in outbox : r.id <= m

(* Faulty variant of NextId: a rowid without AUTOINCREMENT is reused.            *)
NextIdFromRows == CHOOSE n \in 1..(MaxId + 1) : IsMaxOutboxId(n - 1)

NextId == seq + 1

Enqueue(i, a) ==
  /\ seq < MaxId
  /\ LET row == [id |-> NextId, install |-> i, app |-> a] IN
       /\ outbox' = outbox \cup {row}
       /\ posted' = posted \cup {row}
       /\ waking' = waking \cup {row}
       /\ seq' = NextId
  /\ UNCHANGED <<dropped, unwoken, hub, task, events, wire, device, faults>>

HubWake(row) ==
  /\ row \in waking
  /\ waking' = waking \ {row}
  /\ LET owner == hub[row.install] IN
       events' = IF owner = None THEN events
                 ELSE [events EXCEPT ![owner] = Append(@, Wake)]
  /\ UNCHANGED <<store, unwoken, hub, task, wire, device, faults>>

(* A listener is aborted (its registration changes) after its row is committed.  *)
AbortProducer(row) ==
  /\ row \in waking
  /\ faults < MaxFaults
  /\ faults' = faults + 1
  /\ waking' = waking \ {row}
  /\ unwoken' = unwoken \cup {row}
  /\ UNCHANGED <<store, hub, task, events, wire, device>>

RowsOf(i, a) == {r \in outbox : r.install = i /\ r.app = a}

(* The application unregisters, which deletes the rows it is still owed.         *)
Unregister(i, a) ==
  /\ RowsOf(i, a) # {}
  /\ outbox' = outbox \ RowsOf(i, a)
  /\ dropped' = dropped \cup RowsOf(i, a)
  /\ UNCHANGED <<seq, posted, wakers, hub, task, events, wire, device, faults>>

-------------------------------------------------------------------------------
(* The connection task.                                                          *)

Attached(c) == {i \in Installs : att[c][i] # Detached}

(* Faulty variant of HubDetach: it does not look at the owner.                   *)
HubDetachAnyOwner(c, gone) ==
  hub' = [i \in Installs |-> IF i \in gone THEN None ELSE hub[i]]

(* SocketHub::detach for every install of gone that connection c owns.           *)
HubDetach(c, gone) ==
  hub' = [i \in Installs |-> IF i \in gone /\ hub[i] = c THEN None ELSE hub[i]]

(* Back to the top of the loop of run_socket: pending_messages starts over with  *)
(* the installs attached by then.                                                *)
LoopAgain(c) ==
  /\ pc' = [pc EXCEPT ![c] = "poll"]
  /\ todo' = [todo EXCEPT ![c] = {i \in Installs : att'[c][i] # Detached}]

(* A frame written to a link the device has left goes nowhere.                   *)
Send(c, frames) ==
  down' = IF link[c] THEN [down EXCEPT ![c] = @ \o frames] ELSE down

DetachLocally(c, gone) ==
  att' = [att EXCEPT ![c] = [i \in Installs |-> IF i \in gone THEN Detached ELSE @[i]]]

Pending(i, cursor) == {r \in outbox : r.install = i /\ r.id > cursor}

(* SELECT ... WHERE id > cursor ORDER BY id LIMIT 1.                             *)
IsNextMessage(r, i, cursor) ==
  /\ r \in Pending(i, cursor)
  /\ \A s \in Pending(i, cursor) : r.id <= s.id

(* One turn of the loop in pending_messages.                                     *)
PollInstall(c, i) ==
  /\ pc[c] = "poll"
  /\ i \in todo[c]
  /\ todo' = [todo EXCEPT ![c] = @ \ {i}]
  /\ \/ /\ \/ att[c][i].state # "ready"
           \/ Pending(i, att[c][i].at) = {}
        /\ UNCHANGED <<att, batch>>
     \/ /\ att[c][i].state = "ready"
        /\ \E r \in outbox :
             /\ IsNextMessage(r, i, att[c][i].at)
             /\ att' = [att EXCEPT ![c][i] = AwaitingAck(r.id)]
             /\ batch' = [batch EXCEPT ![c] =
                  Append(@, [type |-> "message", install |-> i, id |-> r.id])]
  /\ UNCHANGED <<store, wakers, hub, pc, req, events, wire, device, faults>>

SendBatch(c) ==
  /\ pc[c] = "poll"
  /\ todo[c] = {}
  /\ Send(c, batch[c])
  /\ batch' = [batch EXCEPT ![c] = <<>>]
  /\ pc' = [pc EXCEPT ![c] = "select"]
  /\ UNCHANGED <<store, wakers, hub, todo, req, att, events, up, device, faults>>

Reads(c, type) ==
  /\ pc[c] = "select"
  /\ up[c] # <<>>
  /\ Head(up[c]).type = type
  /\ up' = [up EXCEPT ![c] = Tail(@)]

(* attach, first part: the secret is read and the proof verified.                *)
ReceiveAttach(c) ==
  /\ Reads(c, "attach")
  /\ LET frame == Head(up[c]) IN
       \/ /\ frame.proof
          /\ req' = [req EXCEPT ![c] = [install |-> frame.install, cursor |-> frame.cursor]]
          /\ pc' = [pc EXCEPT ![c] = "attach_max"]
          /\ UNCHANGED <<todo, att, down>>
       \/ /\ ~frame.proof
          /\ Send(c, <<Notice("attach_error", frame.install)>>)
          /\ UNCHANGED <<req, att>>
          /\ LoopAgain(c)
  /\ UNCHANGED <<store, wakers, hub, batch, events, device, faults>>

(* Faulty variant of Clamp: the lower bound is forgotten.                        *)
ClampAboveOnly(cursor, maximum) == IF cursor > maximum THEN maximum ELSE cursor

Clamp(cursor, maximum) ==
  IF cursor < 0 THEN 0 ELSE IF cursor > maximum THEN maximum ELSE cursor

ReadMaxOutboxId(c) ==
  /\ pc[c] = "attach_max"
  /\ \E m \in {0} \cup {r.id : r \in outbox} :
       /\ IsMaxOutboxId(m)
       /\ req' = [req EXCEPT ![c] = [install |-> @.install, cursor |-> Clamp(@.cursor, m)]]
  /\ pc' = [pc EXCEPT ![c] = "attach_through"]
  /\ UNCHANGED <<store, wakers, hub, todo, batch, att, events, wire, device, faults>>

Through(i, cursor) == {r \in outbox : r.install = i /\ r.id <= cursor}

AckSocketThrough(c) ==
  /\ pc[c] = "attach_through"
  /\ outbox' = outbox \ Through(req[c].install, req[c].cursor)
  /\ pc' = [pc EXCEPT ![c] = "attach_hub"]
  /\ UNCHANGED <<seq, posted, dropped, wakers, hub, todo, batch, req, att, events,
                 wire, device, faults>>

(* Faulty variant of HubAttach: the superseded connection is not told.           *)
HubAttachSilently(i, c) ==
  /\ hub' = [hub EXCEPT ![i] = c]
  /\ UNCHANGED events

(* SocketHub::attach, with the notice to the connection it supersedes.           *)
HubAttach(i, c) ==
  /\ hub' = [hub EXCEPT ![i] = c]
  /\ events' = IF hub[i] \in {None, c} THEN events
               ELSE [events EXCEPT ![hub[i]] = Append(@, Replaced(i))]

(* attach, last part, and the Attached frame that answers it.                    *)
FinishAttach(c) ==
  /\ pc[c] = "attach_hub"
  /\ HubAttach(req[c].install, c)
  /\ att' = [att EXCEPT ![c][req[c].install] = Ready(req[c].cursor)]
  /\ Send(c, <<Notice("attached", req[c].install)>>)
  /\ req' = [req EXCEPT ![c] = NoRequest]
  /\ LoopAgain(c)
  /\ UNCHANGED <<store, wakers, batch, up, device, faults>>

(* Faulty variant of Detach: the hub keeps the entry.                            *)
DetachKeepingHub(c, i) == DetachLocally(c, {i}) /\ UNCHANGED hub

(* V2Connection::detach: the hub is told only if there was an attachment.        *)
Detach(c, i) == DetachLocally(c, {i}) /\ HubDetach(c, {i} \cap Attached(c))

(* Faulty variant of DetachAnswer: the device is not told.                       *)
NoDetachAnswer(c, i) == <<>>

(* The Detached frame that follows a detach that removed something.              *)
DetachAnswer(c, i) == IF i \in Attached(c) THEN <<Notice("detached", i)>> ELSE <<>>

ReceiveDetach(c) ==
  /\ Reads(c, "detach")
  /\ LET i == Head(up[c]).install IN
       /\ Detach(c, i)
       /\ Send(c, DetachAnswer(c, i))
  /\ LoopAgain(c)
  /\ UNCHANGED <<store, wakers, batch, req, events, device, faults>>

(* Faulty variant of AckedRow: every row of the install is deleted.              *)
AckedEveryRow(i, id) == {r \in outbox : r.install = i}

AckedRow(i, id) == {r \in outbox : r.install = i /\ r.id = id}

Acknowledges(c, i, id) == att[c][i] = AwaitingAck(id) /\ AckedRow(i, id) # {}

ReceiveAck(c) ==
  /\ Reads(c, "ack")
  /\ LET i == Head(up[c]).install
         id == Head(up[c]).id IN
       \/ /\ Acknowledges(c, i, id)
          /\ outbox' = outbox \ AckedRow(i, id)
          /\ att' = [att EXCEPT ![c][i] = Ready(id)]
          /\ UNCHANGED <<hub, down>>
       \/ /\ ~Acknowledges(c, i, id)
          /\ Detach(c, i)
          /\ Send(c, <<Notice("detached", i)>>)
          /\ UNCHANGED outbox
  /\ LoopAgain(c)
  /\ UNCHANGED <<seq, posted, dropped, wakers, batch, req, events, device, faults>>

Takes(c, type) ==
  /\ pc[c] = "select"
  /\ events[c] # <<>>
  /\ Head(events[c]).type = type
  /\ events' = [events EXCEPT ![c] = Tail(@)]

OnWake(c) ==
  /\ Takes(c, "wake")
  /\ UNCHANGED att
  /\ LoopAgain(c)
  /\ UNCHANGED <<store, wakers, hub, batch, req, wire, device, faults>>

OnReplaced(c) ==
  /\ Takes(c, "replaced")
  /\ LET i == Head(events[c]).install IN
       /\ Detach(c, i)
       /\ Send(c, DetachAnswer(c, i))
  /\ LoopAgain(c)
  /\ UNCHANGED <<store, wakers, batch, req, up, device, faults>>

(* Faulty variant of Heartbeat: the tick does not lead back to the outbox.       *)
HeartbeatOnlyPings(c) == pc[c] = "select" /\ UNCHANGED vars

(* The 30 s tick: the ping is written and the loop polls again.                  *)
Heartbeat(c) ==
  /\ pc[c] = "select"
  /\ UNCHANGED att
  /\ LoopAgain(c)
  /\ UNCHANGED <<store, wakers, hub, batch, req, events, wire, device, faults>>

(* The end of run_socket: shutdown() and the drop of the event receiver.         *)
Shutdown(c) ==
  /\ pc[c] # "closed"
  /\ DetachLocally(c, Installs)
  /\ HubDetach(c, Attached(c))
  /\ pc' = [pc EXCEPT ![c] = "closed"]
  /\ todo' = [todo EXCEPT ![c] = {}]
  /\ batch' = [batch EXCEPT ![c] = <<>>]
  /\ req' = [req EXCEPT ![c] = NoRequest]
  /\ events' = [events EXCEPT ![c] = <<>>]
  /\ up' = [up EXCEPT ![c] = <<>>]
  /\ UNCHANGED <<store, wakers, down, device>>

(* A read or a write fails because the device has gone.                          *)
CloseBroken(c) ==
  /\ ~link[c]
  /\ pc[c] \in {"poll", "select"}
  /\ Shutdown(c)
  /\ UNCHANGED faults

(* A database call fails: attach, acknowledge and pending_messages all end the   *)
(* connection.                                                                   *)
CloseOnError(c) ==
  /\ link[c]
  /\ faults < MaxFaults
  /\ faults' = faults + 1
  /\ Shutdown(c)

(* The bridge process stops and starts again: only the database survives.        *)
Crash ==
  /\ faults < MaxFaults
  /\ faults' = faults + 1
  /\ waking' = {}
  /\ hub' = [i \in Installs |-> None]
  /\ pc' = [c \in Conns |-> "closed"]
  /\ todo' = [c \in Conns |-> {}]
  /\ batch' = [c \in Conns |-> <<>>]
  /\ att' = [c \in Conns |-> [i \in Installs |-> Detached]]
  /\ req' = [c \in Conns |-> NoRequest]
  /\ events' = [c \in Conns |-> <<>>]
  /\ up' = [c \in Conns |-> <<>>]
  /\ UNCHANGED <<store, unwoken, down, device>>

-------------------------------------------------------------------------------
(* The device, external to the repository: it speaks ClientFrame and reads       *)
(* ServerFrame.  "asked" is an attach that has not been answered.                *)

SetView(c, i, v) == view' = [view EXCEPT ![c][i] = v]

Connect(c) ==
  /\ pc[c] = "closed"
  /\ ~link[c]
  /\ link' = [link EXCEPT ![c] = TRUE]
  /\ pc' = [pc EXCEPT ![c] = "poll"]
  /\ UNCHANGED <<store, wakers, hub, todo, batch, req, att, events, wire, view, received,
                 faults>>

(* A frame written to a connection the bridge has closed is lost.                *)
DeviceSends(c, frame) ==
  up' = IF pc[c] = "closed" THEN up ELSE [up EXCEPT ![c] = Append(@, frame)]

AckFrame(i, id) == [type |-> "ack", install |-> i, id |-> id]

SendAttach(c, i, cursor, proof) ==
  /\ DeviceSends(c, [type |-> "attach", install |-> i, cursor |-> cursor, proof |-> proof])
  /\ SetView(c, i, "asked")

Cursors(i) == {0} \cup received[i] \cup ForgedCursors

InFlight(c) == Len(up[c]) + Len(down[c])

(* A device that is attached nowhere attaches, from the last message it took.    *)
DeviceAttaches(c, i) ==
  /\ link[c]
  /\ InFlight(c) < MaxInFlight
  /\ \A d \in Conns : view[d][i] = "no"
  /\ \E cursor \in {0} \cup received[i] :
       /\ \A id \in received[i] : id <= cursor
       /\ SendAttach(c, i, cursor, TRUE)
  /\ UNCHANGED <<store, wakers, hub, task, events, down, link, received, faults>>

(* An attach that is refused leaves an earlier attachment as it is.              *)
ViewAfter(answer, v) ==
  IF answer = "attached" \/ (answer = "attach_error" /\ v = "yes") THEN "yes" ELSE "no"

(* It takes the next frame; a message is acknowledged at once.                   *)
DeviceReads(c) ==
  /\ link[c]
  /\ down[c] # <<>>
  /\ down' = [down EXCEPT ![c] = Tail(@)]
  /\ LET frame == Head(down[c])
         i == frame.install IN
       \/ /\ frame.type = "message"
          /\ received' = [received EXCEPT ![i] = @ \cup {frame.id}]
          /\ DeviceSends(c, AckFrame(i, frame.id))
          /\ UNCHANGED view
       \/ /\ frame.type # "message"
          /\ SetView(c, i, ViewAfter(frame.type, view[c][i]))
          /\ UNCHANGED <<received, up>>
  /\ UNCHANGED <<store, wakers, hub, task, events, link, faults>>

(* The device notices that the bridge has closed the connection.                 *)
DeviceSeesClose(c) ==
  /\ link[c]
  /\ pc[c] = "closed"
  /\ down[c] = <<>>
  /\ link' = [link EXCEPT ![c] = FALSE]
  /\ view' = [view EXCEPT ![c] = [i \in Installs |-> "no"]]
  /\ UNCHANGED <<store, wakers, hub, task, events, wire, received, faults>>

(* The link breaks: what was under way to the device is lost, and of what was    *)
(* under way to the bridge only a prefix can still arrive.                       *)
LinkBreaks(c) ==
  /\ link[c]
  /\ faults < MaxFaults
  /\ faults' = faults + 1
  /\ link' = [link EXCEPT ![c] = FALSE]
  /\ view' = [view EXCEPT ![c] = [i \in Installs |-> "no"]]
  /\ down' = [down EXCEPT ![c] = <<>>]
  /\ \E n \in 0..Len(up[c]) : up' = [up EXCEPT ![c] = SubSeq(@, 1, n)]
  /\ UNCHANGED <<store, wakers, hub, task, events, received>>

(* Legal frames that help nobody: attaching again, from a second connection or   *)
(* from an older cursor, a wrong proof, a detach, an acknowledgement repeated or *)
(* sent out of turn.                                                             *)
DeviceMisbehaves(c, i) ==
  /\ link[c]
  /\ pc[c] # "closed"
  /\ InFlight(c) < MaxInFlight
  /\ faults < MaxFaults
  /\ faults' = faults + 1
  /\ \/ \E cursor \in Cursors(i) : SendAttach(c, i, cursor, TRUE)
     \/ view[c][i] = "no" /\ SendAttach(c, i, 0, FALSE)
     \/ DeviceSends(c, [type |-> "detach", install |-> i]) /\ UNCHANGED view
     \/ \E id \in received[i] : DeviceSends(c, AckFrame(i, id)) /\ UNCHANGED view
  /\ UNCHANGED <<store, wakers, hub, task, events, down, link, received>>

-------------------------------------------------------------------------------
Producers ==
  \/ \E i \in Installs, a \in Apps : Enqueue(i, a) \/ Unregister(i, a)
  \/ \E row \in waking : HubWake(row) \/ AbortProducer(row)

Polling(c) == SendBatch(c) \/ \E i \in Installs : PollInstall(c, i)
Attaching(c) == ReadMaxOutboxId(c) \/ AckSocketThrough(c) \/ FinishAttach(c)
Reading(c) == ReceiveAttach(c) \/ ReceiveDetach(c) \/ ReceiveAck(c)
Notified(c) == OnWake(c) \/ OnReplaced(c)

Connection(c) ==
  \/ Polling(c)
  \/ Attaching(c)
  \/ Reading(c)
  \/ Notified(c)
  \/ Heartbeat(c)
  \/ CloseBroken(c)
  \/ CloseOnError(c)

Device(c) ==
  \/ Connect(c)
  \/ DeviceReads(c)
  \/ DeviceSeesClose(c)
  \/ LinkBreaks(c)
  \/ \E i \in Installs : DeviceAttaches(c, i) \/ DeviceMisbehaves(c, i)

Next ==
  \/ Producers
  \/ Crash
  \/ \E c \in Conns : Connection(c) \/ Device(c)

Spec == Init /\ [][Next]_vars

(* The tasks run: an await that is ready is resumed, and select! starts from a   *)
(* random branch, so a branch that is ready again and again is taken (hence the  *)
(* strong fairness).  A device with nothing better to do connects, attaches and  *)
(* reads.  Faults are never owed.                                                *)
Fairness ==
  /\ \A c \in Conns :
       /\ WF_vars(Polling(c))
       /\ WF_vars(Attaching(c))
       /\ WF_vars(CloseBroken(c))
       /\ SF_vars(Reading(c))
       /\ SF_vars(Notified(c))
       /\ SF_vars(Heartbeat(c))
       /\ WF_vars(DeviceReads(c))
       /\ WF_vars(DeviceSeesClose(c))
  /\ WF_vars(\E c \in Conns : Connect(c))
  /\ \A i \in Installs : WF_vars(\E c \in Conns : DeviceAttaches(c, i))

FairSpec == Spec /\ Fairness

-------------------------------------------------------------------------------
TypeOK ==
  /\ outbox \subseteq Row /\ posted \subseteq Row /\ dropped \subseteq Row
  /\ waking \subseteq Row /\ unwoken \subseteq Row
  /\ seq \in 0..MaxId
  /\ hub \in [Installs -> Conns \cup {None}]
  /\ pc \in [Conns -> Phase]
  /\ todo \in [Conns -> SUBSET Installs]
  /\ batch \in [Conns -> Seq(ServerFrame)]
  /\ req \in [Conns -> [install: Installs, cursor: Int]]
  /\ att \in [Conns -> [Installs -> Attachment]]
  /\ events \in [Conns -> Seq(SocketEvent)]
  /\ up \in [Conns -> Seq(ClientFrame)]
  /\ down \in [Conns -> Seq(ServerFrame)]
  /\ link \in [Conns -> BOOLEAN]
  /\ view \in [Conns -> [Installs -> {"no", "asked", "yes"}]]
  /\ received \in [Installs -> SUBSET Nat]
  /\ faults \in 0..MaxFaults

(* Nothing is skipped: no row of an attached install lies at or below the cursor  *)
(* its connection polls from, or below the message it waits for.  Such a row      *)
(* would never be selected by next_socket_message again.  It holds whatever       *)
(* cursor a device sends (Cursor::clamp) and whatever rows are deleted            *)
(* (AUTOINCREMENT).                                                               *)
SkipFree ==
  \A c \in Conns, i \in Installs : \A r \in outbox :
    r.install = i =>
      /\ att[c][i].state = "ready" => r.id > att[c][i].at
      /\ att[c][i].state = "awaiting" => r.id >= att[c][i].at

(* An entry of the hub names a connection that is running and attached, so a wake *)
(* is never sent to a channel nobody reads.                                       *)
HubOwner ==
  \A i \in Installs, c \in Conns : hub[i] = c => pc[c] # "closed" /\ i \in Attached(c)

(* A connection that holds an attachment it does not own any more has been told:  *)
(* the Replaced notice is in its channel.                                         *)
Superseded ==
  \A i \in Installs, c \in Conns :
    i \in Attached(c) /\ hub[i] # c =>
      \E k \in 1..Len(events[c]) : events[c][k] = Replaced(i)

(* No lost wake-up: a connection that sleeps in select! with nothing in its       *)
(* channel has no message it could send, unless the producer of that row is still *)
(* about to wake it (or was aborted, which the 30 s heartbeat makes up for).      *)
NoLostWake ==
  \A c \in Conns, i \in Installs :
    pc[c] = "select" /\ events[c] = <<>> /\ att[c][i].state = "ready"
      => Pending(i, att[c][i].at) \subseteq waking \cup unwoken

(* Once every frame has been read at both ends, the device and the connection     *)
(* agree on what is attached.                                                     *)
ViewAgrees ==
  \A c \in Conns, i \in Installs :
    link[c] /\ pc[c] \in {"poll", "select"} /\ up[c] = <<>> /\ down[c] = <<>>
      => (view[c][i] = "yes" <=> i \in Attached(c))

(* Socket delivery implements the mailbox.                                        *)
Mail == INSTANCE Mailbox WITH pending <- outbox, Ids <- 1..MaxId
ImplementsMailbox == Mail!Spec

(* Every message is eventually out of the outbox for good, although links break,  *)
(* the bridge restarts and producers are aborted between insert and wake.         *)
InOutbox(id) == \E r \in outbox : r.id = id
EventuallySettled == \A id \in 1..MaxId : <>[]~InOutbox(id)
===============================================================================
