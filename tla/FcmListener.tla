------------------------------ MODULE FcmListener ------------------------------
(* One FCM listener of the bridge: run_listener of fcm.rs for one registered      *)
(* application, with the history of acknowledged ids it keeps in memory and in    *)
(* the table acked_messages, the transaction that stores a message, and the MCS   *)
(* server at the other end of the connection.                                     *)
(*                                                                                *)
(* The listener task dies with the process, and whoever holds the FcmManager lock *)
(* may abort it at any await and start another one.  An aborted task that is      *)
(* running on another thread still reaches its next await: a message it was       *)
(* handling may be stored after the abort (a straggler).                          *)
(*                                                                                *)
(* unregister stops the listener and deletes in a later await; prune_stale        *)
(* deletes and stops the listener in a later await.  A listener may run, or be    *)
(* started, in between.  Who asks for it, whether there is a registration, and    *)
(* what a failing get_fcm_session does, is in Registration.                       *)
EXTENDS Integers, Sequences, FiniteSets

CONSTANTS
  MaxMessage,   (* bound: messages the sender hands to FCM, numbered from 1         *)
  Anonymous,    (* those whose stanza carries no persistent id                      *)
  Garbled,      (* those whose stanza may be one the protobuf decoder refuses       *)
  H,            (* the 500 of fcm.rs, gcm.rs and the trim in db.rs                  *)
  MaxPings,     (* bound: heartbeat pings on one connection                         *)
  MaxFaults     (* bound: crashes, aborts, lost connections and failed calls        *)

ASSUME MessagesAssumption == MaxMessage \in Nat
ASSUME HistoryAssumption == H \in Nat \ {0}
ASSUME FaultsAssumption == MaxPings \in Nat /\ MaxFaults \in Nat

VARIABLES
  pc,          (* where the listener task stands                                    *)
  ids,         (* persistent_ids of the task, oldest first                          *)
  msg,         (* the message being handled                                         *)
  streamId,    (* last_stream_id_received of the connection                         *)
  acked,       (* table acked_messages, by rowid                                    *)
  outbox,      (* messages that have a row in the outbox                            *)
  recorded,    (* history: how many ids acked_messages was given since it was empty *)
  era,         (* history: how often acked_messages has been emptied                *)
  posted,      (* history: inserted rows, each with recorded and era at that time   *)
  stragglers,  (* messages an aborted task may still store                          *)
  degraded,    (* history: since the task was seeded, or by its seeding, its ids    *)
               (* and the table have been parted: see Seed, Straggle, DeleteRows    *)
  session,     (* table fcm_sessions: the device is stored                          *)
  deletes,     (* unregister handlers between their stop and their delete           *)
  pruning,     (* the prune task has deleted and is about to stop the listener      *)
  accepted,    (* external: how many messages FCM has taken from the sender         *)
  undecodable, (* external: those of them whose stanza the decoder does refuse      *)
  backlog,     (* external: accepted messages FCM has not seen acknowledged         *)
  orphaned,    (* external: those it keeps for a device that nobody uses any more   *)
  line,        (* external: the connection is up                                    *)
  log,         (* external: frames sent on this connection, by stream id            *)
  frames,      (* external: frames on their way to the listener                     *)
  acks,        (* external: stream ids on their way to the server                   *)
  faults       (* crashes, aborts, lost connections and failed calls so far         *)

task == <<pc, ids, msg, streamId>>
store == <<acked, outbox, recorded, era, posted>>
aborted == <<stragglers, degraded>>
registration == <<session, deletes, pruning>>
mail == <<accepted, undecodable>>
server == <<mail, backlog, orphaned>>
connection == <<line, log, frames, acks>>
vars == <<task, store, aborted, registration, server, connection, faults>>

-------------------------------------------------------------------------------
Messages == 1..MaxMessage
Login == 0
Ping == -1
Frame == Messages \cup {Login, Ping}

(* "stopped": no task; "starting": start_listener has the device; "seeding":      *)
(* recent_acks; "connecting": the top of the outer loop; "select": waiting in     *)
(* select!; "handling": a data message has been read; "stored": enqueue_fcm has   *)
(* returned.                                                                      *)
Phase == {"stopped", "starting", "seeding", "connecting", "select", "handling", "stored"}

(* Faulty variant of MAX_ACK_HISTORY: one id more than a login may carry.         *)
OneTooMany == H + 1

(* Three limits that have to fit: the history of the task, that of the table, and *)
(* what a login request may carry.                                                *)
MAX_ACK_HISTORY == H
TrimLimit == H
MAX_PERSISTENT_IDS == H

Newest(s, n) == IF Len(s) > n THEN SubSeq(s, Len(s) - n + 1, Len(s)) ELSE s

Elements(s) == {s[k] : k \in DOMAIN s}

(* The application has registered for the first time.                             *)
Init ==
  /\ pc = "starting"
  /\ ids = <<>>
  /\ msg = Login
  /\ streamId = 0
  /\ acked = <<>>
  /\ outbox = {}
  /\ recorded = 0
  /\ era = 0
  /\ posted = <<>>
  /\ stragglers = {}
  /\ degraded = FALSE
  /\ session = FALSE
  /\ deletes = 0
  /\ pruning = FALSE
  /\ accepted = 0
  /\ undecodable = {}
  /\ backlog = {}
  /\ orphaned = {}
  /\ line = FALSE
  /\ log = <<>>
  /\ frames = <<>>
  /\ acks = <<>>
  /\ faults = 0

Fault == faults < MaxFaults /\ faults' = faults + 1

(* The task drops its stream: what was on its way to it is gone, what it wrote is *)
(* not.                                                                           *)
HangsUp ==
  /\ line' = FALSE
  /\ frames' = <<>>
  /\ streamId' = 0

-------------------------------------------------------------------------------
(* The database.                                                                  *)

(* Faulty variant of WasAcked: the transaction does not look at the history.      *)
NeverAcked(m) == FALSE

WasAcked(m) == m \notin Anonymous /\ m \in Elements(acked)

(* The transaction of enqueue_fcm_message.  A row that is still in the outbox is  *)
(* not inserted again (the unique index on persistent_id), nor is an id that is   *)
(* still in the history.                                                          *)
EnqueueFcmMessage(m) ==
  /\ IF WasAcked(m) \/ (m \in outbox /\ m \notin Anonymous)
     THEN UNCHANGED <<outbox, posted>>
     ELSE /\ outbox' = outbox \cup {m}
          /\ posted' = Append(posted, [msg |-> m, at |-> recorded, era |-> era])
  /\ UNCHANGED era
  /\ IF m \in Anonymous \cup Elements(acked)
     THEN UNCHANGED <<acked, recorded>>
     ELSE /\ acked' = Newest(Append(acked, m), TrimLimit)
          /\ recorded' = recorded + 1

(* The device gets the message, or its application gives it up: the row leaves.   *)
RowLeaves(m) ==
  /\ m \in outbox
  /\ outbox' = outbox \ {m}
  /\ UNCHANGED <<acked, recorded, era, posted>>
  /\ UNCHANGED <<task, aborted, registration, server, connection, faults>>

(* The first n statements of delete_registration, or of prune_stale for one pair, *)
(* after the one on registrations: they are not a transaction.                    *)
DeleteRows(n) ==
  /\ session' = (session /\ n < 1)
  /\ IF n < 2
     THEN UNCHANGED <<acked, recorded, era, degraded>>
     ELSE /\ acked' = <<>>
          /\ recorded' = 0
          /\ era' = era + 1
          /\ degraded' = TRUE
  /\ outbox' = IF n < 3 THEN outbox ELSE {}
  /\ UNCHANGED posted

-------------------------------------------------------------------------------
(* The listener task.                                                             *)

(* Faulty variant of RecentAcks: as the query returns them, the newest id first.  *)
NewestFirst ==
  LET recent == Newest(acked, MAX_ACK_HISTORY)
  IN [k \in DOMAIN recent |-> recent[Len(recent) + 1 - k]]

(* recent_acks after reverse(): the oldest id first.                              *)
RecentAcks == Newest(acked, MAX_ACK_HISTORY)

(* A query that fails leaves the task with an empty history.                      *)
Seed ==
  /\ pc = "seeding"
  /\ pc' = "connecting"
  /\ \/ /\ ids' = RecentAcks
        /\ degraded' = FALSE
        /\ UNCHANGED faults
     \/ /\ Fault
        /\ ids' = <<>>
        /\ degraded' = TRUE
  /\ UNCHANGED <<msg, streamId, store, stragglers, registration, server, connection>>

(* connect refuses to send a longer history; the task would try again for ever.   *)
LoginFits == Len(ids) <= MAX_PERSISTENT_IDS

(* The server reads the login request: it forgets the messages the request names. *)
ServerTakesLogin == backlog' = backlog \ Elements(ids)

Connect ==
  /\ pc = "connecting"
  /\ LoginFits
  /\ ServerTakesLogin
  /\ pc' = "select"
  /\ streamId' = 0
  /\ line' = TRUE
  /\ log' = <<Login>>
  /\ frames' = <<Login>>
  /\ acks' = <<>>
  /\ UNCHANGED <<ids, msg, store, aborted, registration, mail, orphaned, faults>>

(* connect fails, before or after the request reached the server, and is tried    *)
(* again 30 s later.                                                              *)
ConnectFails ==
  /\ pc = "connecting"
  /\ LoginFits
  /\ Fault
  /\ ServerTakesLogin \/ UNCHANGED backlog
  /\ UNCHANGED <<task, store, aborted, registration, mail, orphaned, connection>>

(* The next frame is read and counted.                                            *)
ReadsFrame ==
  /\ pc = "select"
  /\ frames # <<>>
  /\ frames' = Tail(frames)
  /\ streamId' = streamId + 1

ReceiveData ==
  /\ ReadsFrame
  /\ Head(frames) \in Messages \ undecodable
  /\ msg' = Head(frames)
  /\ pc' = "handling"
  /\ UNCHANGED <<ids, store, aborted, registration, server, line, log, acks, faults>>

(* A write on a connection that is down is lost in a buffer, or fails.            *)
WriteAck(n) ==
  /\ pc' = "select"
  /\ acks' = IF line THEN Append(acks, n) ELSE acks

WriteFails ==
  /\ ~line
  /\ pc' = "connecting"
  /\ HangsUp
  /\ UNCHANGED acks

(* A heartbeat ping is answered with an acknowledgement of everything before it.  *)
ReceivePing ==
  /\ pc = "select" /\ frames # <<>>
  /\ Head(frames) = Ping
  /\ \/ ReadsFrame /\ WriteAck(streamId') /\ UNCHANGED line
     \/ WriteFails
  /\ UNCHANGED <<ids, msg, store, aborted, registration, server, log, faults>>

ReceiveOther ==
  /\ ReadsFrame
  /\ Head(frames) = Login
  /\ UNCHANGED <<pc, ids, msg, store, aborted, registration, server, line, log, acks, faults>>

(* The decoder gives up: the connection is dropped, and 5 s later the next begun. *)
ReceiveUndecodable ==
  /\ pc = "select" /\ frames # <<>>
  /\ Head(frames) \in Messages \cap undecodable
  /\ pc' = "connecting"
  /\ HangsUp
  /\ UNCHANGED <<ids, msg, store, aborted, registration, server, log, acks, faults>>

(* Faulty variant of StreamEnds: a connection that has ended is read again.       *)
StreamEndsUnseen ==
  /\ pc = "select"
  /\ ~line
  /\ frames = <<>>
  /\ UNCHANGED vars

StreamEnds ==
  /\ pc = "select"
  /\ ~line
  /\ frames = <<>>
  /\ pc' = "connecting"
  /\ HangsUp
  /\ UNCHANGED <<ids, msg, store, aborted, registration, server, log, acks, faults>>

(* Faulty variant of Persist: a message the database refuses is acknowledged too. *)
PersistOrNot ==
  /\ pc = "handling"
  /\ pc' = "stored"
  /\ \/ EnqueueFcmMessage(msg) /\ UNCHANGED faults
     \/ Fault /\ UNCHANGED store
  /\ UNCHANGED <<ids, msg, streamId, aborted, registration, server, connection>>

(* enqueue_fcm: the message is stored, or the database refuses and the connection *)
(* is dropped.                                                                    *)
Persist ==
  /\ pc = "handling"
  /\ \/ /\ EnqueueFcmMessage(msg)
        /\ pc' = "stored"
        /\ UNCHANGED <<msg, streamId, line, frames, faults>>
     \/ /\ Fault
        /\ pc' = "connecting"
        /\ msg' = Login
        /\ HangsUp
        /\ UNCHANGED store
  /\ UNCHANGED <<ids, aborted, registration, server, log, acks>>

IsRedelivery == msg \in Elements(ids)

(* The id is remembered and the stream acknowledged up to this message.           *)
Acknowledge ==
  /\ pc = "stored"
  /\ ids' = IF IsRedelivery \/ msg \in Anonymous THEN ids
            ELSE Newest(Append(ids, msg), MAX_ACK_HISTORY)
  /\ msg' = Login
  /\ \/ WriteAck(streamId) /\ UNCHANGED <<streamId, line, frames>>
     \/ WriteFails
  /\ UNCHANGED <<store, aborted, registration, server, log, faults>>

-------------------------------------------------------------------------------
(* What happens to the task.                                                      *)

TaskGone ==
  /\ ids' = <<>>
  /\ msg' = Login
  /\ HangsUp

(* FcmManager::stop_listener; start_listener holds its lock to the end.           *)
StopTask ==
  /\ pc # "starting"
  /\ pc' = "stopped"
  /\ TaskGone
  /\ \/ UNCHANGED stragglers
     \/ pc = "handling" /\ stragglers' = stragglers \cup {msg}
  /\ UNCHANGED <<degraded, log, acks>>

(* The first half of start_listener with a new configuration.                     *)
Reconfigure ==
  /\ pc # "stopped"
  /\ Fault
  /\ StopTask
  /\ UNCHANGED <<store, registration, server>>

(* The last await of an aborted task.                                             *)
Straggle(m) ==
  /\ m \in stragglers
  /\ EnqueueFcmMessage(m)
  /\ stragglers' = stragglers \ {m}
  /\ degraded' = TRUE
  /\ UNCHANGED <<task, registration, server, connection, faults>>

(* start_listener takes the device that is stored, or registers a new one: what   *)
(* FCM keeps for the old one has nobody left to take it.                          *)
StartListener ==
  /\ pc = "stopped"
  /\ pc' = "starting"
  /\ IF session THEN UNCHANGED <<backlog, orphaned>>
     ELSE /\ orphaned' = orphaned \cup backlog
          /\ backlog' = {}
  /\ UNCHANGED <<ids, msg, streamId, store, aborted, registration, mail, connection, faults>>

(* save_fcm_session, whose failure is ignored, and the task is spawned.           *)
SaveSession ==
  /\ pc = "starting"
  /\ pc' = "seeding"
  /\ \/ session' = TRUE /\ UNCHANGED faults
     \/ Fault /\ UNCHANGED session
  /\ UNCHANGED <<ids, msg, streamId, store, aborted, deletes, pruning, server, connection>>

(* FCM cannot be reached, or the client of register goes away.                    *)
StartFails ==
  /\ pc = "starting"
  /\ Fault
  /\ pc' = "stopped"
  /\ UNCHANGED <<ids, msg, streamId, store, aborted, registration, server, connection>>

(* The first half of unregister.                                                  *)
Unlisten ==
  /\ Fault
  /\ StopTask
  /\ deletes' = deletes + 1
  /\ UNCHANGED <<store, session, pruning, server>>

(* The second, or as much of it as comes before a statement that fails; nothing   *)
(* when the handler is dropped in between.                                        *)
DeleteRegistration ==
  /\ deletes > 0
  /\ deletes' = deletes - 1
  /\ \E n \in 0..3 :
       /\ DeleteRows(n)
       /\ IF n \in {0, 3} THEN UNCHANGED faults ELSE Fault
  /\ UNCHANGED <<task, stragglers, pruning, server, connection>>

(* prune_stale, which answers with the pair unless a statement fails, for this    *)
(* pair or for one after it.                                                      *)
PruneStale ==
  /\ ~pruning
  /\ Fault
  /\ \/ DeleteRows(3) /\ pruning' = TRUE
     \/ UNCHANGED pruning /\ \E n \in 0..3 : DeleteRows(n)
  /\ UNCHANGED <<task, stragglers, deletes, server, connection>>

StopPruned ==
  /\ pruning
  /\ pruning' = FALSE
  /\ StopTask
  /\ UNCHANGED <<store, session, deletes, server, faults>>

(* The process stops, perhaps in the middle of a delete or a prune.  When it is   *)
(* back, restore_registrations or the next request starts the listener again.     *)
Crash ==
  /\ Fault
  /\ \E n \in 0..3 : DeleteRows(n)
  /\ pc' = "stopped"
  /\ TaskGone
  /\ stragglers' = {}
  /\ deletes' = 0
  /\ pruning' = FALSE
  /\ UNCHANGED <<server, log, acks>>

-------------------------------------------------------------------------------
(* The MCS server, external: modelled by what run_listener expects of it.  It     *)
(* keeps a message until a login names it or a stream acknowledgement covers it,  *)
(* sends it once per connection, and counts its frames as MessageStream does.     *)

Accept ==
  /\ accepted < MaxMessage
  /\ accepted' = accepted + 1
  /\ backlog' = backlog \cup {accepted'}
  /\ undecodable' \in {undecodable, undecodable \cup (Garbled \cap {accepted'})}
  /\ UNCHANGED <<task, store, aborted, registration, orphaned, connection, faults>>

ServerSends(frame) ==
  /\ line
  /\ log' = Append(log, frame)
  /\ frames' = Append(frames, frame)
  /\ UNCHANGED <<task, store, aborted, registration, server, line, acks, faults>>

SendMessage ==
  \E m \in backlog \ Elements(log) : ServerSends(m)

SendPing ==
  /\ Cardinality({k \in DOMAIN log : log[k] = Ping}) < MaxPings
  /\ ServerSends(Ping)

ReadAck ==
  /\ acks # <<>>
  /\ acks' = Tail(acks)
  /\ backlog' = backlog \ {log[k] : k \in 1..Head(acks)}
  /\ UNCHANGED <<task, store, aborted, registration, mail, orphaned, line, log, frames, faults>>

(* What was under way when the connection is lost may still arrive, in part.      *)
LineBreaks ==
  /\ line
  /\ Fault
  /\ line' = FALSE
  /\ \E n \in 0..Len(frames) : frames' = SubSeq(frames, 1, n)
  /\ \E n \in 0..Len(acks) : acks' = SubSeq(acks, 1, n)
  /\ UNCHANGED <<task, store, aborted, registration, server, log>>

-------------------------------------------------------------------------------
Task ==
  \/ Seed \/ Connect \/ ConnectFails
  \/ ReceiveData \/ ReceivePing \/ ReceiveOther \/ ReceiveUndecodable \/ StreamEnds
  \/ Persist \/ Acknowledge

Manager ==
  \/ Reconfigure \/ StartListener \/ SaveSession \/ StartFails
  \/ Unlisten \/ DeleteRegistration \/ PruneStale \/ StopPruned
  \/ Crash
  \/ \E m \in stragglers : Straggle(m)

McsServer == Accept \/ SendMessage \/ SendPing \/ ReadAck \/ LineBreaks

Next == Task \/ Manager \/ McsServer \/ \E m \in outbox : RowLeaves(m)

Spec == Init /\ [][Next]_vars

(* The task is scheduled, a listener that was stopped is started again (the shim  *)
(* registers again every day), and the server keeps sending what it has not seen  *)
(* acknowledged.  Faults are never owed, nor that an acknowledgement is read.     *)
Fairness ==
  /\ WF_vars(Task)
  /\ WF_vars(StartListener \/ SaveSession)
  /\ WF_vars(SendMessage)

FairSpec == Spec /\ Fairness

-------------------------------------------------------------------------------
TypeOK ==
  /\ pc \in Phase
  /\ ids \in Seq(Messages) /\ acked \in Seq(Messages)
  /\ msg \in Messages \cup {Login}
  /\ streamId \in Nat /\ recorded \in Nat /\ era \in Nat
  /\ outbox \subseteq Messages /\ stragglers \subseteq Messages
  /\ posted \in Seq([msg: Messages, at: Nat, era: Nat])
  /\ degraded \in BOOLEAN /\ line \in BOOLEAN
  /\ accepted \in 0..MaxMessage /\ undecodable \subseteq 1..accepted
  /\ backlog \subseteq 1..accepted /\ orphaned \subseteq 1..accepted
  /\ session \in BOOLEAN /\ deletes \in Nat /\ pruning \in BOOLEAN
  /\ log \in Seq(Frame) /\ frames \in Seq(Frame)
  /\ acks \in Seq(Nat)
  /\ faults \in 0..MaxFaults
  /\ Len(ids) <= MAX_PERSISTENT_IDS /\ Len(acked) <= TrimLimit

Posted(m) == \E k \in DOMAIN posted : posted[k].msg = m

(* No message is lost: FCM still has it, or it has been stored.  So nothing is    *)
(* acknowledged, by stream id, by heartbeat or by login, before it is stored,     *)
(* wherever the task is aborted or the process stops, and whatever is deleted.    *)
NoLoss == \A m \in 1..accepted : m \in backlog \cup orphaned \/ Posted(m)

SameStoring(earlier, later) ==
  /\ earlier.msg = later.msg /\ earlier.msg \notin Anonymous
  /\ earlier.era = later.era

(* No message is stored twice, except after H younger ids have pushed its own out *)
(* of the history, or after the history was deleted with the registration:        *)
(* redeliveries are recognised across reconnects, restarts and aborted listeners. *)
OnceWithinHistory ==
  \A j, k \in DOMAIN posted :
    j < k /\ SameStoring(posted[j], posted[k]) => posted[k].at - posted[j].at > H

(* What the task will say in its next login is what the table would seed a new    *)
(* task with, in the order in which ids are evicted, unless the table could not   *)
(* be read at its start, or a straggler, an unregister or a prune has changed it  *)
(* since.                                                                         *)
HistoryAgrees ==
  ~degraded /\ pc \in {"connecting", "select", "handling"} => ids = acked

(* Again and again everything FCM has accepted is stored, unless its device was    *)
(* given up with its session, or FCM has got a message whose stanza does not       *)
(* decode: that one is never acknowledged, and ends every connection again,        *)
(* perhaps before the others are sent.                                            *)
Settled == \A m \in 1..accepted : Posted(m) \/ m \in orphaned

EventuallyStored == []<>(Settled \/ backlog \cap undecodable # {})
===============================================================================
