------------------------------- MODULE Mailbox --------------------------------
(* What socket delivery promises, without connections, cursors or wake-ups: a    *)
(* mailbox per install from which a device takes messages in the order they were *)
(* posted, at least once each, and from which a message leaves only after the    *)
(* device has taken it or because its application unregistered.                  *)
EXTENDS Integers

CONSTANTS
  Installs,  (* owners of a mailbox                *)
  Apps,      (* applications messages are for      *)
  Ids        (* ids of messages, natural numbers   *)

VARIABLES
  posted,   (* every message ever posted                     *)
  pending,  (* the messages the bridge still keeps           *)
  dropped,  (* those given up with their application         *)
  received  (* ids of the messages each device has taken     *)

vars == <<posted, pending, dropped, received>>

Message == [id: Ids, install: Installs, app: Apps]

Init ==
  /\ posted = {}
  /\ pending = {}
  /\ dropped = {}
  /\ received = [i \in Installs |-> {}]

(* A new message is younger than every message posted before it.                 *)
Post(m) ==
  /\ \A n \in posted : n.id < m.id
  /\ posted' = posted \cup {m}
  /\ pending' = pending \cup {m}
  /\ UNCHANGED <<dropped, received>>

(* A device may take a message again, but takes it first only when no earlier    *)
(* message for it is kept that it has not taken.                                 *)
Take(m) ==
  /\ m \in posted
  /\ \A n \in pending :
       n.install = m.install /\ n.id < m.id => n.id \in received[m.install]
  /\ received' = [received EXCEPT ![m.install] = @ \cup {m.id}]
  /\ UNCHANGED <<posted, pending, dropped>>

(* Messages that the device has taken are forgotten.                             *)
Settle(i) ==
  /\ \E settled \in SUBSET {m \in pending : m.install = i /\ m.id \in received[i]} :
       pending' = pending \ settled
  /\ UNCHANGED <<posted, dropped, received>>

Unregister(i, a) ==
  /\ LET owed == {m \in pending : m.install = i /\ m.app = a} IN
       /\ pending' = pending \ owed
       /\ dropped' = dropped \cup owed
  /\ UNCHANGED <<posted, received>>

Next ==
  \/ \E m \in Message : Post(m)
  \/ \E m \in posted : Take(m)
  \/ \E i \in Installs : Settle(i) \/ \E a \in Apps : Unregister(i, a)

Spec == Init /\ [][Next]_vars
===============================================================================
