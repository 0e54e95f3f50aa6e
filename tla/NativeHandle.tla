------------------------------ MODULE NativeHandle ------------------------------
(* The on-device listener behind JNI (crates/jni/src/lib.rs): the registry of       *)
(* native handles, the stop protocol between nativeStop or nativeDestroy and the    *)
(* run it ends, the runtime mutex that requests and runs share, and the loop of     *)
(* run_mcs that gives messages to a Java callback and acknowledges them.            *)
(*                                                                                  *)
(* One action is what a Java thread does between two points where another thread    *)
(* can be seen: a lock, an atomic, an await, a call into Java.  A callback that     *)
(* stops or destroys its own handle is the same as another thread that does.        *)
EXTENDS Integers, Sequences, FiniteSets

CONSTANTS
  Threads,     (* threads of the Java program                                         *)
  Apps,        (* identities a run may be asked to listen for                         *)
  None,        (* no thread                                                           *)
  MaxHandles,  (* bound: handles ever created                                         *)
  MaxMessage,  (* bound: messages FCM accepts for each application                    *)
  MaxFaults    (* bound: lost connections, failed calls, Java exceptions and panics   *)

ASSUME NoneAssumption == None \notin Threads
ASSUME BoundsAssumption == MaxHandles \in Nat /\ MaxMessage \in Nat /\ MaxFaults \in Nat

VARIABLES
  live,      (* HANDLES: ids in the registry                                          *)
  next,      (* NEXT_HANDLE                                                           *)
  flag,      (* stop_requested of each handle                                         *)
  stopper,   (* the thread whose sender is in the stopper of a handle                 *)
  runtime,   (* the thread that holds the runtime mutex of a handle                   *)
  poisoned,  (* handles whose runtime mutex is poisoned                               *)
  stopped,   (* history: handles that a stop or a destroy has returned from           *)
  pc,        (* where each thread stands                                              *)
  on,        (* the handle each thread works on, 0 for none                           *)
  told,      (* the stop receiver of the run is ready: sent to, or sender dropped     *)
  todo,      (* identities the run has still to connect                               *)
  streams,   (* those it has connected                                                *)
  late,      (* history: frames and connections it took after its handle was stopped  *)
  at,        (* the message at hand                                                   *)
  conn,      (* the run that has the MCS connection of an application                 *)
  wire,      (* frames on their way to that run                                       *)
  read,      (* what it has read, which its stream id stands for                      *)
  acks,      (* acknowledged messages on their way to the server                      *)
  given,     (* history: messages the callback has taken                              *)
  accepted,  (* external: how many messages FCM has taken for each application        *)
  backlog,   (* external: those it has not seen acknowledged                          *)
  faults

handle == <<flag, stopper, runtime, poisoned, stopped>>
registry == <<live, next>>
course == <<todo, streams, late>>
thread == <<pc, on, told, course, at>>
line == <<conn, wire, read, acks>>
mail == <<given, accepted, backlog>>
vars == <<handle, registry, thread, line, mail, faults>>

-------------------------------------------------------------------------------
Handles == 1..MaxHandles
Message == 1..MaxMessage
Ping == 0

(* nativeRun: "install", "lock", then run_mcs from "connect" to "ack", then the     *)
(* guards: "guard".  A select! polls the stop at "connect" and "select", and what   *)
(* the run waits for at "login" and "streams".  nativeCheckIn and nativeRegister:   *)
(* "wait", "request".  nativeStop and nativeDestroy: "flag", "take".                *)
InMcs == {"connect", "login", "announce", "select", "streams", "callback", "ack"}
Phase == {"idle", "install", "lock", "guard", "wait", "request", "flag", "take"} \cup InMcs

Running(t) == pc[t] \in InMcs \cup {"lock"}

Init ==
  /\ live = {}
  /\ next = 1
  /\ flag = [h \in Handles |-> FALSE]
  /\ stopper = [h \in Handles |-> None]
  /\ runtime = [h \in Handles |-> None]
  /\ poisoned = {}
  /\ stopped = {}
  /\ pc = [t \in Threads |-> "idle"]
  /\ on = [t \in Threads |-> 0]
  /\ told = [t \in Threads |-> FALSE]
  /\ todo = [t \in Threads |-> {}]
  /\ streams = [t \in Threads |-> {}]
  /\ late = [t \in Threads |-> 0]
  /\ at = [t \in Threads |-> <<>>]
  /\ conn = [a \in Apps |-> None]
  /\ wire = [a \in Apps |-> <<>>]
  /\ read = [a \in Apps |-> {}]
  /\ acks = [a \in Apps |-> {}]
  /\ given = {}
  /\ accepted = [a \in Apps |-> 0]
  /\ backlog = [a \in Apps |-> {}]
  /\ faults = 0

Fault == faults < MaxFaults /\ faults' = faults + 1

Goto(t, phase) == pc' = [pc EXCEPT ![t] = phase]

(* The call returns, with a result or by throwing.                                  *)
Return(t) ==
  /\ Goto(t, "idle")
  /\ on' = [on EXCEPT ![t] = 0]

-------------------------------------------------------------------------------
(* The registry.                                                                    *)

(* Faulty variant of CreateHandle: the id is not used up.                           *)
CreateHandleAgain(t) ==
  /\ pc[t] = "idle"
  /\ next \in Handles
  /\ live' = live \cup {next}
  /\ UNCHANGED <<next, handle, thread, line, mail, faults>>

CreateHandle(t) ==
  /\ pc[t] = "idle"
  /\ next \in Handles
  /\ live' = live \cup {next}
  /\ next' = next + 1
  /\ UNCHANGED <<handle, thread, line, mail, faults>>

(* get_handle; an id that is not in the registry throws.                            *)
Enter(t, h, phase) ==
  /\ pc[t] = "idle"
  /\ h \in live
  /\ Goto(t, phase)
  /\ on' = [on EXCEPT ![t] = h]
  /\ UNCHANGED <<next, handle, told, course, at, line, mail, faults>>

CallRun(t, h) == Enter(t, h, "install") /\ UNCHANGED live
CallRequest(t, h) == Enter(t, h, "wait") /\ UNCHANGED live
CallStop(t, h) == Enter(t, h, "flag") /\ UNCHANGED live
CallDestroy(t, h) == Enter(t, h, "flag") /\ live' = live \ {h}

-------------------------------------------------------------------------------
(* request_stop.                                                                    *)

(* The sender that is in the stopper is sent to, or dropped: the same to a run.     *)
TellOwner(h) ==
  /\ stopper' = [stopper EXCEPT ![h] = None]
  /\ told' = [t \in Threads |-> told[t] \/ stopper[h] = t]

(* Faulty variant of SetFlag: the stopper is taken first, and the flag set last.    *)
SetFlagLast(t) ==
  \/ /\ pc[t] = "flag"
     /\ TellOwner(on[t])
     /\ Goto(t, "late")
     /\ UNCHANGED <<flag, runtime, poisoned, stopped, registry, on, course, at, line, mail, faults>>
  \/ /\ pc[t] = "late"
     /\ flag' = [flag EXCEPT ![on[t]] = TRUE]
     /\ stopped' = stopped \cup {on[t]}
     /\ Return(t)
     /\ UNCHANGED <<stopper, runtime, poisoned, registry, told, course, at, line, mail, faults>>

SetFlag(t) ==
  /\ pc[t] = "flag"
  /\ flag' = [flag EXCEPT ![on[t]] = TRUE]
  /\ Goto(t, "take")
  /\ UNCHANGED <<stopper, runtime, poisoned, stopped, registry, on, told, course, at, line, mail,
                 faults>>

TakeStopper(t) ==
  /\ pc[t] = "take"
  /\ TellOwner(on[t])
  /\ stopped' = stopped \cup {on[t]}
  /\ Return(t)
  /\ UNCHANGED <<flag, runtime, poisoned, registry, course, at, line, mail, faults>>

-------------------------------------------------------------------------------
(* The runtime mutex, and the requests that need nothing else.                      *)

LockRuntime(t, phase) ==
  /\ runtime[on[t]] = None
  /\ on[t] \notin poisoned
  /\ runtime' = [runtime EXCEPT ![on[t]] = t]
  /\ Goto(t, phase)
  /\ UNCHANGED on

(* check_in or register talks to Google, and returns what came of it.               *)
Request(t) ==
  /\ \/ /\ pc[t] = "wait"
        /\ \/ LockRuntime(t, "request")
           \/ runtime[on[t]] = None /\ on[t] \in poisoned /\ Return(t) /\ UNCHANGED runtime
     \/ /\ pc[t] = "request"
        /\ runtime' = [runtime EXCEPT ![on[t]] = None]
        /\ Return(t)
  /\ UNCHANGED <<flag, stopper, poisoned, stopped, registry, told, course, at, line, mail, faults>>

-------------------------------------------------------------------------------
(* run.                                                                             *)

(* Faulty variant of InstallStopper: a stop that came before is not looked for.     *)
InstallStopperOnly(t) ==
  /\ pc[t] = "install"
  /\ IF stopper[on[t]] # None
     THEN Return(t) /\ UNCHANGED <<stopper, told>>
     ELSE /\ stopper' = [stopper EXCEPT ![on[t]] = t]
          /\ told' = [told EXCEPT ![t] = FALSE]
          /\ Goto(t, "lock")
          /\ UNCHANGED on
  /\ UNCHANGED <<flag, runtime, poisoned, stopped, registry, course, at, line, mail, faults>>

(* install_stopper: all of it while the stopper is locked.                          *)
InstallStopper(t) ==
  /\ pc[t] = "install"
  /\ IF stopper[on[t]] # None
     THEN Return(t) /\ UNCHANGED <<stopper, told>>
     ELSE /\ stopper' = [stopper EXCEPT ![on[t]] = IF flag[on[t]] THEN None ELSE t]
          /\ told' = [told EXCEPT ![t] = flag[on[t]]]
          /\ Goto(t, "lock")
          /\ UNCHANGED on
  /\ UNCHANGED <<flag, runtime, poisoned, stopped, registry, course, at, line, mail, faults>>

(* run_mcs gets its arguments; the mutex may be poisoned.                           *)
StartMcs(t) ==
  /\ pc[t] = "lock"
  /\ \/ /\ LockRuntime(t, "connect")
        /\ \E apps \in SUBSET Apps \ {{}} : todo' = [todo EXCEPT ![t] = apps]
     \/ /\ runtime[on[t]] = None /\ on[t] \in poisoned
        /\ Goto(t, "guard")
        /\ UNCHANGED <<runtime, on, todo>>
  /\ UNCHANGED <<flag, stopper, poisoned, stopped, registry, told, streams, late, at, line, mail,
                 faults>>

(* run_mcs returns or panics: its connections are dropped, with what was under way  *)
(* on them except acknowledgements, and the mutex is released.                      *)
EndMcs(t) ==
  /\ conn' = [a \in Apps |-> IF conn[a] = t THEN None ELSE conn[a]]
  /\ wire' = [a \in Apps |-> IF conn[a] = t THEN <<>> ELSE wire[a]]
  /\ runtime' = [runtime EXCEPT ![on[t]] = None]
  /\ todo' = [todo EXCEPT ![t] = {}]
  /\ streams' = [streams EXCEPT ![t] = {}]
  /\ late' = [late EXCEPT ![t] = 0]
  /\ at' = [at EXCEPT ![t] = <<>>]
  /\ Goto(t, "guard")
  /\ UNCHANGED <<flag, stopper, stopped, registry, on, told, read, acks, accepted, backlog>>

(* Faulty variant of Polls: select! without biased.                                 *)
PollsUnbiased(t) == TRUE

(* select! is biased: while the stop receiver is ready, nothing else is polled.     *)
Polls(t) == ~told[t]

(* The stop is not ready, so what the run waits for is polled next; a stop on       *)
(* another thread may come, and return, between the two.                            *)
PollStop(t) ==
  /\ Polls(t)
  /\ \/ pc[t] = "connect" /\ todo[t] # {} /\ Goto(t, "login")
     \/ pc[t] = "select" /\ Goto(t, "streams")
  /\ UNCHANGED <<handle, registry, on, told, course, at, line, mail, faults>>

(* Nothing is ready: select! sleeps, and polls the stop first when it is woken.     *)
Pending(t) ==
  /\ \/ pc[t] = "login" /\ Goto(t, "connect")
     \/ /\ pc[t] = "streams"
        /\ \A a \in streams[t] : conn[a] = t /\ wire[a] = <<>>
        /\ Goto(t, "select")
  /\ UNCHANGED <<handle, registry, on, told, course, at, line, mail, faults>>

SeeStop(t) ==
  /\ pc[t] \in {"connect", "select"}
  /\ told[t]
  /\ pc[t] = "connect" => todo[t] # {}
  /\ EndMcs(t)
  /\ UNCHANGED <<poisoned, given, faults>>

(* What the run takes counts as late once its handle has been stopped.              *)
Takes(t) == late' = [late EXCEPT ![t] = IF on[t] \in stopped THEN @ + 1 ELSE @]

(* The arguments turn out to be invalid, or connect fails, or the Java callback     *)
(* throws on the first event.                                                       *)
RunFails(t) ==
  /\ pc[t] \in {"connect", "login", "announce"}
  /\ Fault
  /\ EndMcs(t)
  /\ UNCHANGED <<poisoned, given>>

(* catch_unwind keeps the process alive; the mutex stays poisoned.                  *)
Panic(t) ==
  /\ Fault
  /\ poisoned' = poisoned \cup {on[t]}
  /\ \/ pc[t] \in InMcs /\ EndMcs(t) /\ UNCHANGED given
     \/ /\ pc[t] = "request"
        /\ runtime' = [runtime EXCEPT ![on[t]] = None]
        /\ Return(t)
        /\ UNCHANGED <<flag, stopper, stopped, registry, told, course, at, line, mail>>

(* The login names messages the application has taken, of which it may have kept    *)
(* a list; a connection of another run for the same identity ends.                  *)
Connect(t, a) ==
  /\ pc[t] = "login"
  /\ a \in todo[t]
  /\ Takes(t)
  /\ Goto(t, "connect")
  /\ todo' = [todo EXCEPT ![t] = @ \ {a}]
  /\ streams' = [streams EXCEPT ![t] = @ \cup {a}]
  /\ conn' = [conn EXCEPT ![a] = t]
  /\ wire' = [wire EXCEPT ![a] = <<>>]
  /\ read' = [read EXCEPT ![a] = {}]
  /\ acks' = [acks EXCEPT ![a] = {}]
  /\ \/ UNCHANGED backlog
     \/ backlog' = [backlog EXCEPT ![a] = @ \ {m \in Message : <<a, m>> \in given}]
  /\ UNCHANGED <<handle, registry, on, told, at, given, accepted, faults>>

AllConnected(t) ==
  /\ pc[t] = "connect"
  /\ todo[t] = {}
  /\ Goto(t, "announce")
  /\ UNCHANGED <<handle, registry, on, told, course, at, line, mail, faults>>

Announce(t) ==
  /\ pc[t] = "announce"
  /\ Goto(t, "select")
  /\ UNCHANGED <<handle, registry, on, told, course, at, line, mail, faults>>

ReadsFrame(t, a) ==
  /\ pc[t] = "streams"
  /\ a \in streams[t] /\ conn[a] = t
  /\ wire[a] # <<>>
  /\ Takes(t)
  /\ wire' = [wire EXCEPT ![a] = Tail(@)]

ReceiveData(t, a) ==
  /\ ReadsFrame(t, a)
  /\ Head(wire[a]) # Ping
  /\ read' = [read EXCEPT ![a] = @ \cup {Head(wire[a])}]
  /\ at' = [at EXCEPT ![t] = <<a, Head(wire[a])>>]
  /\ Goto(t, "callback")
  /\ UNCHANGED <<handle, registry, on, told, todo, streams, conn, acks, mail, faults>>

ReceivePing(t, a) ==
  /\ ReadsFrame(t, a)
  /\ Head(wire[a]) = Ping
  /\ acks' = [acks EXCEPT ![a] = @ \cup read[a]]
  /\ Goto(t, "select")
  /\ UNCHANGED <<handle, registry, on, told, todo, streams, at, conn, read, mail, faults>>

(* A connection this run had is gone: the other side closed it.                     *)
StreamEnds(t) ==
  /\ pc[t] = "streams"
  /\ \E a \in streams[t] : conn[a] # t
  /\ EndMcs(t)
  /\ UNCHANGED <<poisoned, given, faults>>

(* Faulty variant of Callback: an exception of the callback is ignored.             *)
CallbackIgnored(t) ==
  /\ pc[t] = "callback"
  /\ \/ given' = given \cup {at[t]} /\ UNCHANGED faults
     \/ Fault /\ UNCHANGED given
  /\ Goto(t, "ack")
  /\ UNCHANGED <<handle, registry, on, told, course, at, line, accepted, backlog>>

(* The Java callback takes the message, or throws before or after it has.           *)
Callback(t) ==
  /\ pc[t] = "callback"
  /\ \/ /\ given' = given \cup {at[t]}
        /\ Goto(t, "ack")
        /\ UNCHANGED <<handle, registry, on, told, course, at, line, accepted, backlog, faults>>
     \/ /\ Fault
        /\ given' = given \cup {at[t]} \/ UNCHANGED given
        /\ EndMcs(t)
        /\ UNCHANGED poisoned

(* write_all: on a dead connection it fails, or the bytes are lost in a buffer.     *)
Acknowledge(t) ==
  /\ pc[t] = "ack"
  /\ LET a == at[t][1] IN
       \/ /\ acks' = IF conn[a] = t THEN [acks EXCEPT ![a] = @ \cup read[a]] ELSE acks
          /\ at' = [at EXCEPT ![t] = <<>>]
          /\ Goto(t, "select")
          /\ UNCHANGED <<handle, registry, on, told, course, conn, wire, read, mail, faults>>
       \/ /\ conn[a] # t
          /\ EndMcs(t)
          /\ UNCHANGED <<poisoned, given, faults>>

(* StopperGuard: whatever sender is left is dropped.                                *)
DropGuard(t) ==
  /\ pc[t] = "guard"
  /\ TellOwner(on[t])
  /\ Return(t)
  /\ UNCHANGED <<flag, runtime, poisoned, stopped, registry, course, at, line, mail, faults>>

-------------------------------------------------------------------------------
(* FCM, external: modelled by what run_mcs expects of it.                           *)

Accept(a) ==
  /\ accepted[a] < MaxMessage
  /\ accepted' = [accepted EXCEPT ![a] = @ + 1]
  /\ backlog' = [backlog EXCEPT ![a] = @ \cup {accepted'[a]}]
  /\ UNCHANGED <<handle, registry, thread, line, given, faults>>

(* Each message once per connection, and a ping now and then.                       *)
ServerSends(a) ==
  /\ conn[a] # None
  /\ \E frame \in backlog[a] \cup {Ping} :
       /\ frame \notin read[a] \cup {wire[a][k] : k \in DOMAIN wire[a]}
       /\ wire' = [wire EXCEPT ![a] = Append(@, frame)]
  /\ UNCHANGED <<handle, registry, thread, conn, read, acks, mail, faults>>

ReadAcks(a) ==
  /\ acks[a] # {}
  /\ acks' = [acks EXCEPT ![a] = {}]
  /\ backlog' = [backlog EXCEPT ![a] = @ \ acks[a]]
  /\ UNCHANGED <<handle, registry, thread, conn, wire, read, given, accepted, faults>>

LineBreaks(a) ==
  /\ conn[a] # None
  /\ Fault
  /\ conn' = [conn EXCEPT ![a] = None]
  /\ wire' = [wire EXCEPT ![a] = <<>>]
  /\ acks' = [acks EXCEPT ![a] = {}] \/ UNCHANGED acks
  /\ UNCHANGED <<handle, registry, thread, read, mail>>

-------------------------------------------------------------------------------
Calls(t) ==
  \/ CreateHandle(t)
  \/ \E h \in Handles :
       CallRun(t, h) \/ CallRequest(t, h) \/ CallStop(t, h) \/ CallDestroy(t, h)

Stopping(t) == SetFlag(t) \/ TakeStopper(t)

Takings(t) ==
  StreamEnds(t) \/ \E a \in Apps : Connect(t, a) \/ ReceiveData(t, a) \/ ReceivePing(t, a)

Mcs(t) ==
  \/ SeeStop(t) \/ Pending(t) \/ Takings(t)
  \/ AllConnected(t) \/ Announce(t) \/ Callback(t) \/ Acknowledge(t)

Run(t) == InstallStopper(t) \/ StartMcs(t) \/ PollStop(t) \/ Mcs(t) \/ DropGuard(t)

Fails(t) == RunFails(t) \/ Panic(t)

Server == \E a \in Apps : Accept(a) \/ ServerSends(a) \/ ReadAcks(a) \/ LineBreaks(a)

Next ==
  \/ \E t \in Threads : Calls(t) \/ Stopping(t) \/ Request(t) \/ Run(t) \/ Fails(t)
  \/ Server

Spec == Init /\ [][Next]_vars

(* Threads run, callbacks, requests and writes of acknowledgements return, and a    *)
(* thread that waits for the runtime mutex gets it: no program makes requests back  *)
(* to back for ever.  Nothing is promised of the network: what a run waits for may  *)
(* be pending for ever, and the run asleep, unless it is told.                      *)
Fairness ==
  \A t \in Threads :
    /\ WF_vars(Stopping(t))
    /\ SF_vars(Request(t))
    /\ WF_vars(InstallStopper(t)) /\ SF_vars(StartMcs(t)) /\ WF_vars(DropGuard(t))
    /\ WF_vars(Mcs(t))

FairSpec == Spec /\ Fairness

-------------------------------------------------------------------------------
TypeOK ==
  /\ next \in 1..(MaxHandles + 1)
  /\ live \subseteq 1..(next - 1)
  /\ flag \in [Handles -> BOOLEAN]
  /\ stopper \in [Handles -> Threads \cup {None}]
  /\ runtime \in [Handles -> Threads \cup {None}]
  /\ poisoned \subseteq Handles /\ stopped \subseteq Handles
  /\ pc \in [Threads -> Phase]
  /\ on \in [Threads -> Handles \cup {0}]
  /\ told \in [Threads -> BOOLEAN]
  /\ todo \in [Threads -> SUBSET Apps] /\ streams \in [Threads -> SUBSET Apps]
  /\ late \in [Threads -> Nat]
  /\ at \in [Threads -> {<<>>} \cup (Apps \X Message)]
  /\ conn \in [Apps -> Threads \cup {None}]
  /\ wire \in [Apps -> Seq(Message \cup {Ping})]
  /\ read \in [Apps -> SUBSET Message] /\ acks \in [Apps -> SUBSET Message]
  /\ given \subseteq Apps \X Message
  /\ accepted \in [Apps -> 0..MaxMessage]
  /\ backlog \in [Apps -> SUBSET Message]
  /\ faults \in 0..MaxFaults

(* A run that goes on while a stop or a destroy of its handle has returned has been *)
(* told, in whatever order the flag, the stopper and the run were seen.             *)
StopDelivered == \A t \in Threads : Running(t) /\ on[t] \in stopped => told[t]

(* Once a stop or a destroy has returned, a run of the handle takes at most one     *)
(* more frame or connection, the one whose poll was under way, whatever else is     *)
(* ready and however many handles, threads and stops there are.                     *)
QuietAfterStop == \A t \in Threads : late[t] <= 1

(* No message is acknowledged, by stream id or heartbeat, that the callback has not *)
(* taken, although it throws and runs are stopped at any await.                     *)
NothingLost ==
  \A a \in Apps : \A m \in 1..accepted[a] : m \in backlog[a] \/ <<a, m>> \in given

(* After a stop or a destroy every run of the handle ends, those that were about to *)
(* start and those that wait for the network for ever included; so does every       *)
(* request that waits behind one.                                                   *)
EventuallyEnds ==
  \A t \in Threads :
    (Running(t) \/ pc[t] = "wait") /\ on[t] \in stopped ~> ~Running(t) /\ pc[t] # "wait"
===============================================================================
