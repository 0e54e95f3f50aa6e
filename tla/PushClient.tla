------------------------------ MODULE PushClient ------------------------------
(* A device of the listener crate: check-in, refresh, registration of apps and    *)
(* the connection (session.rs, gcm.rs), for one task that uses it.  An await of   *)
(* an operation is where it can fail and where a crash can fall.                  *)
(*                                                                                *)
(* What the bridge, or the Java side, stores of a device and its registrations is *)
(* stored together; Registration and NativeHandle model when.                     *)
EXTENDS McsStream, WebPush, FiniteSets

CONSTANTS
  None,
  MAX_RETRIES,        (* posts of one registration; 15 in the code                 *)
  MAX_PERSISTENT_IDS, (* ids in a login                                            *)
  Messages,           (* what senders send: sequences of bytes                     *)
  MaxPadding,         (* bound: the padding of a message                           *)
  MaxKeys,            (* bound: key pairs generated                                *)
  MaxCalls            (* bound: calls of the library                               *)

ASSUME PushClientAssumption ==
  /\ MAX_RETRIES \in Nat \ {0} /\ MAX_PERSISTENT_IDS \in Nat
  /\ MaxPadding \in Nat /\ MaxKeys \in Nat /\ MaxCalls \in Nat
  /\ NoKeys \notin 1 .. MaxKeys
  /\ Messages \subseteq Seq(Nat)

VARIABLES
  memory,   (* the session at hand, with its registrations                         *)
  stored,   (* what has been stored                                                *)
  call,     (* the call that runs                                                  *)
  attempt,  (* the post of a registration                                          *)
  made,     (* key pairs generated; they are random in the code                    *)
  calls     (* calls so far                                                        *)

device == <<memory, stored, call, attempt, made, calls>>
vars == <<stream, device>>

Keys == 1 .. MaxKeys \cup {NoKeys}

(* keys: private_key, public_key and auth_secret, which are there or missing      *)
(* together; tokens: for each registration the keys that Google was told of.      *)
Session == [keys: Keys, tokens: SUBSET Keys]

Call == {"idle", "checkin", "refresh", "installation", "register", "connect", "open"}

(* A session that was stored before there were keys has none.                     *)
Init ==
  /\ StreamInit
  /\ memory = None
  /\ stored \in {None, [keys |-> NoKeys, tokens |-> {}]}
  /\ call = "idle"
  /\ attempt = 0
  /\ made = 0
  /\ calls = 0

Start(what) ==
  /\ call = "idle"
  /\ calls < MaxCalls
  /\ calls' = calls + 1
  /\ call' = what
  /\ UNCHANGED <<memory, stored, made>>

(* The call is over; an error leaves the session as it was.                       *)
Return ==
  /\ call' = "idle"
  /\ attempt' = 0

-------------------------------------------------------------------------------
(* Check-in.                                                                      *)

(* DeviceSession::fresh.                                                          *)
Fresh == Start("checkin") /\ UNCHANGED <<attempt, stream>>

(* generate_keys.                                                                 *)
GenerateKeys ==
  /\ made < MaxKeys
  /\ made' = made + 1

(* The answer has both numbers and there is randomness.                           *)
CheckIn ==
  /\ call = "checkin"
  /\ GenerateKeys
  /\ memory' = [keys |-> made', tokens |-> {}]
  /\ Return
  /\ UNCHANGED <<stored, calls, stream>>

Refresh ==
  /\ memory # None
  /\ Start("refresh")
  /\ UNCHANGED <<attempt, stream>>

(* Faulty variant of HasKeys: every refresh makes new keys.                       *)
NeverHasKeys == FALSE

HasKeys == memory.keys # NoKeys

Refreshed ==
  /\ call = "refresh"
  /\ IF HasKeys THEN UNCHANGED <<memory, made>>
     ELSE GenerateKeys /\ memory' = [memory EXCEPT !.keys = made']
  /\ Return
  /\ UNCHANGED <<stored, calls, stream>>

-------------------------------------------------------------------------------
(* AppRegistration::register: a Firebase installation, then a GCM token.          *)

Register ==
  /\ memory # None
  /\ Start("installation")
  /\ UNCHANGED <<attempt, stream>>

Installed ==
  /\ call = "installation"
  /\ call' = "register"
  /\ attempt' = 1
  /\ UNCHANGED <<memory, stored, made, calls, stream>>

(* Google registers the keys of the session, or none.                             *)
Token ==
  /\ call = "register"
  /\ memory' = [memory EXCEPT !.tokens = @ \cup {memory.keys}]
  /\ Return
  /\ UNCHANGED <<stored, made, calls, stream>>

(* Faulty variant of MayRetry: one post too many.                                 *)
MayRetryOnce == attempt <= MAX_RETRIES

MayRetry == attempt < MAX_RETRIES

(* PHONE_REGISTRATION_ERROR, the only error that is tried again.                  *)
Retry ==
  /\ call = "register"
  /\ MayRetry
  /\ attempt' = attempt + 1
  /\ UNCHANGED <<memory, stored, call, made, calls, stream>>

(* No randomness, no connection, an answer that is too large, malformed, an       *)
(* error, or lacks something.                                                     *)
Fail ==
  /\ call \in {"checkin", "refresh", "installation", "register", "connect"}
  /\ Return
  /\ UNCHANGED <<memory, stored, made, calls, stream>>

-------------------------------------------------------------------------------
(* The connection.                                                                *)

(* connect: a history of ids that is too long is refused before anything is sent. *)
Connect(ids) ==
  /\ memory # None
  /\ ids <= MAX_PERSISTENT_IDS
  /\ Start("connect")
  /\ UNCHANGED <<attempt, stream>>

(* The login is written and the server's version read.                            *)
Connected ==
  /\ call = "connect"
  /\ call' = "open"
  /\ Open
  /\ UNCHANGED <<memory, stored, attempt, made, calls>>

Streaming ==
  /\ call = "open"
  /\ PollNext
  /\ UNCHANGED device

Disconnect ==
  /\ call = "open"
  /\ Drop
  /\ Return
  /\ UNCHANGED <<memory, stored, made, calls>>

-------------------------------------------------------------------------------
(* What a caller keeps.                                                           *)

(* state, into_state.                                                             *)
Save ==
  /\ call = "idle" /\ memory # None
  /\ stored' = memory
  /\ UNCHANGED <<memory, call, attempt, made, calls, stream>>

(* restore.                                                                       *)
Restore ==
  /\ call = "idle" /\ stored # None
  /\ memory' = stored
  /\ UNCHANGED <<stored, call, attempt, made, calls, stream>>

(* The process ends, whatever it is at.                                           *)
Crash ==
  /\ memory # None \/ call # "idle"
  /\ memory' = None
  /\ Return
  /\ Drop \/ (phase = "closed" /\ UNCHANGED stream)
  /\ UNCHANGED <<stored, made, calls>>

Next ==
  \/ Fresh \/ CheckIn \/ Refresh \/ Refreshed
  \/ Register \/ Installed \/ Token \/ Retry \/ Fail
  \/ (\E ids \in 0 .. MAX_PERSISTENT_IDS + 1 : Connect(ids)) \/ Connected \/ Streaming \/ Disconnect
  \/ Save \/ Restore \/ Crash

Spec == Init /\ [][Next]_vars

-------------------------------------------------------------------------------
(* Properties.                                                                    *)

TypeOK ==
  /\ StreamTypeOK
  /\ memory \in Session \cup {None}
  /\ stored \in Session \cup {None}
  /\ call \in Call
  /\ call \in {"refresh", "installation", "register", "connect", "open"} => memory # None
  /\ (call = "open") <=> (phase # "closed")
  /\ attempt \in 0 .. MAX_RETRIES
  /\ (call = "register") <=> (attempt > 0)
  /\ made \in 0 .. MaxKeys
  /\ calls \in 0 .. MaxCalls

(* Whoever was registered with the keys of a session can be read by that session  *)
(* as it is now, and as it comes back after a crash: whatever refreshes have      *)
(* succeeded, failed or been lost since, a message with any padding is decrypted  *)
(* to what was sent, and one sealed for other keys, changed on its way or without *)
(* a delimiter to nothing.                                                        *)
Reads(session) ==
  \A token \in session.tokens \ {NoKeys}, message \in Messages, padding \in 0 .. MaxPadding :
    LET payload == Sealed(message, padding, token) IN
      /\ Decrypt(session.keys, payload) = {message}
      /\ Decrypt(session.keys, [payload EXCEPT !.intact = FALSE]) = {}
      /\ \A keys \in Keys \ {session.keys} : Decrypt(keys, payload) = {}
      /\ Decrypt(session.keys, [payload EXCEPT !.plaintext = [n \in 1 .. padding + 1 |-> 0]]) = {}

Readable == \A session \in {memory, stored} \ {None} : Reads(session)
===============================================================================
