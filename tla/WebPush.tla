------------------------------- MODULE WebPush --------------------------------
(* DeviceSessionState::decrypt and decrypt_web_push of gcm.rs: which payloads a   *)
(* session opens, and what it makes of them.  Cryptography is perfect: a payload  *)
(* opens with the keys it was sealed for, if nobody has changed it.               *)
EXTENDS Integers, Sequences

CONSTANTS
  NoKeys,       (* a session without a key pair and authentication secret          *)
  HEADER_PREFIX_LEN, PUBLIC_KEY_LEN, AUTH_TAG_LEN

(* They are 21, 65 and 16; a record of one byte must reach the 18 of RFC 8188.    *)
ASSUME WebPushAssumption ==
  /\ HEADER_PREFIX_LEN \in Nat /\ PUBLIC_KEY_LEN \in Nat
  /\ AUTH_TAG_LEN \in Nat /\ AUTH_TAG_LEN >= 16

(* base64: the payload is base64; keyOnCurve: the sender's key is a point;        *)
(* sealedFor: the keys it was sealed for; intact: it is as it was sealed;         *)
(* plaintext: what was sealed, padding included; size: bytes in all.              *)
Payload(plaintext, keys) ==
  [base64 |-> TRUE, size |-> HEADER_PREFIX_LEN + PUBLIC_KEY_LEN + Len(plaintext) + AUTH_TAG_LEN,
   record_size |-> Len(plaintext) + AUTH_TAG_LEN + 1, key_id_len |-> PUBLIC_KEY_LEN,
   keyOnCurve |-> TRUE, sealedFor |-> keys, intact |-> TRUE, plaintext |-> plaintext]

(* RFC 8291, the sender's side: the message, the delimiter 2 and padding.         *)
Sealed(message, padding, keys) ==
  Payload(message \o <<2>> \o [n \in 1 .. padding |-> 0], keys)

-------------------------------------------------------------------------------
(* Faulty variant of Delimiters: the first byte that looks like the delimiter.    *)
FirstTwo(plaintext) ==
  {n \in DOMAIN plaintext : plaintext[n] = 2 /\ \A m \in 1 .. n - 1 : plaintext[m] # 2}

(* The last byte that is not zero, if there is one.                               *)
Delimiters(plaintext) ==
  {n \in DOMAIN plaintext : plaintext[n] # 0
                            /\ \A m \in n + 1 .. Len(plaintext) : plaintext[m] = 0}

CiphertextLen(payload) == payload.size - HEADER_PREFIX_LEN - payload.key_id_len

Opens(keys, payload) ==
  /\ keys # NoKeys
  /\ payload.base64
  /\ payload.size >= HEADER_PREFIX_LEN
  /\ payload.record_size >= 18
  /\ payload.key_id_len = PUBLIC_KEY_LEN
  /\ CiphertextLen(payload) > AUTH_TAG_LEN
  /\ CiphertextLen(payload) < payload.record_size
  /\ payload.keyOnCurve
  /\ payload.sealedFor = keys
  /\ payload.intact

(* The messages that decrypt returns: none, for an error, or one.                 *)
Decrypt(keys, payload) ==
  IF ~Opens(keys, payload) THEN {}
  ELSE {SubSeq(payload.plaintext, 1, n - 1) :
          n \in {m \in Delimiters(payload.plaintext) : payload.plaintext[m] = 2}}
===============================================================================
