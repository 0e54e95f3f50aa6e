-------------------------------- MODULE Vapid ---------------------------------
(* VAPID validation (vapid.rs): the checks of validate in their order, and the   *)
(* clock arithmetic on the claim exp, which the sender chooses.  Base64, JSON    *)
(* and signatures are abstract: an Authorization header is a record of what the  *)
(* checks find in it, a key stands for both its halves, and so for whoever       *)
(* signs with it.                                                                *)
EXTENDS Integers

CONSTANTS
  Keys,               (* values of vapid in a registration                         *)
  Undecodable,        (* those that are not 87 characters of base64 and 0x04       *)
  OffCurve,           (* those that decode and are no point of the curve           *)
  Headers,            (* Authorization headers that senders send                   *)
  Clock,              (* readings of the clock, in seconds                         *)
  U64_MAX,            (* the largest u64                                           *)
  MAX_EXP_AHEAD_SECS,
  CLOCK_SKEW_SECS

(* present: there is a header; wellFormed: the scheme is vapid, with t= and k=;  *)
(* k: the key the header names; jwt: three parts that decode, alg ES256, JSON    *)
(* claims, a signature of the right form; signer: whose signature it is;         *)
(* exp: -1 if the claim is missing or not a u64; aud: the claim, without         *)
(* trailing slashes, against the public origin.                                  *)
Header == [present: BOOLEAN, wellFormed: BOOLEAN, k: Keys, jwt: BOOLEAN, signer: Keys,
           exp: (0 .. U64_MAX) \cup {-1}, aud: {"origin", "other", "missing"}]

ASSUME VapidAssumption ==
  /\ Undecodable \subseteq Keys /\ OffCurve \subseteq Keys
  /\ U64_MAX \in Nat /\ MAX_EXP_AHEAD_SECS \in Nat /\ CLOCK_SKEW_SECS \in Nat
  /\ Headers \subseteq Header
  /\ Clock \subseteq 0 .. U64_MAX

-------------------------------------------------------------------------------
(* Faulty variant of Decodes: a key is taken as it comes.                         *)
DecodesAnyway(key) == TRUE

(* decode_public_key.                                                            *)
Decodes(key) == key \notin Undecodable

(* Faulty variant of SaturatingAdd: the addition of a release build.              *)
WrappingAdd(a, b) == (a + b) % (U64_MAX + 1)

(* u64::saturating_add.                                                          *)
SaturatingAdd(a, b) == IF a + b > U64_MAX THEN U64_MAX ELSE a + b

Expired(exp, now) == SaturatingAdd(exp, CLOCK_SKEW_SECS) < now

TooFarAhead(exp, now) ==
  exp > SaturatingAdd(SaturatingAdd(now, MAX_EXP_AHEAD_SECS), CLOCK_SKEW_SECS)

(* What is checked, in the order of the code, and the answer if it fails.        *)
Checks(header, stored, now) ==
  << header.present,
     header.wellFormed,
     Decodes(stored) /\ header.k = stored,
     header.jwt,
     stored \notin OffCurve,
     header.signer = stored,
     header.exp >= 0,
     ~Expired(header.exp, now),
     ~TooFarAhead(header.exp, now),
     header.aud # "missing",
     header.aud = "origin" >>

VapidRejection ==
  << "missing_header", "malformed_header", "key_mismatch", "bad_token", "key_mismatch",
     "bad_signature", "bad_token", "expired", "too_far_ahead", "bad_token", "bad_audience" >>

(* The first check that fails decides.                                           *)
Validate(header, stored, now) ==
  LET checks == Checks(header, stored, now)
      failed == {n \in 1 .. 11 : ~checks[n]}
  IN  IF failed = {} THEN "accepted"
      ELSE VapidRejection[CHOOSE n \in failed : \A m \in failed : n <= m]

-------------------------------------------------------------------------------
(* What validation is for, in unbounded arithmetic: the header was signed with   *)
(* the key of the registration, for this bridge, and expires neither more than   *)
(* the skew ago nor more than a day and the skew ahead.                          *)
WithinWindow(exp, now) ==
  /\ exp + CLOCK_SKEW_SECS >= now
  /\ exp <= now + MAX_EXP_AHEAD_SECS + CLOCK_SKEW_SECS

Authorised(header, stored, now) ==
  /\ header.present /\ header.wellFormed /\ header.jwt
  /\ stored \notin Undecodable \cup OffCurve
  /\ header.k = stored /\ header.signer = stored
  /\ header.exp >= 0 /\ WithinWindow(header.exp, now)
  /\ header.aud = "origin"
===============================================================================
