----------------------------- MODULE RedisStore -----------------------------
(***************************************************************************)
(* The key-value store behind src/utils/redis_storage.ts, reduced to the   *)
(* four commands the service relies on: SETEX, GET, DEL and EXISTS.  A     *)
(* store is a function from keys to entries; a store value is never        *)
(* touched after it was written, so expiry is a comparison with the clock  *)
(* and not a step of its own.                                              *)
(*                                                                         *)
(* A command may fail.  A read that fails answers nothing.  A write that   *)
(* fails was either refused (it changed nothing) or applied with its reply *)
(* lost on the way back: the TaskEither is a Left in both cases, and the   *)
(* handler cannot tell them apart.                                         *)
(***************************************************************************)
EXTENDS Optional, Integers

Absent == [value |-> Missing, expireAt |-> 0]

IsLive(entry, now) == now < entry.expireAt

(***************************************************************************)
(* What became of a write.                                                 *)
(***************************************************************************)
WriteOutcome == {"replied", "refused", "unacknowledged"}

\* A write that changed the store; one whose caller is told so.
Landed(outcome) == outcome # "refused"
\* Slip: a failed command taken for a done one.
AcknowledgedAnyway(outcome) == TRUE
Acknowledged(outcome) == outcome = "replied"

\* Redis answers SETEX with an error, and stores nothing, unless ttl > 0.
SetExOutcomes(ttl) == IF ttl > 0 THEN WriteOutcome ELSE {"refused"}

\* Slip: a key that is the prefix alone, shared by all tokens.
SetExSharedKey(store, key, value, ttl, now) ==
  [k \in DOMAIN store |-> [value |-> value, expireAt |-> now + ttl]]

SetEx(store, key, value, ttl, now) ==
  [store EXCEPT ![key] = [value |-> value, expireAt |-> now + ttl]]

\* Slip: the key to delete is spelled with another prefix.
DelElsewhere(store, key) == store

Del(store, key) == [store EXCEPT ![key] = Absent]

(***************************************************************************)
(* The replies of the two reads, as singleValueReplyAsync and              *)
(* integerReplyAsync(1) hand them to the caller.                           *)
(***************************************************************************)
Get(store, key, now) ==
  IF IsLive(store[key], now) THEN store[key].value ELSE Missing

Exists(store, key, now) == IsLive(store[key], now)
=============================================================================
