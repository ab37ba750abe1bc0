-------------------------------- MODULE Access --------------------------------
(***************************************************************************)
(* Who may call the HTTP API, and how often: API keys, the rate limiter and *)
(* the server that asks both (engine/auth.py, engine/ratelimit.py,          *)
(* engine/server.py).                                                       *)
(*                                                                         *)
(* The server handles one request at a time, with a cache of the keys that  *)
(* is read once, at its start.  The commands `auth create` and              *)
(* `auth revoke` are processes of their own on the same files.  A key file  *)
(* is rewritten in place at each request that its key makes.                *)
(***************************************************************************)
EXTENDS Naturals

CONSTANTS
  Key,         \* API keys
  Rate, Burst, \* tokens per unit of time, and size of a bucket
  MaxNow,      \* bound: units of time
  MaxKills     \* bound: times that the server is killed

ASSUME AccessAssumption ==
  Rate \in Nat /\ Burst \in Nat \ {0} /\ MaxNow \in Nat /\ MaxKills \in Nat

VARIABLES
  keyFile,    \* what the file of a key says: enabled, or not; torn, or none
  keyCache,   \* what the server's cache says of a key
  expired,    \* keys past expires_at
  serving,    \* the server runs
  revoked,    \* keys revoked, unless by a command under a server that had them cached
  bucket,     \* tokens of a key, at last_refill
  served,     \* requests of a key let through, and the time of the first
  now, kills

accessVars == <<keyFile, keyCache, expired, serving, revoked, bucket, served, now, kills>>

NoBucket == [tokens |-> 0, at |-> 0, full |-> TRUE]
Unserved == [count |-> 0, since |-> 0]

AccessInit ==
  /\ keyFile = [k \in Key |-> "none"] /\ keyCache = [k \in Key |-> "none"]
  /\ expired = {} /\ serving = FALSE /\ revoked = {}
  /\ bucket = [k \in Key |-> NoBucket] /\ served = [k \in Key |-> Unserved]
  /\ now = 0 /\ kills = 0

-----------------------------------------------------------------------------
\* AuthManager

\* create_key in a process of its own: a running server does not learn of it.
CreateKey(k) ==
  /\ keyFile[k] = "none" /\ keyCache[k] = "none"
  /\ keyFile' = [keyFile EXCEPT ![k] = "enabled"]
  /\ UNCHANGED <<keyCache, expired, serving, revoked, bucket, served, now, kills>>

\* Variant: the key is disabled in the cache only.
RevokesCached(k, here) ==
  /\ keyFile' = IF here THEN keyFile ELSE [keyFile EXCEPT ![k] = "disabled"]
  /\ keyCache' = IF here THEN [keyCache EXCEPT ![k] = "disabled"] ELSE keyCache

\* revoke_key, by the server's own manager or in a process of its own
Revokes(k, here) ==
  /\ keyFile' = [keyFile EXCEPT ![k] = "disabled"]
  /\ keyCache' = IF here THEN [keyCache EXCEPT ![k] = "disabled"] ELSE keyCache

RevokeKey(k, here) ==
  /\ IF here THEN serving /\ keyCache[k] # "none" ELSE keyFile[k] \in {"enabled", "disabled"}
  /\ Revokes(k, here)
  /\ revoked' = IF here \/ keyCache[k] # "enabled" THEN revoked \cup {k} ELSE revoked
  /\ UNCHANGED <<expired, serving, bucket, served, now, kills>>

\* _load_cache leaves out what it cannot parse.
Loaded(k) == IF keyFile[k] = "torn" THEN "none" ELSE keyFile[k]

-----------------------------------------------------------------------------
\* RateLimiter.check, for one token

\* Variant: a request that is let through does not move last_refill.
RefilledTwice(k) ==
  LET b == bucket[k] t == b.tokens + (now - b.at) * Rate
      full == IF t < Burst THEN t ELSE Burst
  IN  IF b.full THEN [tokens |-> Burst - 1, at |-> now, full |-> FALSE]
      ELSE [tokens |-> IF full >= 1 THEN full - 1 ELSE full, at |-> b.at, full |-> FALSE]

\* Tokens the bucket has now, and the bucket after the request
Tokens(k) ==
  LET b == bucket[k] t == b.tokens + (now - b.at) * Rate
  IN  IF b.full \/ t > Burst THEN Burst ELSE t

Refilled(k) ==
  [tokens |-> IF Tokens(k) >= 1 THEN Tokens(k) - 1 ELSE Tokens(k), at |-> now, full |-> FALSE]

-----------------------------------------------------------------------------
\* The server

\* ProdinamikServer(), with a manager and a limiter of its own, and start()
StartServer ==
  /\ ~serving /\ serving' = TRUE
  /\ keyCache' = [k \in Key |-> Loaded(k)]
  /\ bucket' = [k \in Key |-> NoBucket] /\ served' = [k \in Key |-> Unserved]
  /\ UNCHANGED <<keyFile, expired, revoked, now, kills>>

\* stop(), or the end of the process
StopServer ==
  /\ serving /\ serving' = FALSE
  /\ keyCache' = [k \in Key |-> "none"]
  /\ UNCHANGED <<keyFile, expired, revoked, bucket, served, now, kills>>

\* _handle_api: validate_key writes the key as it is cached, then the limiter is asked.
Request(k) ==
  /\ serving /\ keyCache[k] = "enabled" /\ k \notin expired
  /\ keyFile' = [keyFile EXCEPT ![k] = "enabled"]
  /\ bucket' = [bucket EXCEPT ![k] = Refilled(k)]
  /\ served' = IF Tokens(k) < 1 THEN served
               ELSE [served EXCEPT ![k] = [count |-> @.count + 1,
                                           since |-> IF @.count = 0 THEN now ELSE @.since]]
  /\ UNCHANGED <<keyCache, expired, serving, revoked, now, kills>>

\* The process is killed while it rewrites the file of a key.
Killed(k) ==
  /\ serving /\ keyCache[k] = "enabled" /\ k \notin expired /\ kills < MaxKills
  /\ keyFile' = [keyFile EXCEPT ![k] = "torn"] /\ serving' = FALSE
  /\ keyCache' = [j \in Key |-> "none"] /\ kills' = kills + 1
  /\ UNCHANGED <<expired, revoked, bucket, served, now>>

\* reset(key) of the limiter
ResetLimit(k) ==
  /\ serving /\ bucket' = [bucket EXCEPT ![k] = NoBucket]
  /\ served' = [served EXCEPT ![k] = Unserved]
  /\ UNCHANGED <<keyFile, keyCache, expired, serving, revoked, now, kills>>

Expires(k) ==
  /\ k \notin expired /\ keyFile[k] # "none" /\ expired' = expired \cup {k}
  /\ UNCHANGED <<keyFile, keyCache, serving, revoked, bucket, served, now, kills>>

ClockTicks ==
  /\ now < MaxNow /\ now' = now + 1
  /\ UNCHANGED <<keyFile, keyCache, expired, serving, revoked, bucket, served, kills>>

AccessNext ==
  \/ \E k \in Key : \/ CreateKey(k) \/ Expires(k) \/ Request(k) \/ Killed(k) \/ ResetLimit(k)
                    \/ \E here \in BOOLEAN : RevokeKey(k, here)
  \/ StartServer \/ StopServer \/ ClockTicks

-----------------------------------------------------------------------------
\* Properties

\* Keys, buckets and the clock keep their types.
AccessTypeOK ==
  /\ keyFile \in [Key -> {"none", "enabled", "disabled", "torn"}]
  /\ keyCache \in [Key -> {"none", "enabled", "disabled"}]
  /\ \A k \in Key : bucket[k].tokens \in 0..Burst /\ bucket[k].at \in 0..now
  /\ serving \in BOOLEAN /\ now \in 0..MaxNow

\* "Revoke (disable) a key": a key revoked by the server's manager, or by a command while no
\* server runs or under one that does not know the key, is never accepted again, across
\* restarts of the server and crashes in the middle of a write.  (A key revoked by a command
\* under a server that has it cached is: the server goes by its cache, and the next request
\* with the key writes it back as enabled.)
RevokedStaysOut == \A k \in revoked : keyCache[k] # "enabled" /\ keyFile[k] # "enabled"

\* "Token bucket": in any time since its first request, a key gets no more requests through
\* than a full bucket and what was refilled since.
BurstBound == \A k \in Key : served[k].count <= Burst + Rate * (now - served[k].since)
=============================================================================
