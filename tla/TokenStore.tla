----------------------------- MODULE TokenStore ------------------------------
(***************************************************************************)
(* internal/tokenstore: the in-memory list of revoked tokens, each with    *)
(* the time of its (last) revocation.  Every operator that primes          *)
(* revokedTokens is one critical section of TokenStore.mu.  As in          *)
(* CodeStore a revocation that is RevokedTTL ticks old may be counted as   *)
(* too old or not.                                                         *)
(***************************************************************************)
EXTENDS Naturals

CONSTANTS
  Token,
  RevokedTTL,     \* Config.TTL: how long a revocation is remembered
  NotRevoked      \* marks a token that is not in the list

VARIABLES revokedTokens, now

TypeOK == revokedTokens \in [Token -> Nat \cup {NotRevoked}]

Init == revokedTokens = [t \in Token |-> NotRevoked]

IsRevoked(t) == revokedTokens[t] # NotRevoked

Revoke(t) == revokedTokens' = [revokedTokens EXCEPT ![t] = now]

Since(t) == now - revokedTokens[t]

\* Wrong on purpose: a revocation is forgotten a tick early.
OldSetsOffByOne ==
  {D \in SUBSET {t \in Token : IsRevoked(t)} :
     \A t \in D : Since(t) >= RevokedTTL - 1}

\* The sets of revocations that CleanUp may delete.
OldSets ==
  {D \in SUBSET {t \in Token : IsRevoked(t)} :
     \A t \in Token : IsRevoked(t) =>
       /\ Since(t) > RevokedTTL => t \in D
       /\ Since(t) < RevokedTTL => t \notin D}

CleanUp ==
  \E D \in OldSets :
    revokedTokens' = [t \in Token |-> IF t \in D THEN NotRevoked ELSE revokedTokens[t]]

\* The list lives in memory only.
Forget == revokedTokens' = [t \in Token |-> NotRevoked]
=============================================================================
