---------------------------- MODULE SessionStore -----------------------------
(***************************************************************************)
(* internal/session: the in-memory table of login sessions.  Each operator *)
(* that primes sessions is one critical section of Session.mu.  A slot is  *)
(* Unborn until its id (a fresh ULID) is minted and Gone after it was      *)
(* deleted; the table of the code holds neither.                           *)
(***************************************************************************)

CONSTANTS SessionId, UserId, Unborn, Gone

VARIABLE sessions

TypeOK == sessions \in [SessionId -> UserId \cup {Unborn, Gone}]

Live(s) == sessions[s] \notin {Unborn, Gone}

Create(s, u) ==
  /\ sessions[s] = Unborn
  /\ sessions' = [sessions EXCEPT ![s] = u]

Delete(s) ==
  sessions' = IF Live(s) THEN [sessions EXCEPT ![s] = Gone] ELSE sessions

DeleteUserSessions(u) ==
  sessions' = [s \in SessionId |-> IF sessions[s] = u THEN Gone ELSE sessions[s]]

\* The table lives in memory only, so a restart forgets every session.
Forget ==
  sessions' = [s \in SessionId |-> IF Live(s) THEN Gone ELSE sessions[s]]
=============================================================================
