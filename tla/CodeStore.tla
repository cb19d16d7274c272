------------------------------ MODULE CodeStore ------------------------------
(***************************************************************************)
(* internal/codestore: the in-memory table of authorization codes.  Every  *)
(* operator that primes codes is one critical section of CodeStore.mu.  A  *)
(* slot is Unborn until its code (a fresh ULID) is minted and Gone after   *)
(* it left the table; the map of the code holds neither.                   *)
(*                                                                         *)
(* The code compares instants to the millisecond.  Two instants that are   *)
(* TTL ticks of the clock apart may be a little more or a little less than *)
(* the time to live apart, so at that age a clean-up may go either way.    *)
(***************************************************************************)
EXTENDS Naturals

CONSTANTS
  Code, Token,
  CodeTTL,        \* how long a code is good for; 0 switches the clean-up off
  Unborn, Gone

VARIABLES codes, now

Entry == [token : Token, at : Nat]

TypeOK == codes \in [Code -> Entry \cup {Unborn, Gone}]

Stored(c) == codes[c] \notin {Unborn, Gone}

Age(c) == now - codes[c].at

\* The sets of codes that cleanUp may delete: all that are too old.
StaleSets ==
  {D \in SUBSET {c \in Code : Stored(c)} :
     IF CodeTTL = 0 THEN D = {}
     ELSE \A c \in Code : Stored(c) =>
            /\ Age(c) > CodeTTL => c \in D
            /\ Age(c) < CodeTTL => c \notin D}

CleanUp ==
  \E D \in StaleSets :
    codes' = [c \in Code |-> IF c \in D THEN Gone ELSE codes[c]]

\* Wrong on purpose: a new code does not clean up, and only an explicit call
\* of CleanUp does.
CreateOnly(c, t) ==
  /\ codes[c] = Unborn
  /\ codes' = [codes EXCEPT ![c] = [token |-> t, at |-> now]]

\* A new code for the token t; cleanUp runs first, under the same lock.
Create(c, t) ==
  /\ codes[c] = Unborn
  /\ \E D \in StaleSets :
       codes' = [x \in Code |->
                   IF x = c THEN [token |-> t, at |-> now]
                   ELSE IF x \in D THEN Gone ELSE codes[x]]

\* Pop does not look at the age of the code.
Pop(c) == Stored(c) /\ codes' = [codes EXCEPT ![c] = Gone]

\* The table lives in memory only.
Forget == codes' = [c \in Code |-> IF Stored(c) THEN Gone ELSE codes[c]]
=============================================================================
