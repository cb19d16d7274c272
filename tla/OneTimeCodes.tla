---------------------------- MODULE OneTimeCodes -----------------------------
(***************************************************************************)
(* What authorization codes promise a relying party.  A code is taken at   *)
(* most once, by one request, for good: losing the answer, a retry or a    *)
(* restart never gives a second one.  Nothing takes a code away before its *)
(* lifetime is over except the death of the server; past its lifetime it   *)
(* lasts at most until the next code is issued.                            *)
(***************************************************************************)
EXTENDS Naturals

CONSTANTS Code, Taker, Lifetime

VARIABLES
  issued,  \* the codes handed out so far
  live,    \* those that still work
  born,    \* when each of those was issued (0 for the others)
  takes,   \* the pairs of a request and the code it took
  time

ovars == <<issued, live, born, takes, time>>

OInit ==
  /\ issued = {} /\ live = {} /\ takes = {}
  /\ born = [c \in Code |-> 0]
  /\ time = 0

Lapsed(D) == \A c \in D : time - born[c] >= Lifetime

Forgotten(D) == [c \in Code |-> IF c \in D THEN 0 ELSE born[c]]

\* Codes whose lifetime is over may lapse, and those well past it must.
Issue(c) ==
  /\ c \notin issued
  /\ issued' = issued \cup {c}
  /\ \E D \in SUBSET live :
       /\ Lapsed(D)
       /\ \A d \in live \ D : time - born[d] <= Lifetime
       /\ live' = (live \ D) \cup {c}
       /\ born' = [Forgotten(D) EXCEPT ![c] = time]
  /\ UNCHANGED <<takes, time>>

Take(q, c) ==
  /\ c \in live
  /\ \A p \in Taker : <<p, c>> \notin takes
  /\ \A d \in Code : <<q, d>> \notin takes
  /\ live' = live \ {c}
  /\ born' = Forgotten({c})
  /\ takes' = takes \cup {<<q, c>>}
  /\ UNCHANGED <<issued, time>>

Lapse ==
  /\ \E D \in SUBSET live :
       Lapsed(D) /\ live' = live \ D /\ born' = Forgotten(D)
  /\ UNCHANGED <<issued, takes, time>>

Advance == time' = time + 1 /\ UNCHANGED <<issued, live, born, takes>>

\* The process dies, and no code survives it.
Reset == live' = {} /\ born' = Forgotten(live) /\ UNCHANGED <<issued, takes, time>>

ONext ==
  \/ \E c \in Code : Issue(c)
  \/ \E q \in Taker, c \in Code : Take(q, c)
  \/ Lapse \/ Advance \/ Reset

OSpec == OInit /\ [][ONext]_ovars
=============================================================================
