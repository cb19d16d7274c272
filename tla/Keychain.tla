------------------------------ MODULE Keychain -------------------------------
(***************************************************************************)
(* pkg/keychain: the list of keys of a provider.  Every key of this        *)
(* program has the one key id SigningKeyKid, so Get finds a key as soon    *)
(* as there is one.                                                        *)
(***************************************************************************)
EXTENDS Sequences

CONSTANT Key

VARIABLE keySet

Get == keySet # <<>>

Add(k) == keySet' = Append(keySet, k)

Create(k) == ~Get /\ Add(k)

\* GetUserinfoFromToken verifies with the first key of GetAll.
VerifyingKey == keySet[1]
=============================================================================
