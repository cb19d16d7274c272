--------------------------- MODULE UserFileProofs ----------------------------
(***************************************************************************)
(* For any number of processes and crashes: SaveUsers keeps the user file  *)
(* whole and implements DurableLog.                                        *)
(***************************************************************************)
EXTENDS UserFile, TLAPS

(***************************************************************************)
(* IInv is inductive.  One process holds saveMu from Lock to its return    *)
(* (SaverOwnsTmp), so nothing comes between what it writes to the          *)
(* temporary file and the rename; and what it marshalled under the lock    *)
(* contains the file (SavesGrow), so a rename never loses a change.        *)
(***************************************************************************)
LEMMA InitIInv == Init => IInv
<1> SUFFICES ASSUME Init PROVE IInv
  OBVIOUS
<1> USE ProcAssumption DEF Init, Saving, Ended
<1>1. Torn \in Contents /\ Whole({}) \in Contents
  BY DEF Contents
<1>2. TypeOK
  BY <1>1 DEF TypeOK
<1>3. FileWhole /\ file.changes = {}
  BY DEF FileWhole, Whole
<1>4. SaverOwnsTmp
  BY DEF SaverOwnsTmp
<1>5. SavesGrow
  BY <1>3 DEF SavesGrow
<1> QED
  BY <1>2, <1>3, <1>4, <1>5 DEF IInv

LEMMA StepIInv == IInv /\ [Next]_vars => IInv'
<1> SUFFICES ASSUME IInv, [Next]_vars PROVE IInv'
  OBVIOUS
<1> USE ProcAssumption
    DEF IInv, TypeOK, FileWhole, SaverOwnsTmp, SavesGrow, Saving, Ended, At, Go
<1>1. ASSUME NEW p \in Proc, Edit(p) PROVE IInv'
  BY <1>1 DEF Edit
<1>2. ASSUME NEW p \in Proc, Lock(p) PROVE IInv'
  BY <1>2 DEF Lock
<1>3. ASSUME NEW p \in Proc, Marshal(p) PROVE IInv'
  BY <1>3 DEF Marshal
<1>4. ASSUME NEW p \in Proc, Create(p) PROVE IInv'
  BY <1>4 DEF Create, Contents
<1>5. ASSUME NEW p \in Proc, WriteAll(p) PROVE IInv'
  BY <1>5 DEF WriteAll, Contents, Whole
<1>6. ASSUME NEW p \in Proc, Close(p) PROVE IInv'
  BY <1>6 DEF Close
<1>7. ASSUME NEW p \in Proc, Rename(p) PROVE IInv'
  BY <1>7 DEF Rename, Return, Contents, Whole, Torn
<1>8. ASSUME NEW p \in Proc, Fail(p) PROVE IInv'
  BY <1>8 DEF Fail, Return
<1>9. CASE Crash
  <2>1. \A p \in Proc : pc'[p] \notin Saving \cup {"lock"}
    BY <1>9 DEF Crash
  <2>2. \A p \in Proc : pc'[p] = "saved" => pc[p] = "saved"
    BY <1>9 DEF Crash
  <2>3. TypeOK'
    <3>1. pc' \in [Proc -> {"idle", "lock"} \cup Saving \cup Ended]
      BY <1>9 DEF Crash
    <3>2. data' \in [Proc -> SUBSET Proc]
      BY <1>9 DEF Crash
    <3>3. crashes' \in Nat
      BY <1>9 DEF Crash
    <3> QED
      BY <1>9, <3>1, <3>2, <3>3 DEF Crash
  <2>4. FileWhole' /\ SaverOwnsTmp'
    BY <1>9, <2>1 DEF Crash
  <2>5. SavesGrow'
    BY <1>9, <2>1, <2>2 DEF Crash
  <2> QED
    BY <2>3, <2>4, <2>5
<1>10. CASE Restart
  BY <1>10 DEF Restart, Contents, Whole, Torn
<1>11. CASE UNCHANGED vars
  BY <1>11 DEF vars
<1> QED
  BY <1>1, <1>2, <1>3, <1>4, <1>5, <1>6, <1>7, <1>8, <1>9, <1>10, <1>11
     DEF Next, Save

(***************************************************************************)
(* Every reachable state satisfies the invariant; in particular the types  *)
(* are right, saves do not interleave and the file at FilePath is whole.   *)
(***************************************************************************)
THEOREM SaveUsersIsSafe == Spec => []IInv
<1>1. Init => IInv
  BY InitIInv
<1>2. IInv /\ [Next]_vars => IInv'
  BY StepIInv
<1> QED
  BY <1>1, <1>2, PTL DEF Spec

\* The file at FilePath is a whole database whenever the server may be started
\* again: the temporary file and the rename of SaveUsers.
THEOREM FileStaysWhole == Spec => []FileWhole
<1>1. IInv => FileWhole
  BY DEF IInv
<1> QED
  BY <1>1, SaveUsersIsSafe, PTL

(***************************************************************************)
(* The refinement: Edit is Apply, Rename is Ack (and Persist), Crash is    *)
(* Lose, and everything else stutters.                                     *)
(***************************************************************************)
LEMMA InitRefines == Init => Durable!DInit
  BY DEF Init, Durable!DInit, Whole

LEMMA StepRefines == IInv /\ [Next]_vars => [Durable!DNext]_(Durable!dvars)
<1> SUFFICES ASSUME IInv, [Next]_vars PROVE [Durable!DNext]_(Durable!dvars)
  OBVIOUS
<1> DEFINE mem_ == IF up THEN mem ELSE file.changes
           acked_ == {p \in Proc : pc[p] = "saved"}
<1> USE DEF IInv, TypeOK, SaverOwnsTmp, SavesGrow, Saving, Ended, At, Go
<1>1. ASSUME NEW p \in Proc, Edit(p) PROVE Durable!Apply(p)
  BY <1>1 DEF Edit, Durable!Apply
<1>2. ASSUME NEW p \in Proc, Rename(p) PROVE Durable!Ack(p)
  <2>1. file'.changes = data[p]
    BY <1>2 DEF Rename, Whole
  <2>2. acked_' = acked_ \cup {p}
    BY <1>2 DEF Rename, Return
  <2>3. mem_' = mem_ /\ up
    BY <1>2 DEF Rename
  <2>4. p \in data[p] /\ file.changes \subseteq data[p] /\ data[p] \subseteq mem
    BY <1>2 DEF Rename
  <2> QED
    BY <2>1, <2>2, <2>3, <2>4 DEF Durable!Ack
<1>3. ASSUME NEW p \in Proc,
             Lock(p) \/ Marshal(p) \/ Create(p) \/ WriteAll(p) \/ Close(p) \/ Fail(p)
      PROVE UNCHANGED Durable!dvars
  <2>1. acked_' = acked_
    BY <1>3 DEF Lock, Marshal, Create, WriteAll, Close, Fail, Return
  <2>2. UNCHANGED <<mem, file, up>>
    BY <1>3 DEF Lock, Marshal, Create, WriteAll, Close, Fail
  <2> QED
    BY <2>1, <2>2 DEF Durable!dvars
<1>4. CASE Crash
  <2>1. acked_' = acked_
    BY <1>4 DEF Crash
  <2> QED
    BY <1>4, <2>1 DEF Crash, Durable!Lose, Durable!DNext
<1>5. CASE Restart
  BY <1>5 DEF Restart, Durable!dvars
<1>6. CASE UNCHANGED vars
  BY <1>6 DEF vars, Durable!dvars
<1> QED
  BY <1>1, <1>2, <1>3, <1>4, <1>5, <1>6 DEF Next, Save, Durable!DNext

\* Through failures and crashes SaveUsers does what DurableLog says: a change
\* is only answered with success when it is in the file, the file never goes
\* back, and a restart finds exactly what the file holds.
THEOREM SaveUsersImplementsDurableLog == Spec => ImplementsDurableLog
<1>1. Init => Durable!DInit
  BY InitRefines
<1>2. IInv /\ [Next]_vars => [Durable!DNext]_(Durable!dvars)
  BY StepRefines
<1> QED
  BY <1>1, <1>2, SaveUsersIsSafe, PTL DEF Spec, ImplementsDurableLog, Durable!DSpec
=============================================================================
