------------------------------ MODULE UserFile -------------------------------
(***************************************************************************)
(* SaveUsers step by step: several handlers save at once through one       *)
(* temporary file, any system call may fail, the process may die between   *)
(* two of them, and the next start has to load what it finds.              *)
(*                                                                         *)
(* The database is abstracted to the set of changes made to it; each       *)
(* process makes one change and then calls SaveUsers.                      *)
(***************************************************************************)
EXTENDS Naturals

CONSTANTS Proc, NoProc, MaxCrashes

ASSUME ProcAssumption == NoProc \notin Proc /\ MaxCrashes \in Nat

VARIABLES
  mem,      \* the changes in User.users
  file,     \* the file at FilePath
  tmp,      \* the file at FilePath + "~"
  saveMu,   \* the process that holds User.saveMu, or NoProc
  pc, data, \* where each process is in SaveUsers, and what it marshalled
  up,       \* the server is running
  crashes

vars == <<mem, file, tmp, saveMu, pc, data, up, crashes>>

\* The bytes of a file: a marshalled database, or the torn beginning of one.
Torn == [whole |-> FALSE, changes |-> {}]
Whole(S) == [whole |-> TRUE, changes |-> S]
Contents == {Torn} \cup {Whole(S) : S \in SUBSET Proc}

Saving == {"marshal", "create", "write", "close", "rename"}
Ended == {"saved", "failed", "lost"}

Init ==
  /\ mem = {} /\ file = Whole({})
  /\ tmp \in {Torn, Whole({})}   \* absent is as good as any leftover
  /\ saveMu = NoProc
  /\ pc = [p \in Proc |-> "idle"]
  /\ data = [p \in Proc |-> {}]
  /\ up = TRUE /\ crashes = 0

At(p, where) == up /\ pc[p] = where
Go(p, where) == pc' = [pc EXCEPT ![p] = where]

Edit(p) ==
  /\ At(p, "idle")
  /\ mem' = mem \cup {p}
  /\ Go(p, "lock")
  /\ UNCHANGED <<file, tmp, saveMu, data, up, crashes>>

\* Wrong on purpose, for the mutation runs: nobody waits for saveMu.
LockShared(p) ==
  /\ At(p, "lock")
  /\ saveMu' = p
  /\ Go(p, "marshal")
  /\ UNCHANGED <<mem, file, tmp, data, up, crashes>>

Lock(p) ==
  /\ At(p, "lock") /\ saveMu = NoProc
  /\ saveMu' = p
  /\ Go(p, "marshal")
  /\ UNCHANGED <<mem, file, tmp, data, up, crashes>>

Marshal(p) ==
  /\ At(p, "marshal")
  /\ data' = [data EXCEPT ![p] = mem]
  /\ Go(p, "create")
  /\ UNCHANGED <<mem, file, tmp, saveMu, up, crashes>>

\* Wrong on purpose: the database is written in place, without a temporary file.
CreateInPlace(p) ==
  /\ At(p, "create")
  /\ tmp' = Torn /\ file' = Torn
  /\ Go(p, "write")
  /\ UNCHANGED <<mem, saveMu, data, up, crashes>>

\* os.Create truncates whatever an earlier save left behind.
Create(p) ==
  /\ At(p, "create")
  /\ tmp' = Torn
  /\ Go(p, "write")
  /\ UNCHANGED <<mem, file, saveMu, data, up, crashes>>

WriteAll(p) ==
  /\ At(p, "write")
  /\ tmp' = Whole(data[p])
  /\ Go(p, "close")
  /\ UNCHANGED <<mem, file, saveMu, data, up, crashes>>

Close(p) ==
  /\ At(p, "close")
  /\ Go(p, "rename")
  /\ UNCHANGED <<mem, file, tmp, saveMu, data, up, crashes>>

\* Wrong on purpose: the unlock is forgotten.
ReturnLocked(p, how) == UNCHANGED saveMu /\ Go(p, how)

\* The deferred unlock, whichever way SaveUsers returns.
Return(p, how) == saveMu' = NoProc /\ Go(p, how)

Rename(p) ==
  /\ At(p, "rename")
  /\ file' = tmp
  /\ tmp' = Torn
  /\ Return(p, "saved")
  /\ UNCHANGED <<mem, data, up, crashes>>

\* Wrong on purpose: an error of a system call is not looked at.
FailIgnored(p) ==
  /\ pc[p] \in Saving \ {"marshal"} /\ up
  /\ Return(p, "saved")
  /\ UNCHANGED <<mem, file, tmp, data, up, crashes>>

\* A failed write may leave any prefix behind: the file stays torn.
Fail(p) ==
  /\ pc[p] \in Saving \ {"marshal"} /\ up
  /\ Return(p, "failed")
  /\ UNCHANGED <<mem, file, tmp, data, up, crashes>>

Crash ==
  /\ up /\ crashes < MaxCrashes
  /\ crashes' = crashes + 1
  /\ up' = FALSE
  /\ mem' = {} /\ saveMu' = NoProc
  /\ data' = [p \in Proc |-> {}]
  /\ pc' = [p \in Proc |-> IF pc[p] \in Saving \cup {"lock"} THEN "lost" ELSE pc[p]]
  /\ UNCHANGED <<file, tmp>>

\* loadUsersFromFile: a torn file does not unmarshal, and New gives up.
Restart ==
  /\ ~up
  /\ file.whole
  /\ mem' = file.changes /\ up' = TRUE
  /\ UNCHANGED <<file, tmp, saveMu, pc, data, crashes>>

Save(p) ==
  Lock(p) \/ Marshal(p) \/ Create(p) \/ WriteAll(p) \/ Close(p) \/ Rename(p) \/ Fail(p)

Next == (\E p \in Proc : Edit(p) \/ Save(p)) \/ Crash \/ Restart

Spec == Init /\ [][Next]_vars

\* Goroutines are scheduled and system calls return; whoever runs the server
\* starts it again.
FairSpec == Spec /\ (\A p \in Proc : WF_vars(Save(p))) /\ WF_vars(Restart)

(***************************************************************************)
(* Properties.                                                             *)
(***************************************************************************)
TypeOK ==
  /\ mem \subseteq Proc
  /\ file \in Contents /\ tmp \in Contents
  /\ saveMu \in Proc \cup {NoProc}
  /\ pc \in [Proc -> {"idle", "lock"} \cup Saving \cup Ended]
  /\ data \in [Proc -> SUBSET Proc]
  /\ up \in BOOLEAN /\ crashes \in Nat

\* saveMu: one process at a time is between Lock and its return, and the
\* temporary file it is about to rename is the one it has written.
SaverOwnsTmp ==
  /\ \A p \in Proc : pc[p] \in Saving <=> saveMu = p
  /\ \A p \in Proc : pc[p] \in {"close", "rename"} => tmp = Whole(data[p])

\* What a save is about to write holds everything in the file already, and
\* the change of the process that saves.
SavesGrow ==
  /\ up => file.changes \subseteq mem
  /\ \A p \in Proc : pc[p] = "idle" => p \notin mem \cup file.changes
  /\ \A p \in Proc : pc[p] \in Saving \cup {"lock"} => up /\ p \in mem
  /\ \A p \in Proc : pc[p] \in Saving \ {"marshal"} =>
       p \in data[p] /\ file.changes \subseteq data[p] /\ data[p] \subseteq mem
  /\ \A p \in Proc : pc[p] = "saved" => p \in file.changes

\* The file at FilePath is a whole database at every moment, so a start never
\* fails on one that a dying process left half written.
FileWhole == file.whole

IInv == TypeOK /\ FileWhole /\ SaverOwnsTmp /\ SavesGrow

\* SaveUsers keeps the promise of DurableLog through failures and crashes.
Durable == INSTANCE DurableLog WITH
  Entry <- Proc,
  mem <- IF up THEN mem ELSE file.changes,
  disk <- file.changes,
  acked <- {p \in Proc : pc[p] = "saved"}

ImplementsDurableLog == Durable!DSpec

\* A server that died comes up again on the file it left.
ServerComesBack == ~up ~> up

\* A handler that saves gets an answer: nobody keeps saveMu for ever.
EverySaveReturns == \A p \in Proc : pc[p] = "lock" ~> pc[p] \in Ended
=============================================================================
