----------------------------- MODULE DurableLog ------------------------------
(***************************************************************************)
(* What SaveUsers promises the handlers that call it: changes are made in  *)
(* memory, what reaches the disk is a whole earlier state of the memory    *)
(* and never goes back, and a change is only acknowledged once it is on    *)
(* the disk.  A crash leaves exactly what the disk holds.                  *)
(***************************************************************************)
CONSTANT Entry

VARIABLES mem, disk, acked

dvars == <<mem, disk, acked>>

DInit == mem = {} /\ disk = {} /\ acked = {}

Apply(c) ==
  /\ c \notin mem
  /\ mem' = mem \cup {c}
  /\ UNCHANGED <<disk, acked>>

Persist ==
  /\ disk \subseteq disk' /\ disk' \subseteq mem
  /\ UNCHANGED <<mem, acked>>

\* The last write to disk and its acknowledgement may be one step.
Ack(c) ==
  /\ c \in disk'
  /\ acked' = acked \cup {c}
  /\ disk \subseteq disk' /\ disk' \subseteq mem
  /\ UNCHANGED mem

Lose ==
  /\ mem' = disk
  /\ UNCHANGED <<disk, acked>>

DNext == (\E c \in Entry : Apply(c) \/ Ack(c)) \/ Persist \/ Lose

DSpec == DInit /\ [][DNext]_dvars
=============================================================================
