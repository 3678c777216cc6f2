----------------------------- MODULE TargetRegistry -----------------------------
(***************************************************************************)
(* What the ConfigStore is for: a map from IDs to targets in memory, and   *)
(* one on disk that survives the process. An edit changes one entry of     *)
(* memory; a write that succeeds makes disk equal to memory, one that      *)
(* fails leaves it as it was. A start reads the disk, and may add entries  *)
(* of its own, under IDs the disk does not use.                            *)
(***************************************************************************)
CONSTANTS Ids, Contents, Absent

VARIABLES up, mem, disk

registryVars == <<up, mem, disk>>

Map == [Ids -> Contents \cup {Absent}]
Empty == [id \in Ids |-> Absent]

Persist == disk' \in {disk, mem'}

RegistryInit == up = FALSE /\ mem = Empty /\ disk \in Map

\* An edit of one entry leaves every other entry alone.
Edit(id) == /\ up /\ up'
            /\ mem' \in Map
            /\ \A other \in Ids \ {id} : mem'[other] = mem[other]
            /\ Persist

Write(id) == Edit(id) /\ mem'[id] # Absent

Drop(id) == Edit(id) /\ mem[id] # Absent /\ mem'[id] = Absent

WriteOther == up /\ up' /\ UNCHANGED mem /\ Persist

Boot == /\ ~up /\ up'
        /\ mem' \in Map
        /\ \A id \in Ids : disk[id] # Absent => mem'[id] = disk[id]
        /\ Persist

Halt == up /\ ~up' /\ mem' = Empty /\ UNCHANGED disk

RegistryNext == \/ \E id \in Ids : Write(id) \/ Drop(id)
                \/ WriteOther \/ Boot \/ Halt

RegistrySpec == RegistryInit /\ [][RegistryNext]_registryVars
=============================================================================
