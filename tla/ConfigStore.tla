------------------------------ MODULE ConfigStore ------------------------------
(***************************************************************************)
(* The ConfigStore: the configuration in memory, the file behind it, and   *)
(* the operations that change them (internal/app/config.go 144-326). Each  *)
(* operation runs under c.mu from its lookup to the end of its write, so   *)
(* each is one action. The write is all or nothing and may fail: that is   *)
(* what AtomicWrite implements, for a process that has the file to itself. *)
(*                                                                         *)
(* As in the code, memory changes first and is not rolled back when the    *)
(* write fails.                                                            *)
(***************************************************************************)
EXTENDS Target, SequencesExt

CONSTANTS
  Requests,   \* targets as clients send them, with or without an ID
  Remotes,    \* remote dashboard settings: host, user and session token
  Example,    \* the target of defaultConfig
  NoRemote,   \* the remote settings of defaultConfig
  NoFile,     \* there is no config file
  HandFiles,  \* config files an administrator wrote, without duplicate IDs
  NoTarget,   \* no target of some ID
  WriteResults  \* what a write of the file may return: TRUE, or FALSE too

ASSUME ConfigStoreAssumption ==
  /\ \A t \in Requests : t \in TargetType(Ids \cup {Blank})
  /\ Example \in TargetType(Ids)
  /\ NoRemote \in Remotes
  /\ WriteResults \subseteq BOOLEAN
  /\ \A f \in HandFiles :
       /\ f.remote \in Remotes
       /\ f.targets \in Seq(Requests)
       /\ \A i, j \in DOMAIN f.targets :
            f.targets[i].id = f.targets[j].id => i = j \/ f.targets[i].id = Blank

VARIABLES
  up,     \* the process is running
  cfg,    \* c.cfg: its targets, in order, and its remote settings
  file    \* what the config file holds

storeVars == <<up, cfg, file>>

Config(targets, remote) == [targets |-> targets, remote |-> remote]
defaultConfig == Config(<<Example>>, NoRemote)

(* A target's position: the first with the ID, as every loop of the code   *)
(* over c.cfg.Targets finds it; 0 if there is none.                        *)
Has(ts, id) == \E i \in DOMAIN ts : ts[i].id = id
Find(ts, id) ==
  IF Has(ts, id)
    THEN CHOOSE i \in DOMAIN ts : /\ ts[i].id = id
                                  /\ \A j \in DOMAIN ts : j < i => ts[j].id # id
    ELSE 0

IdsOf(ts) == {ts[i].id : i \in DOMAIN ts}

(* generateID draws 32 random bits. The model leaves out the collision     *)
(* with an ID that is in use.                                              *)
FreshIds == Ids \ (IdsOf(cfg.targets)
                     \cup IF file = NoFile THEN {} ELSE IdsOf(file.targets))

(* The IDs under which a request may be saved.                             *)
AssignedIds(t) == IF t.id = Blank THEN FreshIds ELSE {t.id}

Saved(t, id) == [normalized(t) EXCEPT !.id = id]
SavedTargets == {Saved(t, id) : t \in Requests \cup {Example}, id \in Ids}

ASSUME NoTargetAssumption == NoTarget \notin SavedTargets

-----------------------------------------------------------------------------
writeConfig(c, ok) == file' = IF ok THEN c ELSE file

(* Mutants: every save appends; a save moves the target to the end.        *)
PutAppends(ts, t) == Append(ts, t)
PutMoves(ts, t) ==
  Append(IF Has(ts, t.id) THEN RemoveAt(ts, Find(ts, t.id)) ELSE ts, t)

Put(ts, t) == IF Has(ts, t.id) THEN ReplaceAt(ts, Find(ts, t.id), t)
                               ELSE Append(ts, t)

(* Mutant: the target is stored as it was sent.                            *)
UpsertRaw(t, id, ok) ==
  /\ up
  /\ validate(t)
  /\ cfg' = [cfg EXCEPT !.targets = Put(@, [t EXCEPT !.id = id])]
  /\ writeConfig(cfg', ok)
  /\ UNCHANGED up

(* Upsert of a request that validates. It returns the stored value, or the *)
(* error of the write.                                                     *)
Upsert(t, id, ok) ==
  /\ up
  /\ validate(t)
  /\ cfg' = [cfg EXCEPT !.targets = Put(@, Saved(t, id))]
  /\ writeConfig(cfg', ok)
  /\ UNCHANGED up

(* Mutants: the tail of the slice is not appended again; nothing is saved. *)
DeleteTail(id, ok) ==
  /\ up
  /\ Has(cfg.targets, id)
  /\ cfg' = [cfg EXCEPT !.targets = SubSeq(@, 1, Find(@, id) - 1)]
  /\ writeConfig(cfg', ok)
  /\ UNCHANGED up

DeleteUnsaved(id, ok) ==
  /\ up
  /\ Has(cfg.targets, id)
  /\ cfg' = [cfg EXCEPT !.targets = RemoveAt(@, Find(@, id))]
  /\ UNCHANGED <<up, file>>

(* Delete of an ID the store has; of any other it returns false, and       *)
(* changes and writes nothing.                                             *)
Delete(id, ok) ==
  /\ up
  /\ Has(cfg.targets, id)
  /\ cfg' = [cfg EXCEPT !.targets = RemoveAt(@, Find(@, id))]
  /\ writeConfig(cfg', ok)
  /\ UNCHANGED up

SetRemoteConfig(r, ok) ==
  /\ up
  /\ cfg' = [cfg EXCEPT !.remote = r]
  /\ writeConfig(cfg', ok)
  /\ UNCHANGED up

(* openConfigStore: normalize every target, and give an ID to those        *)
(* without one. The error of that write is ignored.                        *)
Unnamed(ts) == {i \in DOMAIN ts : ts[i].id = Blank}
Loaded(ts, names) ==
  [i \in DOMAIN ts |-> IF i \in Unnamed(ts) THEN Saved(ts[i], names[i])
                                            ELSE normalized(ts[i])]

Open(ok) ==
  /\ ~up
  /\ file # NoFile
  /\ \E names \in Injection(Unnamed(file.targets), Ids \ IdsOf(file.targets)) :
       LET loaded == Config(Loaded(file.targets, names), file.remote)
       IN /\ cfg' = loaded
          /\ writeConfig(loaded, ok /\ Unnamed(file.targets) # {})
  /\ up' = TRUE

(* Without a file the default is written; if that fails the process ends.  *)
OpenFirst ==
  /\ ~up
  /\ file = NoFile
  /\ cfg' = Config(<<normalized(Example)>>, NoRemote)
  /\ file' = defaultConfig
  /\ up' = TRUE

(* The process ends or is killed: memory is gone.                          *)
Crash ==
  /\ up
  /\ up' = FALSE
  /\ cfg' = Config(<<>>, NoRemote)
  /\ UNCHANGED file

ConfigStoreInit ==
  /\ up = FALSE
  /\ cfg = Config(<<>>, NoRemote)
  /\ file \in HandFiles \cup {NoFile}

ConfigStoreNext ==
  \/ \E ok \in WriteResults :
       \/ \E t \in Requests : \E id \in AssignedIds(t) : Upsert(t, id, ok)
       \/ \E id \in Ids : Delete(id, ok)
       \/ \E r \in Remotes : SetRemoteConfig(r, ok)
       \/ Open(ok)
  \/ OpenFirst
  \/ Crash

ConfigStoreSpec == ConfigStoreInit /\ [][ConfigStoreNext]_storeVars

-----------------------------------------------------------------------------
ConfigType == [targets : Seq(SavedTargets), remote : Remotes]

ASSUME NoFileAssumption == NoFile \notin ConfigType \cup {defaultConfig}

(* The store holds normalized targets with IDs, and so does a file it has  *)
(* written. A target can be started as it is.                              *)
ConfigStoreTypeOK ==
  /\ up \in BOOLEAN
  /\ cfg \in ConfigType
  /\ file = NoFile \/ file.remote \in Remotes

Unique(ts) == \A i, j \in DOMAIN ts : ts[i].id = ts[j].id => i = j

(* No two targets have one ID. Every lookup stops at the first match, so a *)
(* second one could be neither read nor deleted, and would shadow the      *)
(* first in the prober after a restart.                                    *)
UniqueIds == /\ Unique(cfg.targets)
             /\ file # NoFile => \A i, j \in DOMAIN file.targets :
                  (file.targets[i].id = file.targets[j].id) =>
                     (i = j \/ file.targets[i].id = Blank)

(* Edits leave the order of the other targets alone: the dashboard lists   *)
(* them in the order of the file.                                          *)
OrderKept ==
  [][ (up /\ up') =>
        \A i, j \in DOMAIN cfg.targets :
          LET first == cfg.targets[i].id  second == cfg.targets[j].id
          IN (i < j /\ Has(cfg'.targets, first) /\ Has(cfg'.targets, second)) =>
               Find(cfg'.targets, first) < Find(cfg'.targets, second) ]_storeVars

(* The store is the map it is meant to be: an edit of one ID leaves every  *)
(* other target as it was, in memory and on disk, and a restart reads back *)
(* what the last successful write put there.                               *)
AsMap(ts) == [id \in Ids |-> IF Has(ts, id) THEN normalized(ts[Find(ts, id)])
                                            ELSE NoTarget]

Registry == INSTANCE TargetRegistry WITH
  Contents <- SavedTargets,
  Absent   <- NoTarget,
  mem      <- AsMap(cfg.targets),
  disk     <- IF file = NoFile THEN AsMap(<<>>) ELSE AsMap(file.targets)

ImplementsRegistry == Registry!RegistrySpec
=============================================================================
