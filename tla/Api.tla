---------------------------------- MODULE Api ----------------------------------
(***************************************************************************)
(* The running program: the HTTP handlers of internal/app/server.go that   *)
(* edit targets, over the ConfigStore and the prober Manager they share,   *)
(* and the process's start and end (internal/app/runtime.go).              *)
(*                                                                         *)
(* Each component takes its own mutex and gives it back before the handler *)
(* goes on to the other, so a handler is a sequence of steps between which *)
(* other handlers run. There is one client per handler goroutine.          *)
(***************************************************************************)
EXTENDS Manager, ConfigStore

CONSTANTS
  Bodies,      \* the bodies of save requests
  Unknown,     \* an edit was begun, failed, or was cut off by a crash
  Contended    \* two edits of one ID overlapped

ASSUME ApiAssumption ==
  /\ Targets = SavedTargets
  /\ Bodies \subseteq Seq(Requests) \ {<<>>}
  /\ {Unknown, Contended, NoTarget} \cap SavedTargets = {}
  /\ Unknown # Contended /\ NoTarget \notin {Unknown, Contended}

VARIABLES
  pc,       \* per client, where its handler is
  syncing,  \* what NewRuntime's Sync still has to start before it serves
  ledger    \* per ID, what the client that last edited it may rely on

apiVars == <<managerVars, storeVars, pc, syncing, ledger>>

Clients == Callers

(* Where a handler is between two requests, before cs.Upsert of the first  *)
(* of the targets it was sent, between cs.Upsert and mgr.Start, and in the *)
(* rest of a DELETE after mgr.Stop took the target's channels.             *)
Idle == [at |-> "idle"]
Upserting(body) == [at |-> "upsert", body |-> body]
Starting(t, rest) == [at |-> "start", saved |-> t, rest |-> rest]
Deleting(id) == [at |-> "delete", id |-> id]

Serving == up /\ syncing = <<>>

(* A client's edit of an ID is under way from its first step on shared     *)
(* state, Upsert or Stop, to its last.                                     *)
Editing(k, id) == \/ pc[k].at = "start" /\ pc[k].saved.id = id
                  \/ pc[k].at = "delete" /\ pc[k].id = id

Begin(k, id) ==
  IF \E l \in Clients \ {k} : Editing(l, id) THEN Contended ELSE Unknown

(* The edit succeeded. It is settled if nobody else touched the target.    *)
Settle(id, result) ==
  ledger' = [ledger EXCEPT ![id] = IF @ = Unknown THEN result ELSE @]

Goto(k, place) == pc' = [pc EXCEPT ![k] = place]

ApiInit ==
  /\ ManagerInit
  /\ ConfigStoreInit
  /\ pc = [k \in Clients |-> Idle]
  /\ syncing = <<>>
  /\ ledger = [id \in Ids |-> Unknown]

-----------------------------------------------------------------------------
(***************************************************************************)
(* POST /api/targets and PUT /api/targets/{id} carry one target, POST      *)
(* /api/targets/import any number, which it saves and starts one by one.   *)
(***************************************************************************)
Save(k, body) ==
  /\ Serving
  /\ pc[k] = Idle
  /\ Goto(k, Upserting(body))
  /\ UNCHANGED <<managerVars, storeVars, syncing, ledger>>

(* cs.Upsert; a failed write is answered at once, and whatever is left of  *)
(* an import is dropped.                                                   *)
SaveUpsert(k, ok) ==
  /\ pc[k].at = "upsert"
  /\ LET t == Head(pc[k].body)
     IN \E id \in AssignedIds(t) :
          /\ Upsert(t, id, ok)
          /\ Goto(k, IF ok THEN Starting(Saved(t, id), Tail(pc[k].body)) ELSE Idle)
          /\ ledger' = [ledger EXCEPT ![id] = Begin(k, id)]
  /\ UNCHANGED <<managerVars, syncing>>

SaveRefused(k) ==
  /\ pc[k].at = "upsert"
  /\ ~validate(Head(pc[k].body))
  /\ Goto(k, Idle)
  /\ UNCHANGED <<managerVars, storeVars, syncing, ledger>>

(* Mutant: a target that runs already is not started again.                *)
SaveStartNew(k) ==
  /\ pc[k].at = "start"
  /\ IF stops[pc[k].saved.id] = {} THEN Start(pc[k].saved) ELSE UNCHANGED managerVars
  /\ Settle(pc[k].saved.id, pc[k].saved)
  /\ Goto(k, IF pc[k].rest = <<>> THEN Idle ELSE Upserting(pc[k].rest))
  /\ UNCHANGED <<storeVars, syncing>>

(* mgr.Start(saved), and the answer or the next target of the import.      *)
SaveStart(k) ==
  /\ pc[k].at = "start"
  /\ Start(pc[k].saved)
  /\ Settle(pc[k].saved.id, pc[k].saved)
  /\ Goto(k, IF pc[k].rest = <<>> THEN Idle ELSE Upserting(pc[k].rest))
  /\ UNCHANGED <<storeVars, syncing>>

(***************************************************************************)
(* DELETE /api/targets/{id}: mgr.Stop, then cs.Delete.                     *)
(***************************************************************************)
DeleteStop(k, id) ==
  /\ Serving
  /\ pc[k] = Idle
  /\ StopTake(k, id)
  /\ Goto(k, Deleting(id))
  /\ ledger' = [ledger EXCEPT ![id] = Begin(k, id)]
  /\ UNCHANGED <<storeVars, syncing>>

DeleteClose(k) ==
  /\ pc[k].at = "delete"
  /\ \E h \in taken[k] : StopClose(k, h)
  /\ UNCHANGED <<storeVars, pc, syncing, ledger>>

(* Mutant: cs.Delete does not wait for mgr.Stop to return.                 *)
DeleteWithoutStop(k, ok) ==
  /\ pc[k].at = "delete"
  /\ Delete(pc[k].id, ok)
  /\ IF ok THEN Settle(pc[k].id, NoTarget) ELSE UNCHANGED ledger
  /\ Goto(k, Idle)
  /\ UNCHANGED <<managerVars, syncing>>

DeleteStored(k, ok) ==
  /\ pc[k].at = "delete"
  /\ taken[k] = {}
  /\ Delete(pc[k].id, ok)
  /\ IF ok THEN Settle(pc[k].id, NoTarget) ELSE UNCHANGED ledger
  /\ Goto(k, Idle)
  /\ UNCHANGED <<managerVars, syncing>>

\* 404. The target may still be on disk, if an earlier write failed.
DeleteNotFound(k) ==
  /\ pc[k].at = "delete"
  /\ taken[k] = {}
  /\ ~Has(cfg.targets, pc[k].id)
  /\ Goto(k, Idle)
  /\ UNCHANGED <<managerVars, storeVars, syncing, ledger>>

(* POST /api/remote/login and /api/remote/config write the same file.      *)
SaveRemote(k) ==
  /\ Serving
  /\ pc[k] = Idle
  /\ \E r \in Remotes, ok \in WriteResults : SetRemoteConfig(r, ok)
  /\ UNCHANGED <<managerVars, pc, syncing, ledger>>

-----------------------------------------------------------------------------
(***************************************************************************)
(* NewRuntime: open the store, then Start every target, then serve. What   *)
(* is read back is what everybody may now rely on.                         *)
(***************************************************************************)
Restart ==
  /\ OpenFirst \/ \E ok \in WriteResults : Open(ok)
  /\ syncing' = cfg'.targets
  /\ ledger' = [id \in Ids |->
       IF AsMap(cfg'.targets)[id] = AsMap(file'.targets)[id]
         THEN AsMap(cfg'.targets)[id] ELSE Unknown]
  /\ UNCHANGED <<managerVars, pc>>

Sync ==
  /\ up
  /\ syncing # <<>>
  /\ Start(Head(syncing))
  /\ syncing' = Tail(syncing)
  /\ UNCHANGED <<storeVars, pc, ledger>>

(* The process is killed, with its goroutines and its unanswered requests. *)
Kill ==
  /\ Crash
  /\ stops' = [id \in Ids |-> {}]
  /\ probing' = {} /\ waiting' = {} /\ closed' = {}
  /\ taken' = [k \in Clients |-> {}]
  /\ pc' = [k \in Clients |-> Idle]
  /\ syncing' = <<>>
  /\ UNCHANGED ledger

Probe(h) == LoopStep(h) /\ UNCHANGED <<storeVars, pc, syncing, ledger>>

Handler(k) ==
  \/ \E ok \in WriteResults : SaveUpsert(k, ok) \/ DeleteStored(k, ok)
  \/ SaveRefused(k) \/ SaveStart(k)
  \/ DeleteClose(k) \/ DeleteNotFound(k)

ApiNext ==
  \/ \E k \in Clients : \/ \E body \in Bodies : Save(k, body)
                        \/ \E id \in Ids : DeleteStop(k, id)
                        \/ SaveRemote(k)
                        \/ Handler(k)
  \/ \E h \in live : Probe(h)
  \/ Restart \/ Sync \/ Kill

ApiSpec == ApiInit /\ [][ApiNext]_apiVars

-----------------------------------------------------------------------------
Settled(id) == ledger[id] \notin {Unknown, Contended}

Places == [at : {"idle"}]
  \cup [at : {"upsert"}, body : Seq(Requests) \ {<<>>}]
  \cup [at : {"start"}, saved : SavedTargets, rest : Seq(Requests)]
  \cup [at : {"delete"}, id : Ids]

(* Handlers hold channels only in the middle of a DELETE, and run only     *)
(* while the process serves.                                               *)
ApiTypeOK ==
  /\ ManagerTypeOK /\ ConfigStoreTypeOK
  /\ pc \in [Clients -> Places]
  /\ \A k \in Clients : taken[k] # {} => pc[k].at = "delete"
  /\ (\E k \in Clients : pc[k] # Idle) => Serving
  /\ syncing \in Seq(SavedTargets)
  /\ ledger \in [Ids -> SavedTargets \cup {NoTarget, Unknown, Contended}]

(* An edit that was answered with success, and that no other edit of the   *)
(* same target overlapped, is in memory and in the config file, whatever   *)
(* happens to other targets, whichever writes fail and whenever the        *)
(* process is killed, until someone edits that target again: "edits        *)
(* survive a restart" (config.go:184-186).                                 *)
AckedEditsSurvive ==
  \A id \in Ids : Settled(id) =>
    /\ file # NoFile /\ AsMap(file.targets)[id] = ledger[id]
    /\ up => AsMap(cfg.targets)[id] = ledger[id]

(* For the same edits, what the prober runs is what the store holds: all   *)
(* loops of the settings last saved, and no loop of a deleted target, also *)
(* after a restart: "the REST API and the prober manager see a consistent  *)
(* view" (config.go:184-186).                                              *)
ProberFollowsStore ==
  Serving => \A id \in Ids : Settled(id) =>
    \/ ledger[id] = NoTarget /\ stops[id] = {}
    \/ \E g \in Gens : stops[id] = Group(g, ledger[id])

-----------------------------------------------------------------------------
(* What the comments promise without the condition on overlapping edits    *)
(* and failed writes, at rest: no request is being handled.                *)
AtRest == Serving /\ \A k \in Clients : pc[k] = Idle

(* Deleting a target stops its probes ("probing stops", servers.html:334). *)
OnlyStoredAreProbed ==
  AtRest => \A id \in Ids : stops[id] # {} => Has(cfg.targets, id)

(* "Edits survive a restart": a restart would read what the API shows.     *)
ShownIsOnDisk == AtRest => AsMap(file.targets) = AsMap(cfg.targets)
=============================================================================
