------------------------------- MODULE ApiProofs -------------------------------
(***************************************************************************)
(* The handlers over the store and the manager they share, for any number  *)
(* of clients, targets and requests. The invariants of the two components  *)
(* carry over; what is added is what a handler still knows, between its    *)
(* two steps, of the component whose mutex it has given back.              *)
(***************************************************************************)
EXTENDS Api, ManagerProofs, ConfigStoreProofs

(* Where handlers may be, and what is there while the process is down.     *)
ControlInv ==
  /\ ManagerInv /\ StoreInv
  /\ pc \in [Clients -> Places]
  /\ \A k \in Clients : taken[k] # {} => pc[k].at = "delete"
  /\ (\E k \in Clients : pc[k].at # "idle") => Serving
  /\ ~up => syncing = <<>> /\ \A id \in Ids : stops[id] = {}
  /\ syncing \in Seq(SavedTargets)
  /\ ledger \in [Ids -> SavedTargets \cup {NoTarget, Unknown, Contended}]

(* A value is kept for an ID: on disk, and in memory while there is one.   *)
Kept(id, v) ==
  /\ file # NoFile /\ AsMap(file.targets)[id] = v
  /\ up => AsMap(cfg.targets)[id] = v

Runs(id, v) ==
  (v = NoTarget /\ stops[id] = {}) \/ \E g \in Gens : stops[id] = Group(g, v)

\* An edit whose entry says nothing yet is the only one of its ID.
EditsAreTracked ==
  /\ \A k \in Clients, id \in Ids : Editing(k, id) => ~Settled(id)
  /\ \A k, l \in Clients, id \in Ids :
       k # l /\ Editing(k, id) /\ Editing(l, id) => ledger[id] = Contended

\* Half of such an edit is done, and nobody has undone it.
HalfDone(k) ==
  /\ pc[k].at = "start" /\ ledger[pc[k].saved.id] = Unknown
       => Kept(pc[k].saved.id, pc[k].saved)
  /\ pc[k].at = "delete" /\ ledger[pc[k].id] = Unknown => stops[pc[k].id] = {}

HalfIsDone == \A k \in Clients : HalfDone(k)

\* What Sync has still to start is what was read.
SyncIsStored ==
  /\ Unique(syncing)
  /\ \A i \in DOMAIN syncing : AsMap(cfg.targets)[syncing[i].id] = syncing[i]

SettledRuns ==
  up => \A id \in Ids : Settled(id) => id \in IdsOf(syncing) \/ Runs(id, ledger[id])

ApiInv ==
  /\ ControlInv
  /\ EditsAreTracked
  /\ HalfIsDone
  /\ SyncIsStored
  /\ SettledRuns
  /\ AckedEditsSurvive

-----------------------------------------------------------------------------
(* Places, and what a step of one handler leaves to the others             *)

LEMMA PlaceIs ==
  ASSUME NEW p \in Places
  PROVE  /\ p.at = "idle" <=> p = Idle
         /\ p.at = "upsert" => p.body \in Seq(Requests) \ {<<>>}
         /\ p.at = "start" => p.saved \in SavedTargets /\ p.rest \in Seq(Requests)
         /\ p.at = "delete" => p.id \in Ids
BY DEF Places, Idle

LEMMA PlacesAre ==
  /\ Idle \in Places
  /\ \A body \in Seq(Requests) \ {<<>>} : Upserting(body) \in Places
  /\ \A t \in SavedTargets, rest \in Seq(Requests) : Starting(t, rest) \in Places
  /\ \A id \in Ids : Deleting(id) \in Places
BY DEF Places, Idle, Upserting, Starting, Deleting

LEMMA EmptySync ==
  /\ <<>> \in Seq(SavedTargets)
  /\ IdsOf(<<>>) = {} /\ Unique(<<>>) /\ DOMAIN <<>> = {}
BY EmptyStore DEF IdsOf

(* One handler moves on while the process serves.                          *)
LEMMA HandlerControl ==
  ASSUME ControlInv, ManagerInv', StoreInv', Serving,
         NEW k \in Clients, NEW place \in Places,
         pc' = [pc EXCEPT ![k] = place],
         taken'[k] # {} => place.at = "delete",
         \A l \in Clients \ {k} : taken'[l] = taken[l],
         up' = up, syncing' = syncing,
         ledger' \in [Ids -> SavedTargets \cup {NoTarget, Unknown, Contended}]
  PROVE  ControlInv'
<1>1. /\ pc' \in [Clients -> Places] /\ pc'[k] = place
      /\ \A l \in Clients \ {k} : pc'[l] = pc[l]
  BY DEF ControlInv
<1>2. \A l \in Clients : taken'[l] # {} => pc'[l].at = "delete"
  BY <1>1 DEF ControlInv
<1>3. up' /\ syncing' \in Seq(SavedTargets) /\ Serving'
  BY EmptySync DEF Serving
<1>4. QED  BY <1>1, <1>2, <1>3 DEF ControlInv

(* A step that edits nothing.                                              *)
LEMMA QuietKeeps ==
  ASSUME ApiInv, ControlInv',
         ledger' = ledger, stops' = stops, syncing' = syncing, up' = up,
         AsMap(cfg'.targets) = AsMap(cfg.targets),
         \A id \in Ids : \A v : Kept(id, v) => Kept(id, v)',
         \A l \in Clients : pc'[l] = pc[l] \/ pc'[l].at \in {"idle", "upsert"}
  PROVE  ApiInv'
<1>1. \A l \in Clients, id \in Ids : Editing(l, id)' => Editing(l, id)
  BY DEF Editing
<1>2. \A id \in Ids : Settled(id)' <=> Settled(id)
  BY DEF Settled
<1>3. EditsAreTracked'
  BY <1>1, <1>2 DEF ApiInv, EditsAreTracked
<1>4. HalfIsDone'
  <2> SUFFICES ASSUME NEW k \in Clients  PROVE HalfDone(k)'
    BY DEF HalfIsDone
  <2>1. HalfDone(k)
    BY DEF ApiInv, HalfIsDone
  <2>2. CASE pc'[k] = pc[k]
    <3>1. ASSUME pc[k].at = "start"  PROVE pc[k].saved.id \in Ids
      BY <3>1, PlaceIs, SavedIsFixed DEF ApiInv, ControlInv
    <3>2. ASSUME pc[k].at = "start", ledger[pc[k].saved.id] = Unknown
          PROVE  Kept(pc[k].saved.id, pc[k].saved)'
      <4>1. PICK t \in SavedTargets : t = pc[k].saved
        BY <3>2, PlaceIs DEF ApiInv, ControlInv
      <4>2. Kept(t.id, t) /\ t.id \in Ids
        BY <2>1, <3>1, <3>2, <4>1 DEF HalfDone
      <4>3. Kept(t.id, t)'
        BY <4>2
      <4>4. QED  BY <2>2, <4>1, <4>3 DEF Kept
    <3>3. QED  BY <2>1, <2>2, <3>2 DEF HalfDone
  <2>3. CASE pc'[k].at \in {"idle", "upsert"}
    BY <2>3 DEF HalfDone
  <2>4. QED  BY <2>2, <2>3
<1>5. SyncIsStored'
  BY DEF ApiInv, SyncIsStored
<1>6. SettledRuns'
  BY <1>2 DEF ApiInv, SettledRuns, Runs
<1>7. AckedEditsSurvive'
  BY <1>2 DEF ApiInv, AckedEditsSurvive, Kept
<1>8. QED  BY <1>3, <1>4, <1>5, <1>6, <1>7 DEF ApiInv

(* A step of a handler that edits the target of one ID, and of which the   *)
(* other targets see nothing.                                              *)
LEMMA EditKeeps ==
  ASSUME ApiInv, ControlInv', Serving, up' = up, syncing' = syncing,
         NEW k \in Clients, NEW id \in Ids, NEW place \in Places,
         pc' = [pc EXCEPT ![k] = place],
         \A other \in Ids : Editing(k, other)' => other = id,
         \A other \in Ids \ {id} :
           /\ ledger'[other] = ledger[other] /\ stops'[other] = stops[other]
           /\ \A v : Kept(other, v) => Kept(other, v)',
         Settled(id)' => /\ \A l \in Clients : ~Editing(l, id)'
                         /\ Kept(id, ledger[id])' /\ Runs(id, ledger[id])',
         \A l, m \in Clients :
           l # m /\ Editing(l, id)' /\ Editing(m, id)' => ledger'[id] = Contended,
         ledger'[id] = Unknown =>
           \A l \in Clients :
             /\ \A t : pc'[l].at = "start" /\ pc'[l].saved = t /\ t.id = id
                      => Kept(id, t)'
             /\ pc'[l].at = "delete" /\ pc'[l].id = id => stops'[id] = {}
  PROVE  ApiInv'
<1>1. pc'[k] = place /\ \A l \in Clients \ {k} : pc'[l] = pc[l]
  BY DEF ApiInv, ControlInv
<1>2. \A l \in Clients, other \in Ids \ {id} : Editing(l, other)' => Editing(l, other)
  BY <1>1 DEF Editing
<1>3. \A other \in Ids \ {id} : Settled(other)' <=> Settled(other)
  BY DEF Settled
<1>4. EditsAreTracked'
  <2>1. \A l \in Clients, other \in Ids : Editing(l, other)' => ~Settled(other)'
    BY <1>2, <1>3 DEF ApiInv, EditsAreTracked
  <2>2. \A l, m \in Clients, other \in Ids :
          l # m /\ Editing(l, other)' /\ Editing(m, other)' => ledger'[other] = Contended
    BY <1>2 DEF ApiInv, EditsAreTracked
  <2>3. QED  BY <2>1, <2>2 DEF EditsAreTracked
<1>5. HalfIsDone'
  <2> SUFFICES ASSUME NEW l \in Clients  PROVE HalfDone(l)'
    BY DEF HalfIsDone
  <2>1. ASSUME NEW other \in Ids \ {id}, Editing(l, other)'
        PROVE  pc'[l] = pc[l] /\ HalfDone(l)
    BY <1>1, <2>1 DEF ApiInv, HalfIsDone
  <2>2. ASSUME pc'[l].at = "start", ledger'[pc'[l].saved.id] = Unknown
        PROVE  Kept(pc[l].saved.id, pc[l].saved)'
    <3>1. PICK t \in SavedTargets : t = pc'[l].saved
      BY <2>2, PlaceIs DEF ControlInv
    <3>2. t.id \in Ids
      BY SavedIsFixed
    <3>3. Kept(t.id, t)'
      <4>1. CASE t.id = id
        BY <2>2, <3>1, <4>1
      <4>2. CASE t.id # id
        <5>1. Editing(l, t.id)'
          BY <2>2, <3>1 DEF Editing
        <5>2. pc'[l] = pc[l] /\ HalfDone(l)
          BY <2>1, <3>2, <4>2, <5>1
        <5>3. Kept(t.id, t)
          BY <2>2, <3>1, <3>2, <4>2, <5>2 DEF HalfDone
        <5>4. QED  BY <3>2, <4>2, <5>3
      <4>3. QED  BY <4>1, <4>2
    <3>4. QED  BY <3>1, <3>3 DEF Kept
  <2>3. ASSUME pc'[l].at = "delete", ledger'[pc'[l].id] = Unknown
        PROVE  stops'[pc'[l].id] = {}
    <3>1. PICK other \in Ids : other = pc'[l].id
      BY <2>3, PlaceIs DEF ControlInv
    <3>2. CASE other = id
      BY <2>3, <3>1, <3>2
    <3>3. CASE other # id
      <4>1. Editing(l, other)'
        BY <2>3, <3>1 DEF Editing
      <4>2. pc'[l] = pc[l] /\ HalfDone(l)
        BY <2>1, <3>3, <4>1
      <4>3. QED  BY <2>3, <3>1, <3>3, <4>2 DEF HalfDone
    <3>4. QED  BY <3>2, <3>3
  <2>4. QED  BY <2>2, <2>3 DEF HalfDone
<1>6. syncing' = <<>>
  BY DEF Serving
<1>7. SyncIsStored'
  BY <1>6, EmptySync DEF SyncIsStored
<1>8. SettledRuns'
  <2> SUFFICES ASSUME NEW other \in Ids, Settled(other)'
               PROVE  Runs(other, ledger[other])'
    BY DEF SettledRuns
  <2>1. CASE other # id
    <3>1. Settled(other) /\ up /\ syncing = <<>>
      BY <1>3, <2>1 DEF Serving
    <3>2. Runs(other, ledger[other])
      BY <3>1, EmptySync DEF ApiInv, SettledRuns
    <3>3. QED  BY <2>1, <3>2 DEF Runs
  <2>2. QED  BY <2>1
<1>9. AckedEditsSurvive'
  <2> SUFFICES ASSUME NEW other \in Ids, Settled(other)'
               PROVE  Kept(other, ledger[other])'
    BY DEF AckedEditsSurvive, Kept
  <2>1. CASE other # id
    <3>1. Kept(other, ledger[other])
      BY <1>3, <2>1 DEF ApiInv, AckedEditsSurvive, Kept
    <3>2. \A v : Kept(other, v) => Kept(other, v)'
      BY <2>1
    <3>3. ledger'[other] = ledger[other]
      BY <2>1
    <3>4. QED  BY <3>1, <3>2, <3>3 DEF Kept
  <2>2. QED  BY <2>1
<1>10. QED  BY <1>4, <1>5, <1>7, <1>8, <1>9 DEF ApiInv

-----------------------------------------------------------------------------
(* What the operations of the store do to the entries of the map           *)

(* Whether its write works or not, an edit of the list in memory keeps     *)
(* what is kept of the targets it leaves alone.                            *)
LEMMA OthersAreKept ==
  ASSUME StoreInv', up, up', file' \in {file, cfg'}, NEW id \in Ids,
         AsMap(cfg'.targets)[id] = AsMap(cfg.targets)[id],
         NEW v, Kept(id, v)
  PROVE  Kept(id, v)'
<1>1. cfg' # NoFile
  BY NoFileAssumption DEF StoreInv
<1>2. QED  BY <1>1 DEF Kept

LEMMA UpsertEntry ==
  ASSUME StoreInv, NEW t \in Requests, NEW id \in AssignedIds(t),
         NEW ok, Upsert(t, id, ok)
  PROVE  /\ StoreInv' /\ id \in Ids
         /\ Saved(t, id) \in SavedTargets /\ Saved(t, id).id = id
         /\ up /\ up' = up /\ file' \in {file, cfg'}
         /\ ok => Kept(id, Saved(t, id))'
         /\ \A other \in Ids \ {id} :
              AsMap(cfg'.targets)[other] = AsMap(cfg.targets)[other]
<1> DEFINE s == Saved(t, id)
           us == cfg'.targets
<1>1. StoreInv' /\ id \in Ids /\ us = Put(cfg.targets, s)
  BY UpsertKeeps
<1>2. s \in SavedTargets /\ s.id = id /\ id # Blank
  BY <1>1, SavedTarget, IdsAssumption
<1>3. up /\ up' = up /\ file' \in {file, cfg'} /\ (ok => file' = cfg')
  BY DEF Upsert, writeConfig
<1>4. \A other \in Ids \ {id} : AsMap(us)[other] = AsMap(cfg.targets)[other]
  BY UpsertImplements DEF Registry!Write, Registry!Edit
<1>5. AsMap(us)[id] = s
  <2> HIDE DEF s, us
  <2>1. cfg.targets \in Seq(SavedTargets) /\ Unique(cfg.targets)
    BY MemoryMap
  <2>2. us \in Seq(Written) /\ UniqueNamed(us)
    BY <1>1, MemoryMapNext DEF us
  <2>3. PICK i \in DOMAIN us : us[i] = s
    BY <1>1, <1>2, <2>1, PutIs
  <2>4. QED  BY <1>1, <1>2, <2>2, <2>3, AsMapIs, SavedIsFixed
<1>6. ok => Kept(id, s)'
  <2>1. cfg' # NoFile
    BY <1>1, NoFileAssumption DEF StoreInv
  <2>2. QED  BY <1>3, <1>5, <2>1 DEF Kept
<1>7. QED  BY <1>1, <1>2, <1>3, <1>4, <1>6

LEMMA DeleteEntry ==
  ASSUME StoreInv, NEW id \in Ids, NEW ok, Delete(id, ok)
  PROVE  /\ StoreInv'
         /\ up /\ up' = up /\ file' \in {file, cfg'}
         /\ ok => Kept(id, NoTarget)'
         /\ \A other \in Ids \ {id} :
              AsMap(cfg'.targets)[other] = AsMap(cfg.targets)[other]
<1>1. StoreInv'
  BY DeleteKeeps
<1>2. up /\ up' = up /\ file' \in {file, cfg'} /\ (ok => file' = cfg')
  BY DEF Delete, writeConfig
<1>3. /\ AsMap(cfg'.targets)[id] = NoTarget
      /\ \A other \in Ids \ {id} : AsMap(cfg'.targets)[other] = AsMap(cfg.targets)[other]
  BY DeleteImplements DEF Registry!Drop, Registry!Edit
<1>4. ok => Kept(id, NoTarget)'
  <2>1. cfg' # NoFile
    BY <1>1, NoFileAssumption DEF StoreInv
  <2>2. QED  BY <1>2, <1>3, <2>1 DEF Kept
<1>5. QED  BY <1>1, <1>2, <1>3, <1>4

-----------------------------------------------------------------------------
(* The handlers                                                            *)

LEMMA SameManager ==
  ASSUME ManagerInv, UNCHANGED managerVars
  PROVE  ManagerInv'
BY ManagerNextInv

LEMMA SameStore ==
  ASSUME StoreInv, UNCHANGED storeVars
  PROVE  /\ StoreInv' /\ AsMap(cfg'.targets) = AsMap(cfg.targets)
         /\ \A id \in Ids : \A v : Kept(id, v) => Kept(id, v)'
BY DEF storeVars, StoreInv, Kept

LEMMA SaveKeeps ==
  ASSUME ApiInv, NEW k \in Clients, NEW body \in Bodies, Save(k, body)
  PROVE  ApiInv'
<1>1. /\ Serving /\ pc' = [pc EXCEPT ![k] = Upserting(body)]
      /\ UNCHANGED managerVars /\ UNCHANGED storeVars
      /\ syncing' = syncing /\ ledger' = ledger
  BY DEF Save, Goto
<1>2. pc[k] = Idle /\ Upserting(body) \in Places
  BY PlacesAre, ApiAssumption DEF Save
<1>3. taken[k] = {} /\ taken' = taken /\ stops' = stops /\ up' = up
  BY <1>1, <1>2 DEF ApiInv, ControlInv, Idle, managerVars, storeVars
<1>4. ControlInv'
  <2>1. ControlInv /\ ManagerInv' /\ StoreInv'
    BY <1>1, SameManager, SameStore DEF ApiInv, ControlInv
  <2>2. ledger' \in [Ids -> SavedTargets \cup {NoTarget, Unknown, Contended}]
    BY <1>1 DEF ApiInv, ControlInv
  <2>3. QED  BY <1>1, <1>2, <1>3, <2>1, <2>2, HandlerControl
<1>5. \A l \in Clients : pc'[l] = pc[l] \/ pc'[l].at \in {"idle", "upsert"}
  BY <1>1 DEF ApiInv, ControlInv, Upserting
<1>6. /\ AsMap(cfg'.targets) = AsMap(cfg.targets)
      /\ \A id \in Ids : \A v : Kept(id, v) => Kept(id, v)'
  BY <1>1, SameStore DEF ApiInv, ControlInv
<1>7. QED  BY <1>1, <1>3, <1>4, <1>5, <1>6, QuietKeeps

LEMMA BeginIs ==
  ASSUME ApiInv, NEW k \in Clients, NEW id \in Ids,
         ledger' = [ledger EXCEPT ![id] = Begin(k, id)]
  PROVE  /\ ledger' \in [Ids -> SavedTargets \cup {NoTarget, Unknown, Contended}]
         /\ \A other \in Ids \ {id} : ledger'[other] = ledger[other]
         /\ ledger'[id] \in {Unknown, Contended}
         /\ ledger'[id] = Contended <=> \E l \in Clients \ {k} : Editing(l, id)
BY ApiAssumption DEF ApiInv, ControlInv, Begin

(* When an edit ends, with a result that is no mark, the entry of its ID   *)
(* is the result if and only if the edit was the only one.                 *)
LEMMA SettleIs ==
  ASSUME ApiInv, NEW k \in Clients, NEW id \in Ids, Editing(k, id),
         NEW result \in SavedTargets \cup {NoTarget}, Settle(id, result)
  PROVE  /\ ledger' \in [Ids -> SavedTargets \cup {NoTarget, Unknown, Contended}]
         /\ \A other \in Ids \ {id} : ledger'[other] = ledger[other]
         /\ ledger'[id] # Unknown
         /\ Settled(id)' => /\ ledger[id] = Unknown /\ ledger'[id] = result
                            /\ \A l \in Clients \ {k} : ~Editing(l, id)
         /\ \A l, m \in Clients \ {k} :
              l # m /\ Editing(l, id) /\ Editing(m, id) => ledger'[id] = Contended
<1>1. /\ ledger \in [Ids -> SavedTargets \cup {NoTarget, Unknown, Contended}]
      /\ ledger[id] \in {Unknown, Contended}
      /\ \A l, m \in Clients :
           l # m /\ Editing(l, id) /\ Editing(m, id) => ledger[id] = Contended
  BY DEF ApiInv, ControlInv, EditsAreTracked, Settled
<1>2. result \notin {Unknown, Contended} /\ Unknown # Contended
  BY ApiAssumption
<1>3. /\ ledger' \in [Ids -> SavedTargets \cup {NoTarget, Unknown, Contended}]
      /\ \A other \in Ids \ {id} : ledger'[other] = ledger[other]
      /\ ledger'[id] = IF ledger[id] = Unknown THEN result ELSE ledger[id]
  BY <1>1 DEF Settle
<1>4. QED  BY <1>1, <1>2, <1>3 DEF Settled

LEMMA SaveUpsertKeeps ==
  ASSUME ApiInv, NEW k \in Clients, NEW ok, SaveUpsert(k, ok)
  PROVE  ApiInv'
<1>1. /\ pc[k] \in Places /\ pc[k].at = "upsert"
      /\ Head(pc[k].body) \in Requests /\ Tail(pc[k].body) \in Seq(Requests)
  <2>1. pc[k] \in Places /\ pc[k].at = "upsert"
    BY DEF SaveUpsert, ApiInv, ControlInv
  <2>2. pc[k].body \in Seq(Requests) /\ pc[k].body # <<>>
    BY <2>1, PlaceIs
  <2>3. QED  BY <2>1, <2>2
<1>2. PICK t \in Requests, rest \in Seq(Requests) :
        t = Head(pc[k].body) /\ rest = Tail(pc[k].body)
  BY <1>1
<1>3. PICK id \in AssignedIds(t) :
        /\ Upsert(t, id, ok)
        /\ Goto(k, IF ok THEN Starting(Saved(t, id), rest) ELSE Idle)
        /\ ledger' = [ledger EXCEPT ![id] = Begin(k, id)]
  BY <1>2 DEF SaveUpsert
<1> DEFINE s == Saved(t, id)
           place == IF ok THEN Starting(s, rest) ELSE Idle
<1>4. /\ StoreInv' /\ id \in Ids /\ s \in SavedTargets /\ s.id = id
      /\ up /\ up' = up /\ file' \in {file, cfg'}
      /\ ok => Kept(id, s)'
      /\ \A other \in Ids \ {id} :
           AsMap(cfg'.targets)[other] = AsMap(cfg.targets)[other]
  BY <1>3, UpsertEntry DEF ApiInv, ControlInv
<1>5. /\ pc' = [pc EXCEPT ![k] = place]
      /\ UNCHANGED managerVars /\ syncing' = syncing
      /\ stops' = stops /\ taken' = taken
  BY <1>3 DEF SaveUpsert, Goto, managerVars
<1>6. place \in Places /\ place.at \in {"start", "idle"}
  BY <1>4, PlacesAre DEF Starting, Idle
<1>7. /\ ok => place.at = "start" /\ place.saved = s
      /\ ~ok => place.at = "idle"
  BY DEF Starting, Idle
<1> HIDE DEF s, place
<1>8. Serving /\ taken[k] = {}
  BY <1>1 DEF ApiInv, ControlInv
<1>9. /\ ledger' \in [Ids -> SavedTargets \cup {NoTarget, Unknown, Contended}]
      /\ \A other \in Ids \ {id} : ledger'[other] = ledger[other]
      /\ ledger'[id] \in {Unknown, Contended}
      /\ ledger'[id] = Contended <=> \E l \in Clients \ {k} : Editing(l, id)
  BY <1>3, <1>4, BeginIs
<1>10. pc'[k] = place /\ \A l \in Clients \ {k} : pc'[l] = pc[l]
  BY <1>5 DEF ApiInv, ControlInv
<1>11. ControlInv'
  <2>1. ControlInv /\ ManagerInv'
    BY <1>5, SameManager DEF ApiInv, ControlInv
  <2>2. QED
    BY <1>4, <1>5, <1>6, <1>8, <1>9, <2>1, HandlerControl
<1>12. \A other \in Ids : Editing(k, other)' => other = id
  BY <1>4, <1>6, <1>7, <1>10 DEF Editing
<1>13. \A l \in Clients \ {k} : Editing(l, id)' => Editing(l, id)
  BY <1>10 DEF Editing
<1>14. \A other \in Ids \ {id} :
         /\ ledger'[other] = ledger[other] /\ stops'[other] = stops[other]
         /\ \A v : Kept(other, v) => Kept(other, v)'
  <2> SUFFICES ASSUME NEW other \in Ids \ {id}, NEW v, Kept(other, v)
               PROVE  Kept(other, v)'
    BY <1>5, <1>9
  <2>1. QED  BY <1>4, OthersAreKept
<1>15. ~Settled(id)'
  BY <1>9 DEF Settled
<1>16. \A l, m \in Clients :
         l # m /\ Editing(l, id)' /\ Editing(m, id)' => ledger'[id] = Contended
  BY <1>9, <1>13
<1>17. ASSUME ledger'[id] = Unknown, NEW l \in Clients
       PROVE  /\ \A v : pc'[l].at = "start" /\ pc'[l].saved = v /\ v.id = id
                          => Kept(id, v)'
              /\ pc'[l].at = "delete" /\ pc'[l].id = id => stops'[id] = {}
  <2>1. CASE l # k
    <3>1. ~Editing(l, id)
      BY <1>9, <1>17, <2>1, ApiAssumption
    <3>2. QED  BY <1>10, <2>1, <3>1 DEF Editing
  <2>2. CASE l = k
    <3>1. CASE ok
      BY <1>4, <1>7, <1>10, <2>2, <3>1
    <3>2. CASE ~ok
      BY <1>7, <1>10, <2>2, <3>2
    <3>3. QED  BY <3>1, <3>2
  <2>3. QED  BY <2>1, <2>2
<1>18. QED
  BY <1>4, <1>5, <1>6, <1>8, <1>11, <1>12, <1>14, <1>15, <1>16, <1>17, EditKeeps

LEMMA SaveRefusedKeeps ==
  ASSUME ApiInv, NEW k \in Clients, SaveRefused(k)
  PROVE  ApiInv'
<1>1. /\ pc[k].at = "upsert" /\ pc' = [pc EXCEPT ![k] = Idle]
      /\ UNCHANGED managerVars /\ UNCHANGED storeVars
      /\ syncing' = syncing /\ ledger' = ledger
  BY DEF SaveRefused, Goto
<1>2. Serving /\ Idle \in Places /\ taken[k] = {}
  BY <1>1, PlacesAre DEF ApiInv, ControlInv
<1>3. taken' = taken /\ stops' = stops /\ up' = up
  BY <1>1 DEF managerVars, storeVars
<1>4. ControlInv'
  <2>1. ControlInv /\ ManagerInv' /\ StoreInv'
    BY <1>1, SameManager, SameStore DEF ApiInv, ControlInv
  <2>2. ledger' \in [Ids -> SavedTargets \cup {NoTarget, Unknown, Contended}]
    BY <1>1 DEF ApiInv, ControlInv
  <2>3. QED  BY <1>1, <1>2, <1>3, <2>1, <2>2, HandlerControl
<1>5. \A l \in Clients : pc'[l] = pc[l] \/ pc'[l].at \in {"idle", "upsert"}
  BY <1>1 DEF ApiInv, ControlInv, Idle
<1>6. /\ AsMap(cfg'.targets) = AsMap(cfg.targets)
      /\ \A id \in Ids : \A v : Kept(id, v) => Kept(id, v)'
  BY <1>1, SameStore DEF ApiInv, ControlInv
<1>7. QED  BY <1>1, <1>3, <1>4, <1>5, <1>6, QuietKeeps

(* Start of a saved target changes what is registered of that target only. *)
LEMMA StartEntry ==
  ASSUME ManagerInv, NEW t \in SavedTargets, Start(t)
  PROVE  /\ ManagerInv' /\ taken' = taken
         /\ \A other \in Ids \ {t.id} : stops'[other] = stops[other]
         /\ \E g \in Gens : stops'[t.id] = Group(g, t)
<1>1. t \in Targets /\ t.id \in Ids /\ normalized(t) = t
  BY SavedIsFixed, ApiAssumption
<1>2. ManagerInv'
  BY <1>1, StartKeeps
<1>3. PICK g \in FreshGens : /\ stops' = [stops EXCEPT ![t.id] = Group(g, t)]
                             /\ taken' = taken
  BY <1>1 DEF Start
<1>4. QED  BY <1>1, <1>2, <1>3 DEF ManagerInv, ManagerTypeOK, FreshGens

LEMMA SaveStartKeeps ==
  ASSUME ApiInv, NEW k \in Clients, SaveStart(k)
  PROVE  ApiInv'
<1>1. /\ pc[k] \in Places /\ pc[k].at = "start"
      /\ pc[k].saved \in SavedTargets /\ pc[k].rest \in Seq(Requests)
  <2>1. pc[k] \in Places /\ pc[k].at = "start"
    BY DEF SaveStart, ApiInv, ControlInv
  <2>2. QED  BY <2>1, PlaceIs
<1>2. PICK t \in SavedTargets, rest \in Seq(Requests) :
        t = pc[k].saved /\ rest = pc[k].rest
  BY <1>1
<1> DEFINE place == IF rest = <<>> THEN Idle ELSE Upserting(rest)
<1>3. t.id \in Ids /\ Editing(k, t.id)
  BY <1>1, <1>2, SavedIsFixed DEF Editing
<1>4. /\ Start(t) /\ Settle(t.id, t) /\ pc' = [pc EXCEPT ![k] = place]
      /\ UNCHANGED storeVars /\ syncing' = syncing /\ up' = up
  BY <1>2 DEF SaveStart, Goto, storeVars
<1>5. /\ ManagerInv' /\ taken' = taken
      /\ \A other \in Ids \ {t.id} : stops'[other] = stops[other]
      /\ \E g \in Gens : stops'[t.id] = Group(g, t)
  BY <1>4, StartEntry DEF ApiInv, ControlInv
<1>6. /\ ledger' \in [Ids -> SavedTargets \cup {NoTarget, Unknown, Contended}]
      /\ \A other \in Ids \ {t.id} : ledger'[other] = ledger[other]
      /\ ledger'[t.id] # Unknown
      /\ Settled(t.id)' => /\ ledger[t.id] = Unknown /\ ledger'[t.id] = t
                           /\ \A l \in Clients \ {k} : ~Editing(l, t.id)
      /\ \A l, m \in Clients \ {k} :
           l # m /\ Editing(l, t.id) /\ Editing(m, t.id) => ledger'[t.id] = Contended
  BY <1>3, <1>4, SettleIs
<1>7. place \in Places /\ place.at \in {"idle", "upsert"}
  BY PlacesAre DEF Idle, Upserting
<1> HIDE DEF place
<1>8. Serving /\ taken[k] = {}
  BY <1>1 DEF ApiInv, ControlInv
<1>9. pc'[k] = place /\ \A l \in Clients \ {k} : pc'[l] = pc[l]
  BY <1>4 DEF ApiInv, ControlInv
<1>10. /\ StoreInv'
       /\ \A other \in Ids : \A v : Kept(other, v) => Kept(other, v)'
  BY <1>4, SameStore DEF ApiInv, ControlInv
<1>11. ControlInv'
  <2>1. ControlInv
    BY DEF ApiInv
  <2>2. QED
    BY <1>4, <1>5, <1>6, <1>7, <1>8, <1>10, <2>1, HandlerControl
<1>12. \A other \in Ids : ~Editing(k, other)'
  BY <1>7, <1>9 DEF Editing
<1>13. \A l \in Clients \ {k} : Editing(l, t.id)' <=> Editing(l, t.id)
  BY <1>9 DEF Editing
<1>14. ASSUME Settled(t.id)'
       PROVE  /\ \A l \in Clients : ~Editing(l, t.id)'
              /\ Kept(t.id, ledger[t.id])' /\ Runs(t.id, ledger[t.id])'
  <2>1. ledger[t.id] = Unknown /\ ledger'[t.id] = t
    BY <1>6, <1>14
  <2>2. Kept(t.id, t)
    <3>1. HalfDone(k)
      BY DEF ApiInv, HalfIsDone
    <3>2. QED  BY <1>1, <1>2, <2>1, <3>1 DEF HalfDone
  <2>3. Kept(t.id, t)'
    BY <1>3, <1>10, <2>2
  <2>4. Kept(t.id, ledger[t.id])'
    BY <2>1, <2>3 DEF Kept
  <2>5. Runs(t.id, ledger[t.id])'
    BY <1>5, <2>1 DEF Runs
  <2>6. \A l \in Clients : ~Editing(l, t.id)'
    BY <1>3, <1>6, <1>12, <1>13, <1>14
  <2>7. QED  BY <2>4, <2>5, <2>6
<1>15. \A l, m \in Clients :
         l # m /\ Editing(l, t.id)' /\ Editing(m, t.id)' => ledger'[t.id] = Contended
  BY <1>3, <1>6, <1>12, <1>13
<1>16. \A other \in Ids \ {t.id} :
         /\ ledger'[other] = ledger[other] /\ stops'[other] = stops[other]
         /\ \A v : Kept(other, v) => Kept(other, v)'
  BY <1>5, <1>6, <1>10
<1>17. QED
  BY <1>3, <1>4, <1>6, <1>7, <1>8, <1>11, <1>12, <1>14, <1>15, <1>16, EditKeeps

LEMMA DeleteStopKeeps ==
  ASSUME ApiInv, NEW k \in Clients, NEW id \in Ids, DeleteStop(k, id)
  PROVE  ApiInv'
<1>1. /\ Serving /\ pc[k] = Idle /\ StopTake(k, id)
      /\ pc' = [pc EXCEPT ![k] = Deleting(id)]
      /\ ledger' = [ledger EXCEPT ![id] = Begin(k, id)]
      /\ UNCHANGED storeVars /\ syncing' = syncing /\ up' = up
  BY DEF DeleteStop, Goto, storeVars
<1>2. /\ ManagerInv' /\ stops'[id] = {}
      /\ \A other \in Ids \ {id} : stops'[other] = stops[other]
      /\ \A l \in Clients \ {k} : taken'[l] = taken[l]
  <2>1. ManagerInv /\ ManagerInv'
    BY <1>1, StopTakeKeeps DEF ApiInv, ControlInv, Clients
  <2>2. QED  BY <1>1, <2>1 DEF ManagerInv, ManagerTypeOK, StopTake, Clients
<1>3. /\ ledger' \in [Ids -> SavedTargets \cup {NoTarget, Unknown, Contended}]
      /\ \A other \in Ids \ {id} : ledger'[other] = ledger[other]
      /\ ledger'[id] \in {Unknown, Contended}
      /\ ledger'[id] = Contended <=> \E l \in Clients \ {k} : Editing(l, id)
  BY <1>1, BeginIs
<1>4. Deleting(id) \in Places /\ Deleting(id).at = "delete" /\ Deleting(id).id = id
  BY PlacesAre DEF Deleting
<1>5. pc'[k] = Deleting(id) /\ \A l \in Clients \ {k} : pc'[l] = pc[l]
  BY <1>1 DEF ApiInv, ControlInv
<1>6. /\ StoreInv'
      /\ \A other \in Ids : \A v : Kept(other, v) => Kept(other, v)'
  BY <1>1, SameStore DEF ApiInv, ControlInv
<1>7. ControlInv'
  <2>1. ControlInv
    BY DEF ApiInv
  <2>2. QED  BY <1>1, <1>2, <1>3, <1>4, <1>6, <2>1, HandlerControl
<1>8. \A other \in Ids : Editing(k, other)' => other = id
  BY <1>4, <1>5 DEF Editing
<1>9. \A l \in Clients \ {k} : Editing(l, id)' <=> Editing(l, id)
  BY <1>5 DEF Editing
<1>10. ~Settled(id)'
  BY <1>3 DEF Settled
<1>11. \A l, m \in Clients :
         l # m /\ Editing(l, id)' /\ Editing(m, id)' => ledger'[id] = Contended
  BY <1>3, <1>9
<1>12. ASSUME ledger'[id] = Unknown, NEW l \in Clients
       PROVE  /\ \A v : pc'[l].at = "start" /\ pc'[l].saved = v /\ v.id = id
                          => Kept(id, v)'
              /\ pc'[l].at = "delete" /\ pc'[l].id = id => stops'[id] = {}
  <2>1. CASE l # k
    <3>1. ~Editing(l, id)'
      BY <1>3, <1>9, <1>12, <2>1, ApiAssumption
    <3>2. QED  BY <1>2, <3>1 DEF Editing
  <2>2. CASE l = k
    BY <1>2, <1>4, <1>5, <2>2
  <2>3. QED  BY <2>1, <2>2
<1>13. \A other \in Ids \ {id} :
         /\ ledger'[other] = ledger[other] /\ stops'[other] = stops[other]
         /\ \A v : Kept(other, v) => Kept(other, v)'
  BY <1>2, <1>3, <1>6
<1>14. QED
  BY <1>1, <1>4, <1>7, <1>8, <1>10, <1>11, <1>12, <1>13, EditKeeps

LEMMA DeleteCloseKeeps ==
  ASSUME ApiInv, NEW k \in Clients, DeleteClose(k)
  PROVE  ApiInv'
<1>1. PICK h \in taken[k] : StopClose(k, h)
  BY DEF DeleteClose
<1>2. /\ pc' = pc /\ pc[k].at = "delete" /\ UNCHANGED storeVars /\ up' = up
      /\ syncing' = syncing /\ ledger' = ledger
  BY DEF DeleteClose, storeVars
<1>3. ManagerInv /\ ManagerInv'
  BY <1>1, StopCloseKeeps DEF ApiInv, ControlInv, Clients
<1>4. stops' = stops /\ \A l \in Clients \ {k} : taken'[l] = taken[l]
  BY <1>1, <1>3 DEF StopClose, ManagerInv, ManagerTypeOK, Clients
<1>5. /\ StoreInv' /\ AsMap(cfg'.targets) = AsMap(cfg.targets)
      /\ \A id \in Ids : \A v : Kept(id, v) => Kept(id, v)'
  BY <1>2, SameStore DEF ApiInv, ControlInv
<1>6. ControlInv'
  <2>1. ControlInv
    BY DEF ApiInv
  <2>2. \A l \in Clients : taken'[l] # {} => pc'[l].at = "delete"
    BY <1>2, <1>4, <2>1 DEF ControlInv
  <2>3. Serving' = Serving
    BY <1>2 DEF Serving
  <2>4. QED
    BY <1>2, <1>3, <1>4, <1>5, <2>1, <2>2, <2>3 DEF ControlInv
<1>7. QED  BY <1>2, <1>4, <1>5, <1>6, QuietKeeps

LEMMA DeleteStoredKeeps ==
  ASSUME ApiInv, NEW k \in Clients, NEW ok, DeleteStored(k, ok)
  PROVE  ApiInv'
<1>1. pc[k] \in Places /\ pc[k].at = "delete" /\ pc[k].id \in Ids
  <2>1. pc[k] \in Places /\ pc[k].at = "delete"
    BY DEF DeleteStored, ApiInv, ControlInv
  <2>2. QED  BY <2>1, PlaceIs
<1>2. PICK id \in Ids : id = pc[k].id
  BY <1>1
<1>3. /\ taken[k] = {} /\ Delete(id, ok)
      /\ IF ok THEN Settle(id, NoTarget) ELSE ledger' = ledger
      /\ pc' = [pc EXCEPT ![k] = Idle]
      /\ UNCHANGED managerVars /\ syncing' = syncing
      /\ stops' = stops /\ taken' = taken
  BY <1>2 DEF DeleteStored, Goto, managerVars
<1>4. Editing(k, id) /\ Serving
  BY <1>1, <1>2 DEF Editing, ApiInv, ControlInv
<1>5. /\ StoreInv' /\ up /\ up' = up /\ file' \in {file, cfg'}
      /\ ok => Kept(id, NoTarget)'
      /\ \A other \in Ids \ {id} :
           AsMap(cfg'.targets)[other] = AsMap(cfg.targets)[other]
  BY <1>3, DeleteEntry DEF ApiInv, ControlInv
<1>6. /\ ledger \in [Ids -> SavedTargets \cup {NoTarget, Unknown, Contended}]
      /\ ~Settled(id)
      /\ \A l, m \in Clients :
           l # m /\ Editing(l, id) /\ Editing(m, id) => ledger[id] = Contended
      /\ \A l \in Clients \ {k} : Editing(l, id) => ledger[id] = Contended
  BY <1>4 DEF ApiInv, ControlInv, EditsAreTracked
<1>7. /\ ledger' \in [Ids -> SavedTargets \cup {NoTarget, Unknown, Contended}]
      /\ \A other \in Ids \ {id} : ledger'[other] = ledger[other]
      /\ Settled(id)' => /\ ok /\ ledger[id] = Unknown /\ ledger'[id] = NoTarget
                         /\ \A l \in Clients \ {k} : ~Editing(l, id)
      /\ \A l, m \in Clients \ {k} :
           l # m /\ Editing(l, id) /\ Editing(m, id) => ledger'[id] = Contended
      /\ ledger'[id] = Unknown => \A l \in Clients \ {k} : ~Editing(l, id)
  <2>1. CASE ok
    BY <1>3, <1>4, <2>1, SettleIs
  <2>2. CASE ~ok
    BY <1>3, <1>6, <2>2, ApiAssumption DEF Settled
  <2>3. QED  BY <2>1, <2>2
<1>8. Idle \in Places /\ Idle.at = "idle"
  BY PlacesAre DEF Idle
<1>9. pc'[k] = Idle /\ \A l \in Clients \ {k} : pc'[l] = pc[l]
  BY <1>3 DEF ApiInv, ControlInv
<1>10. ControlInv'
  <2>1. ControlInv /\ ManagerInv'
    BY <1>3, SameManager DEF ApiInv, ControlInv
  <2>2. QED
    BY <1>3, <1>4, <1>5, <1>7, <1>8, <2>1, HandlerControl
<1>11. \A other \in Ids : ~Editing(k, other)'
  BY <1>8, <1>9 DEF Editing
<1>12. \A l \in Clients \ {k} : Editing(l, id)' <=> Editing(l, id)
  BY <1>9 DEF Editing
<1>13. ASSUME Settled(id)'
       PROVE  /\ \A l \in Clients : ~Editing(l, id)'
              /\ Kept(id, ledger[id])' /\ Runs(id, ledger[id])'
  <2>1. ok /\ ledger[id] = Unknown /\ ledger'[id] = NoTarget
    BY <1>7, <1>13
  <2>2. stops[id] = {}
    <3>1. HalfDone(k)
      BY DEF ApiInv, HalfIsDone
    <3>2. QED  BY <1>1, <1>2, <2>1, <3>1 DEF HalfDone
  <2>3. Kept(id, ledger[id])'
    BY <1>5, <2>1 DEF Kept
  <2>4. Runs(id, ledger[id])'
    BY <1>3, <2>1, <2>2 DEF Runs
  <2>5. \A l \in Clients : ~Editing(l, id)'
    BY <1>7, <1>11, <1>12, <1>13
  <2>6. QED  BY <2>3, <2>4, <2>5
<1>14. \A l, m \in Clients :
         l # m /\ Editing(l, id)' /\ Editing(m, id)' => ledger'[id] = Contended
  BY <1>7, <1>11, <1>12
<1>15. \A other \in Ids \ {id} :
         /\ ledger'[other] = ledger[other] /\ stops'[other] = stops[other]
         /\ \A v : Kept(other, v) => Kept(other, v)'
  <2> SUFFICES ASSUME NEW other \in Ids \ {id}, NEW v, Kept(other, v)
               PROVE  Kept(other, v)'
    BY <1>3, <1>7
  <2>1. QED  BY <1>5, OthersAreKept
<1>16. ASSUME ledger'[id] = Unknown, NEW l \in Clients
       PROVE  /\ \A v : pc'[l].at = "start" /\ pc'[l].saved = v /\ v.id = id
                          => Kept(id, v)'
              /\ pc'[l].at = "delete" /\ pc'[l].id = id => stops'[id] = {}
  <2>1. ~Editing(l, id)'
    BY <1>7, <1>11, <1>12, <1>16
  <2>2. QED  BY <2>1 DEF Editing
<1>17. QED
  BY <1>3, <1>4, <1>5, <1>8, <1>10, <1>11, <1>13, <1>14, <1>15, <1>16, EditKeeps

LEMMA DeleteNotFoundKeeps ==
  ASSUME ApiInv, NEW k \in Clients, DeleteNotFound(k)
  PROVE  ApiInv'
<1>1. /\ pc[k].at = "delete" /\ pc' = [pc EXCEPT ![k] = Idle] /\ taken[k] = {}
      /\ UNCHANGED managerVars /\ UNCHANGED storeVars
      /\ syncing' = syncing /\ ledger' = ledger
  BY DEF DeleteNotFound, Goto
<1>2. Serving /\ Idle \in Places
  BY <1>1, PlacesAre DEF ApiInv, ControlInv
<1>3. taken' = taken /\ stops' = stops /\ up' = up
  BY <1>1 DEF managerVars, storeVars
<1>4. ControlInv'
  <2>1. ControlInv /\ ManagerInv' /\ StoreInv'
    BY <1>1, SameManager, SameStore DEF ApiInv, ControlInv
  <2>2. ledger' \in [Ids -> SavedTargets \cup {NoTarget, Unknown, Contended}]
    BY <1>1 DEF ApiInv, ControlInv
  <2>3. QED  BY <1>1, <1>2, <1>3, <2>1, <2>2, HandlerControl
<1>5. \A l \in Clients : pc'[l] = pc[l] \/ pc'[l].at \in {"idle", "upsert"}
  BY <1>1 DEF ApiInv, ControlInv, Idle
<1>6. /\ AsMap(cfg'.targets) = AsMap(cfg.targets)
      /\ \A id \in Ids : \A v : Kept(id, v) => Kept(id, v)'
  BY <1>1, SameStore DEF ApiInv, ControlInv
<1>7. QED  BY <1>1, <1>3, <1>4, <1>5, <1>6, QuietKeeps

LEMMA SaveRemoteKeeps ==
  ASSUME ApiInv, NEW k \in Clients, SaveRemote(k)
  PROVE  ApiInv'
<1>1. PICK r \in Remotes, ok \in WriteResults : SetRemoteConfig(r, ok)
  BY DEF SaveRemote
<1>2. /\ Serving /\ pc' = pc /\ UNCHANGED managerVars
      /\ syncing' = syncing /\ ledger' = ledger
  BY DEF SaveRemote
<1>3. StoreInv /\ StoreInv' /\ cfg'.targets = cfg.targets
  BY <1>1, SetRemoteKeeps DEF ApiInv, ControlInv
<1>4. up /\ up' = up /\ file' \in {file, cfg'}
  BY <1>1 DEF SetRemoteConfig, writeConfig
<1>5. taken' = taken /\ stops' = stops /\ ManagerInv'
  BY <1>2, SameManager DEF managerVars, ApiInv, ControlInv
<1>6. ControlInv'
  <2>1. Serving'
    BY <1>2, <1>4 DEF Serving
  <2>2. QED  BY <1>2, <1>3, <1>4, <1>5, <2>1 DEF ApiInv, ControlInv
<1>7. AsMap(cfg'.targets) = AsMap(cfg.targets)
  BY <1>3
<1>8. ASSUME NEW id \in Ids, NEW v, Kept(id, v)
      PROVE  Kept(id, v)'
  BY <1>3, <1>4, <1>7, <1>8, OthersAreKept
<1>9. QED  BY <1>2, <1>4, <1>5, <1>6, <1>7, <1>8, QuietKeeps

LEMMA ProbeKeeps ==
  ASSUME ApiInv, NEW h \in live, Probe(h)
  PROVE  ApiInv'
<1>1. /\ LoopStep(h) /\ UNCHANGED storeVars /\ up' = up
      /\ pc' = pc /\ syncing' = syncing /\ ledger' = ledger
  BY DEF Probe, storeVars
<1>2. ManagerInv' /\ stops' = stops /\ taken' = taken
  BY <1>1, LoopStepKeeps
     DEF ApiInv, ControlInv, LoopStep, ProbeDone, Tick, LoopExit
<1>3. /\ StoreInv' /\ AsMap(cfg'.targets) = AsMap(cfg.targets)
      /\ \A id \in Ids : \A v : Kept(id, v) => Kept(id, v)'
  BY <1>1, SameStore DEF ApiInv, ControlInv
<1>4. ControlInv'
  <2>1. Serving' = Serving
    BY <1>1 DEF Serving
  <2>2. QED  BY <1>1, <1>2, <1>3, <2>1 DEF ApiInv, ControlInv
<1>5. QED  BY <1>1, <1>2, <1>3, <1>4, QuietKeeps

-----------------------------------------------------------------------------
(* The process                                                             *)

LEMMA KillKeeps ==
  ASSUME ApiInv, Kill
  PROVE  ApiInv'
<1>1. /\ Crash /\ up' = FALSE /\ file' = file
      /\ stops' = [id \in Ids |-> {}] /\ taken' = [k \in Callers |-> {}]
      /\ probing' = {} /\ waiting' = {} /\ closed' = {}
      /\ pc' = [k \in Clients |-> Idle] /\ syncing' = <<>> /\ ledger' = ledger
  BY DEF Kill, Crash, Clients
<1>2. StoreInv'
  BY <1>1, CrashKeeps DEF ApiInv, ControlInv
<1>3. ManagerInv'
  <2>1. registered' = {} /\ inHand' = {} /\ live' = {}
    BY <1>1 DEF registered, inHand, live
  <2>2. QED
    BY <1>1, <2>1 DEF ManagerInv, ManagerTypeOK, NoOrphanLoop, ClosedOnce,
                      RegisteredIsOneGroup
<1>4. \A k \in Clients : pc'[k] = Idle /\ pc'[k].at = "idle" /\ taken'[k] = {}
  BY <1>1 DEF Idle, Clients
<1>5. ControlInv'
  <2>1. pc' \in [Clients -> Places]
    BY <1>1, PlacesAre
  <2>2. QED
    BY <1>1, <1>2, <1>3, <1>4, <2>1, EmptySync DEF ApiInv, ControlInv
<1>6. \A k \in Clients, id \in Ids : ~Editing(k, id)'
  BY <1>4 DEF Editing
<1>7. EditsAreTracked'
  BY <1>6 DEF EditsAreTracked
<1>8. HalfIsDone'
  BY <1>4 DEF HalfIsDone, HalfDone
<1>9. SyncIsStored'
  BY <1>1, EmptySync DEF SyncIsStored
<1>10. SettledRuns'
  BY <1>1 DEF SettledRuns
<1>11. AckedEditsSurvive'
  BY <1>1 DEF ApiInv, AckedEditsSurvive, Settled
<1>12. QED  BY <1>5, <1>7, <1>8, <1>9, <1>10, <1>11 DEF ApiInv

(* No handler runs before the process serves.                              *)
LEMMA QuietBeforeServing ==
  ASSUME ApiInv, ~Serving
  PROVE  /\ \A k \in Clients : pc[k].at = "idle" /\ taken[k] = {}
         /\ \A k \in Clients, id \in Ids : ~Editing(k, id)
BY DEF ApiInv, ControlInv, Editing

(* Opening the store leaves a config file, and in memory a list whose map  *)
(* takes every entry from it.                                              *)
LEMMA RestartEntry ==
  ASSUME StoreInv, OpenFirst \/ \E ok \in WriteResults : Open(ok)
  PROVE  /\ StoreInv' /\ ~up /\ up' /\ file' # NoFile
         /\ cfg'.targets \in Seq(SavedTargets) /\ Unique(cfg'.targets)
         /\ \A id \in Ids : AsMap(cfg'.targets)[id] \in SavedTargets \cup {NoTarget}
         /\ \A id \in Ids :
              id \notin IdsOf(cfg'.targets) => AsMap(cfg'.targets)[id] = NoTarget
         /\ \A i \in DOMAIN cfg'.targets :
              AsMap(cfg'.targets)[cfg'.targets[i].id] = cfg'.targets[i]
<1>1. StoreInv' /\ ~up /\ up'
  BY OpenFirstKeeps, OpenKeeps DEF OpenFirst, Open
<1>2. file' # NoFile
  <2>1. CASE OpenFirst
    BY <2>1, NoFileAssumption DEF OpenFirst
  <2>2. CASE \E ok \in WriteResults : Open(ok)
    <3>1. file # NoFile /\ file' \in {file, cfg'}
      BY <2>2, OpenKeeps DEF Open
    <3>2. QED  BY <1>1, <3>1, NoFileAssumption DEF StoreInv
  <2>3. QED  BY <2>1, <2>2
<1> DEFINE us == cfg'.targets
<1>3. us \in Seq(SavedTargets) /\ us \in Seq(Written) /\ Unique(us) /\ UniqueNamed(us)
  BY <1>1, MemoryMapNext
<1> HIDE DEF us
<1>4. \A id \in Ids : AsMap(us)[id] \in SavedTargets \cup {NoTarget}
  BY <1>3, AsMapIs
<1>5. \A id \in Ids : id \notin IdsOf(us) => AsMap(us)[id] = NoTarget
  BY <1>3, AsMapIs DEF Has, IdsOf
<1>6. \A i \in DOMAIN us : AsMap(us)[us[i].id] = us[i]
  <2> SUFFICES ASSUME NEW i \in DOMAIN us  PROVE AsMap(us)[us[i].id] = us[i]
    OBVIOUS
  <2>1. us[i] \in SavedTargets
    BY <1>3
  <2>2. us[i].id \in Ids /\ normalized(us[i]) = us[i]
    BY <2>1, SavedIsFixed
  <2>3. QED  BY <1>3, <2>2, AsMapIs
<1>7. QED  BY <1>1, <1>2, <1>3, <1>4, <1>5, <1>6 DEF us

LEMMA RestartKeeps ==
  ASSUME ApiInv, Restart
  PROVE  ApiInv'
<1>1. /\ OpenFirst \/ \E ok \in WriteResults : Open(ok)
      /\ syncing' = cfg'.targets /\ pc' = pc /\ UNCHANGED managerVars
      /\ stops' = stops /\ taken' = taken
      /\ ledger' = [id \in Ids |->
           IF AsMap(cfg'.targets)[id] = AsMap(file'.targets)[id]
             THEN AsMap(cfg'.targets)[id] ELSE Unknown]
  BY DEF Restart, managerVars
<1>2. /\ StoreInv' /\ ~up /\ up' /\ file' # NoFile
      /\ cfg'.targets \in Seq(SavedTargets) /\ Unique(cfg'.targets)
      /\ \A id \in Ids : AsMap(cfg'.targets)[id] \in SavedTargets \cup {NoTarget}
      /\ \A id \in Ids :
           id \notin IdsOf(cfg'.targets) => AsMap(cfg'.targets)[id] = NoTarget
      /\ \A i \in DOMAIN cfg'.targets :
           AsMap(cfg'.targets)[cfg'.targets[i].id] = cfg'.targets[i]
  BY <1>1, RestartEntry DEF ApiInv, ControlInv
<1>3. /\ \A k \in Clients : pc[k].at = "idle" /\ taken[k] = {}
      /\ \A k \in Clients, id \in Ids : ~Editing(k, id)
  BY <1>2, QuietBeforeServing DEF Serving
<1>4. /\ ledger' \in [Ids -> SavedTargets \cup {NoTarget, Unknown, Contended}]
      /\ \A id \in Ids : Settled(id)' =>
           /\ ledger'[id] = AsMap(cfg'.targets)[id]
           /\ ledger'[id] = AsMap(file'.targets)[id]
  BY <1>1, <1>2 DEF Settled
<1>5. ControlInv'
  <2>1. ManagerInv'
    BY <1>1, SameManager DEF ApiInv, ControlInv
  <2>2. QED
    BY <1>1, <1>2, <1>3, <1>4, <2>1 DEF ApiInv, ControlInv
<1>6. EditsAreTracked'
  BY <1>1, <1>3 DEF EditsAreTracked, Editing
<1>7. HalfIsDone'
  BY <1>1, <1>3 DEF HalfIsDone, HalfDone
<1>8. SyncIsStored'
  BY <1>1, <1>2 DEF SyncIsStored
<1>9. AckedEditsSurvive'
  BY <1>2, <1>4 DEF AckedEditsSurvive
<1>10. SettledRuns'
  <2> SUFFICES ASSUME NEW id \in Ids, Settled(id)', id \notin IdsOf(cfg'.targets)
               PROVE  Runs(id, ledger[id])'
    BY <1>1 DEF SettledRuns
  <2>1. ledger'[id] = NoTarget
    BY <1>2, <1>4
  <2>2. stops'[id] = {}
    BY <1>1, <1>2 DEF ApiInv, ControlInv
  <2>3. QED  BY <2>1, <2>2 DEF Runs
<1>11. QED  BY <1>5, <1>6, <1>7, <1>8, <1>9, <1>10 DEF ApiInv

LEMMA TailIs ==
  ASSUME NEW S, NEW ts \in Seq(S), ts # <<>>
  PROVE  /\ Tail(ts) \in Seq(S) /\ 1 \in DOMAIN ts /\ ts[1] = Head(ts)
         /\ \A i \in DOMAIN Tail(ts) :
              i \in Nat /\ i + 1 \in DOMAIN ts /\ Tail(ts)[i] = ts[i + 1]
         /\ \A i \in DOMAIN ts \ {1} :
              i - 1 \in DOMAIN Tail(ts) /\ Tail(ts)[i - 1] = ts[i]
<1>1. /\ Len(ts) \in Nat \ {0} /\ DOMAIN ts = 1 .. Len(ts)
      /\ Tail(ts) \in Seq(S) /\ Len(Tail(ts)) = Len(ts) - 1
      /\ DOMAIN Tail(ts) = 1 .. Len(Tail(ts))
  BY EmptySeq, HeadTailProperties
<1>2. \A i \in 1 .. Len(ts) - 1 : Tail(ts)[i] = ts[i + 1]
  BY <1>1
<1>3. ts[1] = Head(ts)
  BY <1>1
<1>4. QED  BY <1>1, <1>2, <1>3

LEMMA SyncKeeps ==
  ASSUME ApiInv, Sync
  PROVE  ApiInv'
<1>1. syncing \in Seq(SavedTargets) /\ syncing # <<>> /\ up
  BY DEF Sync, ApiInv, ControlInv
<1>2. PICK t \in SavedTargets : t = Head(syncing)
  BY <1>1
<1>3. /\ Start(t) /\ syncing' = Tail(syncing)
      /\ UNCHANGED storeVars /\ up' = up /\ pc' = pc /\ ledger' = ledger
  BY <1>2 DEF Sync, storeVars
<1>4. /\ ManagerInv' /\ taken' = taken
      /\ \A other \in Ids \ {t.id} : stops'[other] = stops[other]
      /\ \E g \in Gens : stops'[t.id] = Group(g, t)
  BY <1>3, StartEntry DEF ApiInv, ControlInv
<1>5. /\ \A k \in Clients : pc[k].at = "idle" /\ taken[k] = {}
      /\ \A k \in Clients, id \in Ids : ~Editing(k, id)
  BY <1>1, QuietBeforeServing DEF Serving
<1>6. /\ syncing' \in Seq(SavedTargets)
      /\ syncing[1] = t /\ 1 \in DOMAIN syncing
      /\ \A i \in DOMAIN syncing' :
           i \in Nat /\ i + 1 \in DOMAIN syncing /\ syncing'[i] = syncing[i + 1]
      /\ \A i \in DOMAIN syncing \ {1} :
           i - 1 \in DOMAIN syncing' /\ syncing'[i - 1] = syncing[i]
  BY <1>1, <1>2, <1>3, TailIs
<1>7. /\ StoreInv' /\ AsMap(cfg'.targets) = AsMap(cfg.targets)
      /\ file' = file
  BY <1>3, SameStore DEF ApiInv, ControlInv, storeVars
<1>8. ControlInv'
  BY <1>1, <1>3, <1>4, <1>5, <1>6, <1>7 DEF ApiInv, ControlInv
<1>9. EditsAreTracked'
  BY <1>3, <1>5 DEF EditsAreTracked, Editing
<1>10. HalfIsDone'
  BY <1>3, <1>5 DEF HalfIsDone, HalfDone
<1>11. SyncIsStored'
  <2>1. Unique(syncing)
    BY DEF ApiInv, SyncIsStored
  <2>2. Unique(syncing')
    <3> SUFFICES ASSUME NEW i \in DOMAIN syncing', NEW j \in DOMAIN syncing',
                        syncing'[i].id = syncing'[j].id
                 PROVE  i = j
      BY DEF Unique
    <3>1. i + 1 = j + 1
      BY <1>6, <2>1 DEF Unique
    <3>2. i \in Nat /\ j \in Nat
      BY <1>6
    <3>3. QED  BY <3>1, <3>2
  <2>3. QED  BY <1>6, <1>7, <2>2 DEF ApiInv, SyncIsStored
<1>12. AckedEditsSurvive'
  BY <1>3, <1>7 DEF ApiInv, AckedEditsSurvive, Settled
<1>13. SettledRuns'
  <2> SUFFICES ASSUME NEW id \in Ids, Settled(id), id \notin IdsOf(syncing')
               PROVE  Runs(id, ledger[id])'
    BY <1>3 DEF SettledRuns, Settled
  <2>1. CASE id = t.id
    <3>1. AsMap(cfg.targets)[id] = t
      BY <1>6, <2>1 DEF ApiInv, SyncIsStored
    <3>2. ledger[id] = t
      BY <1>1, <3>1 DEF ApiInv, AckedEditsSurvive
    <3>3. QED  BY <1>3, <1>4, <2>1, <3>2 DEF Runs
  <2>2. CASE id # t.id
    <3>1. id \notin IdsOf(syncing)
      BY <1>6, <2>2 DEF IdsOf
    <3>2. Runs(id, ledger[id])
      BY <1>1, <3>1 DEF ApiInv, SettledRuns
    <3>3. QED  BY <1>3, <1>4, <2>2, <3>2 DEF Runs
  <2>3. QED  BY <2>1, <2>2
<1>14. QED  BY <1>8, <1>9, <1>10, <1>11, <1>12, <1>13 DEF ApiInv

-----------------------------------------------------------------------------
(* The program                                                             *)

LEMMA ApiInitInv == ApiInit => ApiInv
<1> SUFFICES ASSUME ApiInit  PROVE ApiInv
  OBVIOUS
<1>1. ManagerInv /\ StoreInv
  BY ManagerInitInv, InitStore DEF ApiInit
<1>2. /\ ~up /\ syncing = <<>> /\ \A id \in Ids : stops[id] = {}
      /\ \A k \in Clients : taken[k] = {} /\ pc[k] = Idle /\ pc[k].at = "idle"
      /\ \A id \in Ids : ~Settled(id)
  BY DEF ApiInit, ManagerInit, ConfigStoreInit, Idle, Settled, Clients
<1>3. ControlInv
  BY <1>1, <1>2, EmptySync, PlacesAre DEF ApiInit, ControlInv
<1>4. EditsAreTracked /\ HalfIsDone
  BY <1>2 DEF EditsAreTracked, HalfIsDone, HalfDone, Editing
<1>5. SyncIsStored
  BY <1>2, EmptySync DEF SyncIsStored
<1>6. QED
  BY <1>2, <1>3, <1>4, <1>5 DEF ApiInv, SettledRuns, AckedEditsSurvive

LEMMA ApiNextInv == ApiInv /\ [ApiNext]_apiVars => ApiInv'
<1> SUFFICES ASSUME ApiInv, [ApiNext]_apiVars  PROVE ApiInv'
  OBVIOUS
<1>1. CASE UNCHANGED apiVars
  <2>1. /\ UNCHANGED managerVars /\ UNCHANGED storeVars /\ pc' = pc
        /\ syncing' = syncing /\ ledger' = ledger
    BY <1>1 DEF apiVars
  <2>2. stops' = stops /\ taken' = taken /\ up' = up
    BY <2>1 DEF managerVars, storeVars
  <2>3. /\ StoreInv' /\ AsMap(cfg'.targets) = AsMap(cfg.targets)
        /\ \A id \in Ids : \A v : Kept(id, v) => Kept(id, v)'
    BY <2>1, SameStore DEF ApiInv, ControlInv
  <2>4. ManagerInv'
    BY <2>1, SameManager DEF ApiInv, ControlInv
  <2>5. ControlInv'
    BY <2>1, <2>2, <2>3, <2>4 DEF ApiInv, ControlInv, Serving
  <2>6. QED  BY <2>1, <2>2, <2>3, <2>5, QuietKeeps
<1>2. CASE ApiNext
  BY <1>2, SaveKeeps, SaveUpsertKeeps, SaveRefusedKeeps, SaveStartKeeps,
     DeleteStopKeeps, DeleteCloseKeeps, DeleteStoredKeeps, DeleteNotFoundKeeps,
     SaveRemoteKeeps, ProbeKeeps, RestartKeeps, SyncKeeps, KillKeeps
     DEF ApiNext, Handler
<1>3. QED  BY <1>1, <1>2

LEMMA ApiAlways == ApiSpec => []ApiInv
BY ApiInitInv, ApiNextInv, PTL DEF ApiSpec

(* Handlers hold stop channels in the middle of a DELETE only and run only *)
(* while the process serves; what they carry are requests and saved        *)
(* targets, and so is what Sync starts (server.go:36-117, runtime.go:38).  *)
THEOREM ApiTypeCorrect == ApiSpec => []ApiTypeOK
<1>1. ApiInv => ApiTypeOK
  <2> SUFFICES ASSUME ApiInv  PROVE ApiTypeOK
    OBVIOUS
  <2>1. ManagerTypeOK /\ ConfigStoreTypeOK
    BY DEF ApiInv, ControlInv, ManagerInv, StoreInv, ConfigStoreTypeOK
  <2>2. \A k \in Clients : pc[k] # Idle => pc[k].at # "idle"
    BY PlaceIs DEF ApiInv, ControlInv
  <2>3. QED  BY <2>1, <2>2 DEF ApiInv, ControlInv, ApiTypeOK
<1>2. QED  BY <1>1, ApiAlways, PTL

(* An edit that was answered with success, and that no other edit of its   *)
(* target overlapped, stays in memory and on disk through failed writes,   *)
(* kills and restarts, for any number of clients and targets               *)
(* (config.go:184-186).                                                    *)
THEOREM AckedEditsAreKept == ApiSpec => []AckedEditsSurvive
BY ApiAlways, PTL DEF ApiInv

(* While the process serves, the prober runs all the loops of the settings *)
(* such an edit left, and none of a target it deleted, also after a        *)
(* restart (server.go:36-117, runtime.go:38, config.go:184-186).           *)
THEOREM ProberRunsTheStore == ApiSpec => []ProberFollowsStore
<1>1. ApiInv => ProberFollowsStore
  BY EmptySync DEF ApiInv, SettledRuns, Runs, ProberFollowsStore, Serving
<1>2. QED  BY <1>1, ApiAlways, PTL

(* What the manager alone promises holds under the handlers too, which     *)
(* close channels between the steps of other handlers: every running loop  *)
(* can be stopped, no channel is closed twice, and a target has the loops  *)
(* of one Start (prober.go:39-92).                                         *)
THEOREM LoopsAreSafeInTheProgram ==
  ApiSpec => [](NoOrphanLoop /\ ClosedOnce /\ RegisteredIsOneGroup)
BY ApiAlways, PTL DEF ApiInv, ControlInv, ManagerInv

(* The handlers, the start and the end of the process change the store by  *)
(* its own operations only, with requests that validate first, so all that *)
(* is proved of the store holds in the program.                            *)
THEOREM HandlersUseTheStore == ApiSpec => ConfigStoreSpec
<1>1. ApiInit => ConfigStoreInit
  BY DEF ApiInit
<1>2. ApiInv /\ [ApiNext]_apiVars => [ConfigStoreNext]_storeVars
  <2> SUFFICES ASSUME ApiInv, ApiNext, ~UNCHANGED storeVars  PROVE ConfigStoreNext
    BY DEF apiVars
  <2>1. ASSUME NEW k \in Clients, NEW ok \in WriteResults, SaveUpsert(k, ok)
        PROVE  ConfigStoreNext
    <3>1. pc[k].body \in Seq(Requests) /\ pc[k].body # <<>>
      BY <2>1, PlaceIs DEF SaveUpsert, ApiInv, ControlInv
    <3>2. PICK t \in Requests : t = Head(pc[k].body)
      BY <3>1
    <3>3. \E id \in AssignedIds(t) : Upsert(t, id, ok)
      BY <2>1, <3>2 DEF SaveUpsert
    <3>4. QED  BY <3>3 DEF ConfigStoreNext
  <2>2. ASSUME NEW k \in Clients, NEW ok \in WriteResults, DeleteStored(k, ok)
        PROVE  ConfigStoreNext
    <3>1. pc[k].id \in Ids
      BY <2>2, PlaceIs DEF DeleteStored, ApiInv, ControlInv
    <3>2. PICK id \in Ids : id = pc[k].id
      BY <3>1
    <3>3. Delete(id, ok)
      BY <2>2, <3>2 DEF DeleteStored
    <3>4. QED  BY <3>3 DEF ConfigStoreNext
  <2>3. ASSUME NEW k \in Clients, SaveRemote(k)
        PROVE  ConfigStoreNext
    BY <2>3 DEF SaveRemote, ConfigStoreNext
  <2>4. CASE Restart
    BY <2>4 DEF Restart, ConfigStoreNext
  <2>5. CASE Kill
    BY <2>5 DEF Kill, ConfigStoreNext
  <2>6. QED
    BY <2>1, <2>2, <2>3, <2>4, <2>5
       DEF ApiNext, Handler, Save, SaveRefused, SaveStart, DeleteStop, DeleteClose,
           DeleteNotFound, Probe, Sync
<1>3. QED  BY <1>1, <1>2, ApiAlways, PTL DEF ApiSpec, ConfigStoreSpec

(* In the program, too, an edit changes the entry of one ID and a start    *)
(* reads back the last successful write, and no two targets have one ID    *)
(* (config.go:184-326).                                                    *)
THEOREM ProgramKeepsARegistry == ApiSpec => ImplementsRegistry /\ []UniqueIds
BY HandlersUseTheStore, StoreIsARegistry, IdsStayUnique, PTL
===============================================================================
