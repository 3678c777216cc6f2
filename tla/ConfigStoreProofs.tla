--------------------------- MODULE ConfigStoreProofs ---------------------------
(***************************************************************************)
(* The list of targets behaves as a map, for any requests, IDs and files:  *)
(* the type invariant, unique IDs, and the refinement of TargetRegistry.   *)
(***************************************************************************)
EXTENDS ConfigStore, TargetTheorems, SequenceTheorems

(* What a config file may hold: requests as an administrator wrote them,   *)
(* the example of the first start, or targets that were saved.             *)
Written == Requests \cup {Example} \cup SavedTargets

UniqueNamed(ts) == \A i, j \in DOMAIN ts :
  ts[i].id = ts[j].id => i = j \/ ts[i].id = Blank

StoreInv ==
  /\ cfg \in ConfigType
  /\ Unique(cfg.targets)
  /\ up \in BOOLEAN
  /\ file # NoFile => /\ file.targets \in Seq(Written)
                      /\ file.remote \in Remotes
                      /\ UniqueNamed(file.targets)

-----------------------------------------------------------------------------
(* Targets                                                                 *)

LEMMA SavedTarget ==
  ASSUME NEW t \in Requests \cup {Example}, NEW id \in Ids
  PROVE  /\ Saved(t, id) \in SavedTargets
         /\ Saved(t, id) \in TargetType(Ids)
         /\ Saved(t, id).id = id
         /\ NormalForm(Saved(t, id))
<1>1. t \in TargetType(Ids \cup {Blank})
  BY ConfigStoreAssumption DEF TargetType
<1>2. normalized(t) \in TargetType(Ids \cup {Blank}) /\ NormalForm(normalized(t))
  BY <1>1, NormalizedUsable
<1> DEFINE n == normalized(t)
           s == [n EXCEPT !.id = id]
<1> HIDE DEF n
<1>3. /\ s \in TargetType(Ids) /\ s.id = id /\ s.monitors = n.monitors
      /\ s.interval = n.interval /\ s.timeout = n.timeout
      /\ s.burst = n.burst /\ s.gap = n.gap /\ s.proto = n.proto
  BY <1>2 DEF TargetType, n
<1>4. NormalForm(s)
  BY <1>2, <1>3 DEF NormalForm, Usable, n
<1>5. Saved(t, id) = s
  BY DEF Saved, n
<1>6. QED  BY <1>3, <1>4, <1>5 DEF SavedTargets

(* Saved targets are targets, and normalization leaves them alone.         *)
LEMMA SavedIsFixed ==
  ASSUME NEW s \in SavedTargets
  PROVE  /\ s \in TargetType(Ids) /\ s.id \in Ids /\ normalized(s) = s
<1>1. PICK t \in Requests \cup {Example}, id \in Ids : s = Saved(t, id)
  BY DEF SavedTargets
<1>2. QED  BY <1>1, SavedTarget, NormalFormIsFixed

(* Normalization of a named target of a file makes it a saved one.         *)
LEMMA NormalizedWritten ==
  ASSUME NEW t \in Written, t.id # Blank
  PROVE  /\ normalized(t) \in SavedTargets
         /\ normalized(t).id = t.id
         /\ normalized(normalized(t)) = normalized(t)
<1>1. CASE t \in SavedTargets
  BY <1>1, SavedIsFixed
<1>2. CASE t \in Requests \cup {Example}
  <2>1. t \in TargetType(Ids \cup {Blank})
    BY <1>2, ConfigStoreAssumption DEF TargetType
  <2>2. t.id \in Ids
    BY <2>1 DEF TargetType
  <2>3. normalized(t) \in TargetType(Ids \cup {Blank}) /\ normalized(t).id = t.id
    BY <2>1, NormalizedUsable
  <2>4. Saved(t, t.id) = normalized(t)
    BY <2>3 DEF Saved, TargetType
  <2>5. QED  BY <1>2, <2>2, <2>3, <2>4, SavedTarget, SavedIsFixed
<1>3. QED  BY <1>1, <1>2 DEF Written

LEMMA UnnamedWritten ==
  ASSUME NEW t \in Written, t.id = Blank
  PROVE  t \in Requests
BY SavedIsFixed, ConfigStoreAssumption, IdsAssumption DEF Written, TargetType

-----------------------------------------------------------------------------
(* The list                                                                *)

(* In a list without duplicates the first match is the only one.           *)
LEMMA FindIs ==
  ASSUME NEW S, NEW ts \in Seq(S), NEW id, id # Blank,
         UniqueNamed(ts), NEW i \in DOMAIN ts, ts[i].id = id
  PROVE  Has(ts, id) /\ Find(ts, id) = i
<1>1. /\ ts[i].id = id
      /\ \A j \in DOMAIN ts : j < i => ts[j].id # id
  BY DEF UniqueNamed
<1>2. \A k \in DOMAIN ts : ts[k].id = id => k = i
  BY DEF UniqueNamed
<1>3. Has(ts, id)
  BY DEF Has
<1>4. QED  BY <1>1, <1>2, <1>3 DEF Find

LEMMA UniqueIsNamed == \A ts : Unique(ts) => UniqueNamed(ts)
BY DEF Unique, UniqueNamed

(* Put changes the target of one ID, or adds it at the end.                *)
LEMMA PutIs ==
  ASSUME NEW S, NEW ts \in Seq(S), NEW t \in S, t.id # Blank, Unique(ts)
  PROVE  /\ Put(ts, t) \in Seq(S)
         /\ Unique(Put(ts, t))
         /\ \E i \in DOMAIN Put(ts, t) : Put(ts, t)[i] = t
         /\ \A i \in DOMAIN ts : ts[i].id # t.id =>
              \E j \in DOMAIN Put(ts, t) : Put(ts, t)[j] = ts[i]
         /\ \A j \in DOMAIN Put(ts, t) : Put(ts, t)[j].id # t.id =>
              \E i \in DOMAIN ts : ts[i] = Put(ts, t)[j]
<1>1. CASE Has(ts, t.id)
  <2>1. PICK i \in DOMAIN ts : ts[i].id = t.id
    BY <1>1 DEF Has
  <2>2. Find(ts, t.id) = i
    BY <2>1, FindIs, UniqueIsNamed
  <2>3. Put(ts, t) = [ts EXCEPT ![i] = t]
    BY <1>1, <2>2 DEF Put, ReplaceAt
  <2>4. QED  BY <2>1, <2>3 DEF Unique
<1>2. CASE ~Has(ts, t.id)
  <2>1. Put(ts, t) = Append(ts, t)
    BY <1>2 DEF Put
  <2>2. \A i \in DOMAIN ts : ts[i].id # t.id
    BY <1>2 DEF Has
  <2>3. /\ Append(ts, t) \in Seq(S)
        /\ DOMAIN ts = 1..Len(ts) /\ Len(ts) \in Nat
        /\ DOMAIN Append(ts, t) = 1..(Len(ts) + 1)
        /\ \A i \in DOMAIN ts : Append(ts, t)[i] = ts[i]
        /\ Append(ts, t)[Len(ts) + 1] = t
    OBVIOUS
  <2>4. \A j \in DOMAIN Append(ts, t) : j \in DOMAIN ts \/ j = Len(ts) + 1
    BY <2>3
  <2> DEFINE u == Append(ts, t)
  <2> HIDE DEF u
  <2>5. Unique(u)
    <3> SUFFICES ASSUME NEW i \in DOMAIN u, NEW j \in DOMAIN u, u[i].id = u[j].id
                 PROVE  i = j
      BY DEF Unique
    <3>1. CASE i \in DOMAIN ts /\ j \in DOMAIN ts
      BY <3>1, <2>3 DEF Unique, u
    <3>2. CASE ~(i \in DOMAIN ts /\ j \in DOMAIN ts)
      BY <3>2, <2>2, <2>3, <2>4 DEF u
    <3>3. QED  BY <3>1, <3>2
  <2>6. \E i \in DOMAIN u : u[i] = t
    BY <2>3 DEF u
  <2>7. \A i \in DOMAIN ts : \E j \in DOMAIN u : u[j] = ts[i]
    BY <2>3 DEF u
  <2>8. \A j \in DOMAIN u : u[j].id # t.id => \E i \in DOMAIN ts : ts[i] = u[j]
    BY <2>3, <2>4 DEF u
  <2>9. QED  BY <2>1, <2>3, <2>5, <2>6, <2>7, <2>8 DEF u
<1>3. QED  BY <1>1, <1>2

(* RemoveAt drops one target and shifts those behind it.                   *)
LEMMA RemoveAtIs ==
  ASSUME NEW S, NEW ts \in Seq(S), NEW k \in DOMAIN ts
  PROVE  /\ RemoveAt(ts, k) \in Seq(S)
         /\ DOMAIN RemoveAt(ts, k) = 1 .. Len(ts) - 1
         /\ \A i \in 1 .. Len(ts) - 1 :
              RemoveAt(ts, k)[i] = IF i < k THEN ts[i] ELSE ts[i + 1]
<1> DEFINE head == SubSeq(ts, 1, k - 1)
           tail == SubSeq(ts, k + 1, Len(ts))
<1>1. Len(ts) \in Nat /\ k \in 1 .. Len(ts) /\ \A i \in 1 .. Len(ts) : ts[i] \in S
  OBVIOUS
<1>2. /\ head \in Seq(S) /\ Len(head) = k - 1
      /\ \A i \in 1 .. k - 1 : head[i] = ts[i]
  BY <1>1, SubSeqProperties
<1>3. /\ tail \in Seq(S) /\ Len(tail) = Len(ts) - k
      /\ \A i \in 1 .. Len(ts) - k : tail[i] = ts[k + i]
  BY <1>1, SubSeqProperties
<1> HIDE DEF head, tail
<1>4. /\ head \o tail \in Seq(S)
      /\ Len(head \o tail) = Len(ts) - 1
      /\ \A i \in 1 .. Len(ts) - 1 :
           (head \o tail)[i] = IF i <= k - 1 THEN head[i] ELSE tail[i - (k - 1)]
  BY <1>1, <1>2, <1>3, ConcatProperties
<1>5. RemoveAt(ts, k) = head \o tail
  BY DEF RemoveAt, head, tail
<1>6. \A i \in 1 .. Len(ts) - 1 :
        (head \o tail)[i] = IF i < k THEN ts[i] ELSE ts[i + 1]
  <2> TAKE i \in 1 .. Len(ts) - 1
  <2>1. CASE i < k
    BY <1>1, <1>2, <1>4, <2>1
  <2>2. CASE ~(i < k)
    <3>1. i - (k - 1) \in 1 .. Len(ts) - k /\ k + (i - (k - 1)) = i + 1
      BY <1>1, <2>2
    <3>2. (head \o tail)[i] = tail[i - (k - 1)]
      BY <1>1, <1>4, <2>2
    <3>3. QED  BY <1>3, <2>2, <3>1, <3>2
  <2>3. QED  BY <2>1, <2>2
<1>7. QED  BY <1>1, <1>4, <1>5, <1>6

LEMMA RemoveIs ==
  ASSUME NEW S, NEW ts \in Seq(S), NEW id, id # Blank, Unique(ts), Has(ts, id)
  PROVE  LET us == RemoveAt(ts, Find(ts, id))
         IN /\ us \in Seq(S)
            /\ Unique(us)
            /\ ~Has(us, id)
            /\ \A i \in DOMAIN ts : ts[i].id # id => \E j \in DOMAIN us : us[j] = ts[i]
            /\ \A j \in DOMAIN us : \E i \in DOMAIN ts : ts[i] = us[j]
<1>1. PICK k \in DOMAIN ts : ts[k].id = id
  BY DEF Has
<1>2. Find(ts, id) = k
  BY <1>1, FindIs, UniqueIsNamed
<1> DEFINE us == RemoveAt(ts, k)
<1>3. /\ us \in Seq(S) /\ DOMAIN us = 1 .. Len(ts) - 1
      /\ \A i \in 1 .. Len(ts) - 1 : us[i] = IF i < k THEN ts[i] ELSE ts[i + 1]
  BY RemoveAtIs
<1> HIDE DEF us
<1>4. DOMAIN ts = 1 .. Len(ts) /\ Len(ts) \in Nat /\ k \in 1 .. Len(ts)
  OBVIOUS
<1> DEFINE from(i) == IF i < k THEN i ELSE i + 1
<1>5. \A i \in DOMAIN us : us[i] = ts[from(i)] /\ from(i) \in DOMAIN ts /\ from(i) # k
  BY <1>3, <1>4
<1>6. Unique(us)
  <2> SUFFICES ASSUME NEW i \in DOMAIN us, NEW j \in DOMAIN us, us[i].id = us[j].id
               PROVE  i = j
    BY DEF Unique
  <2>1. from(i) = from(j)
    BY <1>5 DEF Unique
  <2>2. QED  BY <1>3, <1>4, <2>1
<1>7. ~Has(us, id)
  BY <1>1, <1>5 DEF Has, Unique
<1>8. \A i \in DOMAIN ts : ts[i].id # id => \E j \in DOMAIN us : us[j] = ts[i]
  <2> SUFFICES ASSUME NEW i \in DOMAIN ts, ts[i].id # id
               PROVE  \E j \in DOMAIN us : us[j] = ts[i]
    OBVIOUS
  <2>1. CASE i < k
    BY <1>3, <1>4, <2>1
  <2>2. CASE i > k
    <3>1. i - 1 \in DOMAIN us /\ us[i - 1] = ts[i]
      BY <1>3, <1>4, <2>2
    <3>2. QED  BY <3>1
  <2>3. QED  BY <1>1, <1>4, <2>1, <2>2
<1>9. \A j \in DOMAIN us : \E i \in DOMAIN ts : ts[i] = us[j]
  BY <1>5
<1>10. QED  BY <1>2, <1>3, <1>6, <1>7, <1>8, <1>9 DEF us

(* openConfigStore keeps the named targets and names the others apart.     *)
LEMMA LoadedIs ==
  ASSUME NEW ts \in Seq(Written), UniqueNamed(ts),
         NEW names \in Injection(Unnamed(ts), Ids \ IdsOf(ts))
  PROVE  /\ Loaded(ts, names) \in Seq(SavedTargets)
         /\ DOMAIN Loaded(ts, names) = DOMAIN ts
         /\ Unique(Loaded(ts, names))
         /\ \A i \in DOMAIN ts : ts[i].id # Blank =>
              Loaded(ts, names)[i] = normalized(ts[i])
<1> DEFINE l == Loaded(ts, names)
<1>1. DOMAIN ts = 1 .. Len(ts) /\ Len(ts) \in Nat
      /\ \A i \in DOMAIN ts : ts[i] \in Written
  OBVIOUS
<1>2. /\ \A i \in Unnamed(ts) : names[i] \in Ids \ IdsOf(ts)
      /\ \A i, j \in Unnamed(ts) : names[i] = names[j] => i = j
  BY DEF Injection, IsInjective
<1>3. l = [i \in DOMAIN ts |-> l[i]]
  BY DEF Loaded
<1>4. ASSUME NEW i \in Unnamed(ts)
      PROVE  l[i] \in SavedTargets /\ l[i].id = names[i]
  <2>1. l[i] = Saved(ts[i], names[i]) /\ i \in DOMAIN ts
    BY DEF Loaded, Unnamed
  <2>2. ts[i] \in Requests
    BY <1>1, UnnamedWritten DEF Unnamed
  <2>3. QED  BY <1>2, <2>1, <2>2, SavedTarget
<1>5. ASSUME NEW i \in DOMAIN ts \ Unnamed(ts)
      PROVE  l[i] = normalized(ts[i]) /\ l[i] \in SavedTargets /\ l[i].id = ts[i].id
  <2>1. l[i] = normalized(ts[i])
    BY DEF Loaded
  <2>2. ts[i].id # Blank
    BY DEF Unnamed
  <2>3. QED  BY <1>1, <2>1, <2>2, NormalizedWritten
<1> HIDE DEF l
<1>6. Unique(l)
  <2> SUFFICES ASSUME NEW i \in DOMAIN ts, NEW j \in DOMAIN ts, l[i].id = l[j].id
               PROVE  i = j
    BY <1>3 DEF Unique
  <2>1. CASE i \in Unnamed(ts) /\ j \in Unnamed(ts)
    BY <1>2, <1>4, <2>1
  <2>2. CASE i \in Unnamed(ts) /\ j \notin Unnamed(ts)
    BY <1>2, <1>4, <1>5, <2>2 DEF IdsOf
  <2>3. CASE i \notin Unnamed(ts) /\ j \in Unnamed(ts)
    BY <1>2, <1>4, <1>5, <2>3 DEF IdsOf
  <2>4. CASE i \notin Unnamed(ts) /\ j \notin Unnamed(ts)
    BY <1>5, <2>4 DEF UniqueNamed, Unnamed
  <2>5. QED  BY <2>1, <2>2, <2>3, <2>4
<1>7. \A i \in DOMAIN ts : l[i] \in SavedTargets
  BY <1>4, <1>5
<1>8. l \in Seq(SavedTargets) /\ DOMAIN l = DOMAIN ts
  BY <1>1, <1>3, <1>7
<1>9. \A i \in DOMAIN ts : ts[i].id # Blank => l[i] = normalized(ts[i])
  BY <1>5 DEF Unnamed
<1>10. QED  BY <1>6, <1>8, <1>9 DEF l

-----------------------------------------------------------------------------
(* The invariant                                                           *)

(* Before the process starts, and after it ends, memory is empty.          *)
LEMMA EmptyStore ==
  /\ Config(<<>>, NoRemote) \in ConfigType
  /\ Config(<<>>, NoRemote).targets = <<>>
  /\ Unique(<<>>)
  /\ \A id : ~Has(<<>>, id)
<1>1. <<>> \in Seq(SavedTargets)
  OBVIOUS
<1>2. DOMAIN <<>> = {}
  OBVIOUS
<1>3. Unique(<<>>) /\ \A id : ~Has(<<>>, id)
  BY <1>2 DEF Unique, Has
<1>4. QED  BY <1>1, <1>3, ConfigStoreAssumption DEF Config, ConfigType

LEMMA InitStore == ConfigStoreInit => StoreInv
<1> SUFFICES ASSUME ConfigStoreInit  PROVE StoreInv
  OBVIOUS
<1>1. cfg \in ConfigType /\ Unique(cfg.targets) /\ up \in BOOLEAN
  BY EmptyStore DEF ConfigStoreInit
<1>2. ASSUME file # NoFile
      PROVE  /\ file.targets \in Seq(Written) /\ file.remote \in Remotes
             /\ UniqueNamed(file.targets)
  <2>1. file \in HandFiles
    BY <1>2 DEF ConfigStoreInit
  <2>2. file.targets \in Seq(Requests)
    BY <2>1, ConfigStoreAssumption
  <2>3. file.targets \in Seq(Written)
    BY <2>2 DEF Written
  <2>4. UniqueNamed(file.targets)
    BY <2>1, ConfigStoreAssumption DEF UniqueNamed
  <2>5. QED  BY <2>1, <2>3, <2>4, ConfigStoreAssumption
<1>3. QED  BY <1>1, <1>2 DEF StoreInv

(* What is written is the new memory, so only memory needs a look.         *)
LEMMA WriteKeeps ==
  ASSUME StoreInv, cfg' \in ConfigType, Unique(cfg'.targets), up' \in BOOLEAN,
         file' \in {file, cfg'}
  PROVE  StoreInv'
<1>1. cfg'.targets \in Seq(Written) /\ cfg'.remote \in Remotes
  BY DEF ConfigType, Written
<1>2. UniqueNamed(cfg'.targets)
  BY UniqueIsNamed
<1>3. QED  BY <1>1, <1>2 DEF StoreInv

LEMMA UpsertKeeps ==
  ASSUME StoreInv, NEW t \in Requests, NEW id \in AssignedIds(t),
         NEW ok, Upsert(t, id, ok)
  PROVE  /\ StoreInv'
         /\ id \in Ids
         /\ cfg'.targets = Put(cfg.targets, Saved(t, id))
<1>1. id \in Ids
  <2>1. t.id \in Ids \cup {Blank}
    BY ConfigStoreAssumption DEF TargetType
  <2>2. QED  BY <2>1 DEF AssignedIds, FreshIds
<1>2. Saved(t, id) \in SavedTargets /\ Saved(t, id).id = id /\ id # Blank
  BY <1>1, SavedTarget, IdsAssumption
<1>3. /\ cfg.targets \in Seq(SavedTargets) /\ cfg.remote \in Remotes
      /\ cfg = [targets |-> cfg.targets, remote |-> cfg.remote]
  BY DEF StoreInv, ConfigType
<1> DEFINE new == Put(cfg.targets, Saved(t, id))
<1>4. new \in Seq(SavedTargets) /\ Unique(new)
  BY <1>2, <1>3, PutIs DEF StoreInv
<1>5. cfg' = [cfg EXCEPT !.targets = new]
  BY DEF Upsert
<1> HIDE DEF new
<1>6. cfg' \in ConfigType /\ cfg'.targets = new
  BY <1>3, <1>4, <1>5 DEF ConfigType
<1>7. file' \in {file, cfg'} /\ up' \in BOOLEAN
  BY DEF Upsert, writeConfig, StoreInv
<1>8. StoreInv'
  BY <1>4, <1>6, <1>7, WriteKeeps
<1>9. QED  BY <1>1, <1>6, <1>8 DEF new

LEMMA DeleteKeeps ==
  ASSUME StoreInv, NEW id \in Ids, NEW ok, Delete(id, ok)
  PROVE  /\ StoreInv'
         /\ cfg'.targets = RemoveAt(cfg.targets, Find(cfg.targets, id))
<1>1. /\ cfg.targets \in Seq(SavedTargets) /\ cfg.remote \in Remotes
      /\ cfg = [targets |-> cfg.targets, remote |-> cfg.remote]
  BY DEF StoreInv, ConfigType
<1> DEFINE new == RemoveAt(cfg.targets, Find(cfg.targets, id))
<1>2. new \in Seq(SavedTargets) /\ Unique(new)
  BY <1>1, RemoveIs, IdsAssumption DEF StoreInv, Delete
<1>3. cfg' = [cfg EXCEPT !.targets = new]
  BY DEF Delete
<1> HIDE DEF new
<1>4. cfg' \in ConfigType /\ cfg'.targets = new
  BY <1>1, <1>2, <1>3 DEF ConfigType
<1>5. file' \in {file, cfg'} /\ up' \in BOOLEAN
  BY DEF Delete, writeConfig, StoreInv
<1>6. QED  BY <1>2, <1>4, <1>5, WriteKeeps DEF new

LEMMA SetRemoteKeeps ==
  ASSUME StoreInv, NEW r \in Remotes, NEW ok, SetRemoteConfig(r, ok)
  PROVE  StoreInv' /\ cfg'.targets = cfg.targets
<1>1. cfg' \in ConfigType /\ cfg'.targets = cfg.targets
  BY DEF SetRemoteConfig, StoreInv, ConfigType
<1>2. file' \in {file, cfg'} /\ up' \in BOOLEAN
  BY DEF SetRemoteConfig, writeConfig, StoreInv
<1>3. QED  BY <1>1, <1>2, WriteKeeps DEF StoreInv

LEMMA OpenKeeps ==
  ASSUME StoreInv, NEW ok, Open(ok)
  PROVE  /\ StoreInv'
         /\ DOMAIN cfg'.targets = DOMAIN file.targets
         /\ \A i \in DOMAIN file.targets : file.targets[i].id # Blank =>
              cfg'.targets[i] = normalized(file.targets[i])
         /\ file' \in {file, cfg'}
<1>1. PICK names \in Injection(Unnamed(file.targets), Ids \ IdsOf(file.targets)) :
        /\ cfg' = Config(Loaded(file.targets, names), file.remote)
        /\ file' \in {file, cfg'}
  BY DEF Open, writeConfig
<1>2. /\ file.targets \in Seq(Written) /\ UniqueNamed(file.targets)
      /\ file.remote \in Remotes
  BY DEF Open, StoreInv
<1>3. /\ cfg'.targets = Loaded(file.targets, names)
      /\ cfg' \in ConfigType
  BY <1>1, <1>2, LoadedIs DEF Config, ConfigType
<1>4. Unique(cfg'.targets) /\ up' \in BOOLEAN
  BY <1>2, <1>3, LoadedIs DEF Open
<1>5. QED  BY <1>1, <1>2, <1>3, <1>4, LoadedIs, WriteKeeps

(* The example of the first start is in normal form once it is loaded.     *)
LEMMA ExampleSaved ==
  /\ normalized(Example) \in SavedTargets
  /\ normalized(Example).id = Example.id /\ Example.id \in Ids
  /\ normalized(normalized(Example)) = normalized(Example)
<1>1. Example \in Written /\ Example.id \in Ids /\ Example.id # Blank
  BY ConfigStoreAssumption, IdsAssumption DEF Written, TargetType
<1>2. QED  BY <1>1, NormalizedWritten

LEMMA OpenFirstKeeps ==
  ASSUME StoreInv, OpenFirst
  PROVE  StoreInv'
<1>1. cfg' \in ConfigType /\ Unique(cfg'.targets)
  BY ExampleSaved, ConfigStoreAssumption DEF OpenFirst, Config, ConfigType, Unique
<1>2. /\ file'.targets \in Seq(Written) /\ file'.remote \in Remotes
      /\ UniqueNamed(file'.targets)
  BY ConfigStoreAssumption DEF OpenFirst, defaultConfig, Config, Written, UniqueNamed
<1>3. QED  BY <1>1, <1>2 DEF OpenFirst, StoreInv

LEMMA CrashKeeps ==
  ASSUME StoreInv, Crash
  PROVE  StoreInv'
BY EmptyStore DEF Crash, StoreInv

LEMMA NextKeepsStore == StoreInv /\ [ConfigStoreNext]_storeVars => StoreInv'
<1> SUFFICES ASSUME StoreInv, [ConfigStoreNext]_storeVars  PROVE StoreInv'
  OBVIOUS
<1>1. CASE UNCHANGED storeVars
  BY <1>1 DEF storeVars, StoreInv
<1>2. CASE ConfigStoreNext
  BY <1>2, UpsertKeeps, DeleteKeeps, SetRemoteKeeps, OpenKeeps, OpenFirstKeeps,
     CrashKeeps DEF ConfigStoreNext
<1>3. QED  BY <1>1, <1>2

(* Memory holds saved targets only, whatever was in the file.              *)
THEOREM StoreTypeCorrect == ConfigStoreSpec => []ConfigStoreTypeOK
<1>1. StoreInv => ConfigStoreTypeOK
  BY DEF StoreInv, ConfigStoreTypeOK
<1>2. QED  BY <1>1, InitStore, NextKeepsStore, PTL DEF ConfigStoreSpec

(* No sequence of edits, failed writes and restarts gives two targets one  *)
(* ID: the first match of a lookup is the only one (config.go:224-299).    *)
THEOREM IdsStayUnique == ConfigStoreSpec => []UniqueIds
<1>1. StoreInv => UniqueIds
  BY DEF StoreInv, UniqueIds, UniqueNamed
<1>2. QED  BY <1>1, InitStore, NextKeepsStore, PTL DEF ConfigStoreSpec

-----------------------------------------------------------------------------
(* The order                                                               *)

(* A list keeps the order of another if its targets, where they stay, are  *)
(* found at positions that go up with those of the other.                  *)
KeepsOrder(ts, us) ==
  \A i, j \in DOMAIN ts :
    (i < j /\ Has(us, ts[i].id) /\ Has(us, ts[j].id)) =>
      Find(us, ts[i].id) < Find(us, ts[j].id)

LEMMA SameKeepsOrder ==
  ASSUME NEW S, NEW ts \in Seq(S), Unique(ts), \A i \in DOMAIN ts : ts[i].id # Blank
  PROVE  KeepsOrder(ts, ts)
<1>1. \A i \in DOMAIN ts : Find(ts, ts[i].id) = i
  BY FindIs, UniqueIsNamed
<1>2. QED  BY <1>1 DEF KeepsOrder

(* Put replaces a target at its own position or adds one behind the rest.  *)
LEMMA PutKeepsOrder ==
  ASSUME NEW S, NEW ts \in Seq(S), NEW t \in S, t.id # Blank, Unique(ts),
         \A i \in DOMAIN ts : ts[i].id # Blank
  PROVE  KeepsOrder(ts, Put(ts, t))
<1> DEFINE us == Put(ts, t)
<1>1. us \in Seq(S) /\ Unique(us)
  BY PutIs
<1>2. \A i \in DOMAIN ts : i \in DOMAIN us /\ us[i].id = ts[i].id
  <2>1. CASE Has(ts, t.id)
    <3>1. PICK k \in DOMAIN ts : ts[k].id = t.id
      BY <2>1 DEF Has
    <3>2. us = [ts EXCEPT ![k] = t]
      BY <2>1, <3>1, FindIs, UniqueIsNamed DEF Put, ReplaceAt
    <3>3. QED  BY <3>1, <3>2
  <2>2. CASE ~Has(ts, t.id)
    <3>1. us = Append(ts, t)
      BY <2>2 DEF Put
    <3>2. QED  BY <3>1
  <2>3. QED  BY <2>1, <2>2
<1> HIDE DEF us
<1>3. \A i \in DOMAIN ts : Find(us, ts[i].id) = i
  BY <1>1, <1>2, FindIs, UniqueIsNamed
<1>4. KeepsOrder(ts, us)
  BY <1>3 DEF KeepsOrder
<1>5. QED  BY <1>4 DEF us

(* RemoveAt moves those behind the removed one up by one place.            *)
LEMMA RemoveKeepsOrder ==
  ASSUME NEW S, NEW ts \in Seq(S), NEW id, id # Blank, Unique(ts), Has(ts, id),
         \A i \in DOMAIN ts : ts[i].id # Blank
  PROVE  KeepsOrder(ts, RemoveAt(ts, Find(ts, id)))
<1>1. PICK k \in DOMAIN ts : ts[k].id = id
  BY DEF Has
<1>2. Find(ts, id) = k
  BY <1>1, FindIs, UniqueIsNamed
<1> DEFINE us == RemoveAt(ts, k)
<1>3. /\ us \in Seq(S) /\ Unique(us) /\ ~Has(us, id)
      /\ DOMAIN us = 1 .. Len(ts) - 1
      /\ \A i \in 1 .. Len(ts) - 1 : us[i] = IF i < k THEN ts[i] ELSE ts[i + 1]
  BY <1>2, RemoveIs, RemoveAtIs
<1> HIDE DEF us
<1>4. DOMAIN ts = 1 .. Len(ts) /\ Len(ts) \in Nat /\ k \in 1 .. Len(ts)
  OBVIOUS
<1> DEFINE to(i) == IF i < k THEN i ELSE i - 1
<1>5. ASSUME NEW i \in DOMAIN ts, Has(us, ts[i].id)
      PROVE  i # k /\ Find(us, ts[i].id) = to(i)
  <2>1. i # k
    BY <1>1, <1>3, <1>5
  <2>2. to(i) \in DOMAIN us /\ us[to(i)] = ts[i]
    BY <1>3, <1>4, <2>1
  <2>3. QED  BY <1>3, <2>1, <2>2, FindIs, UniqueIsNamed
<1>6. \A i, j \in DOMAIN ts : i < j /\ i # k /\ j # k => to(i) < to(j)
  BY <1>4
<1>7. KeepsOrder(ts, us)
  BY <1>5, <1>6 DEF KeepsOrder
<1>8. QED  BY <1>2, <1>7 DEF us

(* Saves, deletes and changes of the remote settings leave the other       *)
(* targets in the order they had, for any list (config.go:237-284).        *)
THEOREM EditsKeepOrder == ConfigStoreSpec => OrderKept
<1>1. ASSUME StoreInv, ConfigStoreNext, up, up'
      PROVE  KeepsOrder(cfg.targets, cfg'.targets)
  <2>1. /\ cfg.targets \in Seq(SavedTargets) /\ Unique(cfg.targets)
        /\ \A i \in DOMAIN cfg.targets : cfg.targets[i].id # Blank
    <3>1. cfg.targets \in Seq(SavedTargets)
      BY <1>1 DEF StoreInv, ConfigType
    <3>2. \A i \in DOMAIN cfg.targets : cfg.targets[i] \in SavedTargets
      BY <3>1
    <3>3. QED  BY <1>1, <3>1, <3>2, SavedIsFixed, IdsAssumption DEF StoreInv
  <2>2. ASSUME NEW t \in Requests, NEW id \in AssignedIds(t), NEW ok, Upsert(t, id, ok)
        PROVE  KeepsOrder(cfg.targets, cfg'.targets)
    BY <1>1, <2>1, <2>2, UpsertKeeps, SavedTarget, PutKeepsOrder, IdsAssumption
  <2>3. ASSUME NEW id \in Ids, NEW ok, Delete(id, ok)
        PROVE  KeepsOrder(cfg.targets, cfg'.targets)
    BY <1>1, <2>1, <2>3, DeleteKeeps, RemoveKeepsOrder, IdsAssumption DEF Delete
  <2>4. ASSUME NEW r \in Remotes, NEW ok, SetRemoteConfig(r, ok)
        PROVE  KeepsOrder(cfg.targets, cfg'.targets)
    BY <1>1, <2>1, <2>4, SetRemoteKeeps, SameKeepsOrder
  <2>5. QED
    BY <1>1, <2>2, <2>3, <2>4 DEF ConfigStoreNext, Open, OpenFirst, Crash
<1>2. ASSUME StoreInv, [ConfigStoreNext]_storeVars
      PROVE  [ (up /\ up') =>
               \A i, j \in DOMAIN cfg.targets :
                 LET first == cfg.targets[i].id  second == cfg.targets[j].id
                 IN (i < j /\ Has(cfg'.targets, first) /\ Has(cfg'.targets, second)) =>
                      Find(cfg'.targets, first) < Find(cfg'.targets, second) ]_storeVars
  BY <1>1, <1>2 DEF KeepsOrder
<1>3. QED
  BY <1>2, InitStore, NextKeepsStore, PTL DEF ConfigStoreSpec, OrderKept

-----------------------------------------------------------------------------
(* The refinement                                                          *)

(* A list read as a map: the target of an ID that has one.                 *)
LEMMA AsMapIs ==
  ASSUME NEW ts \in Seq(Written), UniqueNamed(ts), NEW id \in Ids
  PROVE  /\ \A i \in DOMAIN ts : ts[i].id = id =>
              AsMap(ts)[id] = normalized(ts[i])
         /\ Has(ts, id) => AsMap(ts)[id] \in SavedTargets
         /\ ~Has(ts, id) => AsMap(ts)[id] = NoTarget
<1>1. id # Blank
  BY IdsAssumption
<1>2. \A i \in DOMAIN ts : ts[i].id = id => AsMap(ts)[id] = normalized(ts[i])
  BY <1>1, FindIs DEF AsMap
<1>3. \A i \in DOMAIN ts : ts[i].id = id => normalized(ts[i]) \in SavedTargets
  BY <1>1, NormalizedWritten
<1>4. QED  BY <1>2, <1>3 DEF AsMap, Has

LEMMA AsMapType ==
  ASSUME NEW ts \in Seq(Written), UniqueNamed(ts)
  PROVE  AsMap(ts) \in Registry!Map
<1>1. \A id \in Ids : AsMap(ts)[id] \in SavedTargets \cup {NoTarget}
  BY AsMapIs
<1>2. AsMap(ts) = [id \in Ids |-> AsMap(ts)[id]]
  BY DEF AsMap
<1>3. QED  BY <1>1, <1>2 DEF Registry!Map

DiskMap == IF file = NoFile THEN AsMap(<<>>) ELSE AsMap(file.targets)

LEMMA EmptyMap == AsMap(<<>>) = Registry!Empty /\ AsMap(<<>>) \in Registry!Map
BY EmptyStore DEF AsMap, Registry!Empty, Registry!Map

LEMMA MemoryMap ==
  ASSUME StoreInv
  PROVE  /\ cfg.targets \in Seq(SavedTargets) /\ cfg.targets \in Seq(Written)
         /\ Unique(cfg.targets) /\ UniqueNamed(cfg.targets)
         /\ AsMap(cfg.targets) \in Registry!Map
<1>1. cfg.targets \in Seq(SavedTargets) /\ cfg.targets \in Seq(Written)
  BY DEF StoreInv, ConfigType, Written
<1>2. Unique(cfg.targets) /\ UniqueNamed(cfg.targets)
  BY UniqueIsNamed DEF StoreInv
<1>3. QED  BY <1>1, <1>2, AsMapType

LEMMA MemoryMapNext ==
  ASSUME StoreInv'
  PROVE  /\ cfg'.targets \in Seq(SavedTargets) /\ cfg'.targets \in Seq(Written)
         /\ Unique(cfg'.targets) /\ UniqueNamed(cfg'.targets)
         /\ AsMap(cfg'.targets) \in Registry!Map
<1>1. cfg'.targets \in Seq(SavedTargets) /\ cfg'.targets \in Seq(Written)
  BY DEF StoreInv, ConfigType, Written
<1>2. Unique(cfg'.targets) /\ UniqueNamed(cfg'.targets)
  BY UniqueIsNamed DEF StoreInv
<1>3. QED  BY <1>1, <1>2, AsMapType

(* A write changes the map on disk to the one in memory, or not at all.    *)
LEMMA WritePersists ==
  ASSUME StoreInv', file' \in {file, cfg'}
  PROVE  DiskMap' \in {DiskMap, AsMap(cfg'.targets)}
BY NoFileAssumption DEF DiskMap, StoreInv

(* Two lists that agree on the targets of an ID agree as maps there.       *)
LEMMA SameEntry ==
  ASSUME NEW ts \in Seq(Written), NEW us \in Seq(Written),
         UniqueNamed(ts), UniqueNamed(us), NEW id \in Ids,
         \A i \in DOMAIN ts : ts[i].id = id => \E j \in DOMAIN us : us[j] = ts[i],
         \A j \in DOMAIN us : us[j].id = id => \E i \in DOMAIN ts : ts[i] = us[j]
  PROVE  AsMap(us)[id] = AsMap(ts)[id]
<1>1. CASE Has(ts, id)
  <2>1. PICK i \in DOMAIN ts : ts[i].id = id
    BY <1>1 DEF Has
  <2>2. PICK j \in DOMAIN us : us[j] = ts[i]
    BY <2>1
  <2>3. QED  BY <2>1, <2>2, AsMapIs
<1>2. CASE ~Has(ts, id)
  <2>1. ~Has(us, id)
    BY <1>2 DEF Has
  <2>2. QED  BY <1>2, <2>1, AsMapIs
<1>3. QED  BY <1>1, <1>2

LEMMA UpsertImplements ==
  ASSUME StoreInv, NEW t \in Requests, NEW id \in AssignedIds(t),
         NEW ok, Upsert(t, id, ok)
  PROVE  id \in Ids /\ Registry!Write(id)
<1> DEFINE ts == cfg.targets
           us == cfg'.targets
           s == Saved(t, id)
<1>1. StoreInv' /\ id \in Ids /\ us = Put(ts, s)
  BY UpsertKeeps
<1>2. s \in SavedTargets /\ s.id = id /\ id # Blank
  BY <1>1, SavedTarget, IdsAssumption
<1>3. /\ ts \in Seq(SavedTargets) /\ Unique(ts)
      /\ ts \in Seq(Written) /\ UniqueNamed(ts)
      /\ us \in Seq(Written) /\ UniqueNamed(us) /\ AsMap(us) \in Registry!Map
  BY <1>1, MemoryMap, MemoryMapNext
<1> HIDE DEF ts, us, s
<1>4. ASSUME NEW other \in Ids \ {id}
      PROVE  AsMap(us)[other] = AsMap(ts)[other]
  <2>1. /\ \A i \in DOMAIN ts : ts[i].id # id => \E j \in DOMAIN us : us[j] = ts[i]
        /\ \A j \in DOMAIN us : us[j].id # id => \E i \in DOMAIN ts : ts[i] = us[j]
    <3>1. s.id # Blank
      BY <1>2
    <3>2. /\ \A i \in DOMAIN ts : ts[i].id # s.id =>
               \E j \in DOMAIN Put(ts, s) : Put(ts, s)[j] = ts[i]
          /\ \A j \in DOMAIN Put(ts, s) : Put(ts, s)[j].id # s.id =>
               \E i \in DOMAIN ts : ts[i] = Put(ts, s)[j]
      BY <1>2, <1>3, <3>1, PutIs
    <3>3. QED  BY <1>1, <1>2, <3>2, Zenon
  <2>2. QED  BY <1>3, <2>1, SameEntry
<1>5. Has(us, id)
  BY <1>1, <1>2, <1>3, PutIs DEF Has
<1>6. AsMap(us)[id] # NoTarget
  BY <1>1, <1>3, <1>5, AsMapIs, NoTargetAssumption
<1>7. DiskMap' \in {DiskMap, AsMap(us)}
  BY <1>1, WritePersists DEF Upsert, writeConfig, us
<1>8. up /\ up'
  BY DEF Upsert
<1>9. QED
  BY <1>1, <1>3, <1>4, <1>6, <1>7, <1>8
     DEF Registry!Write, Registry!Edit, Registry!Persist, DiskMap, ts, us

LEMMA DeleteImplements ==
  ASSUME StoreInv, NEW id \in Ids, NEW ok, Delete(id, ok)
  PROVE  Registry!Drop(id)
<1> DEFINE ts == cfg.targets
           us == cfg'.targets
<1>1. StoreInv' /\ us = RemoveAt(ts, Find(ts, id)) /\ Has(ts, id)
  BY DeleteKeeps DEF Delete
<1>2. id # Blank
  BY IdsAssumption
<1>3. /\ ts \in Seq(SavedTargets) /\ Unique(ts)
      /\ ts \in Seq(Written) /\ UniqueNamed(ts)
      /\ us \in Seq(Written) /\ UniqueNamed(us) /\ AsMap(us) \in Registry!Map
  BY <1>1, MemoryMap, MemoryMapNext
<1> HIDE DEF ts, us
<1>4. ASSUME NEW other \in Ids \ {id}
      PROVE  AsMap(us)[other] = AsMap(ts)[other]
  BY <1>1, <1>2, <1>3, RemoveIs, SameEntry
<1>5. ~Has(us, id)
  BY <1>1, <1>2, <1>3, RemoveIs
<1>6. AsMap(us)[id] = NoTarget /\ AsMap(ts)[id] # NoTarget
  BY <1>1, <1>3, <1>5, AsMapIs, NoTargetAssumption
<1>7. DiskMap' \in {DiskMap, AsMap(us)}
  BY <1>1, WritePersists DEF Delete, writeConfig, us
<1>8. up /\ up'
  BY DEF Delete
<1>9. QED
  BY <1>1, <1>3, <1>4, <1>6, <1>7, <1>8
     DEF Registry!Drop, Registry!Edit, Registry!Persist, DiskMap, ts, us

LEMMA SetRemoteImplements ==
  ASSUME StoreInv, NEW r \in Remotes, NEW ok, SetRemoteConfig(r, ok)
  PROVE  Registry!WriteOther
<1>1. StoreInv' /\ cfg'.targets = cfg.targets
  BY SetRemoteKeeps
<1>2. DiskMap' \in {DiskMap, AsMap(cfg'.targets)}
  BY <1>1, WritePersists DEF SetRemoteConfig, writeConfig
<1>3. AsMap(cfg'.targets) = AsMap(cfg.targets)
  BY <1>1
<1>4. QED
  BY <1>2, <1>3 DEF SetRemoteConfig, Registry!WriteOther, Registry!Persist, DiskMap

LEMMA OpenImplements ==
  ASSUME StoreInv, NEW ok, Open(ok)
  PROVE  Registry!Boot
<1> DEFINE ts == file.targets
           us == cfg'.targets
<1>1. /\ StoreInv' /\ DOMAIN us = DOMAIN ts
      /\ \A i \in DOMAIN ts : ts[i].id # Blank => us[i] = normalized(ts[i])
      /\ file' \in {file, cfg'}
  BY OpenKeeps
<1>2. /\ ts \in Seq(Written) /\ UniqueNamed(ts) /\ DiskMap = AsMap(ts)
      /\ us \in Seq(Written) /\ UniqueNamed(us) /\ AsMap(us) \in Registry!Map
  BY <1>1, MemoryMapNext DEF Open, StoreInv, DiskMap
<1> HIDE DEF ts, us
<1>3. ASSUME NEW id \in Ids, DiskMap[id] # NoTarget
      PROVE  AsMap(us)[id] = DiskMap[id]
  <2>1. PICK i \in DOMAIN ts : ts[i].id = id
    BY <1>2, <1>3, AsMapIs DEF Has
  <2>2. id # Blank /\ ts[i] \in Written
    BY <1>2, <2>1, IdsAssumption
  <2>3. /\ us[i] = normalized(ts[i]) /\ us[i].id = id
        /\ normalized(us[i]) = us[i] /\ i \in DOMAIN us
    BY <1>1, <2>1, <2>2, NormalizedWritten
  <2>4. AsMap(us)[id] = normalized(us[i])
    BY <1>2, <2>3, AsMapIs
  <2>5. AsMap(ts)[id] = normalized(ts[i])
    BY <1>2, <2>1, AsMapIs
  <2>6. QED  BY <1>2, <2>3, <2>4, <2>5
<1>4. DiskMap' \in {DiskMap, AsMap(us)}
  BY <1>1, WritePersists DEF us
<1>5. ~up /\ up'
  BY DEF Open
<1>6. QED
  BY <1>2, <1>3, <1>4, <1>5 DEF Registry!Boot, Registry!Persist, DiskMap, us

LEMMA OpenFirstImplements ==
  ASSUME StoreInv, OpenFirst
  PROVE  Registry!Boot
<1> DEFINE us == <<normalized(Example)>>
           vs == <<Example>>
<1>1. /\ cfg'.targets = us /\ file' = defaultConfig /\ file'.targets = vs
      /\ file = NoFile /\ ~up /\ up'
  BY DEF OpenFirst, Config, defaultConfig
<1>2. StoreInv'
  BY OpenFirstKeeps
<1>3. /\ us \in Seq(Written) /\ UniqueNamed(us) /\ AsMap(us) \in Registry!Map
  BY <1>1, <1>2, MemoryMapNext
<1>4. vs \in Seq(Written) /\ UniqueNamed(vs)
  BY DEF Written, UniqueNamed
<1>5. file' # NoFile
  BY <1>1, NoFileAssumption
<1>6. /\ DOMAIN us = {1} /\ us[1] = normalized(Example)
      /\ DOMAIN vs = {1} /\ vs[1] = Example
  OBVIOUS
<1> HIDE DEF us, vs
<1>7. ASSUME NEW id \in Ids
      PROVE  AsMap(vs)[id] = AsMap(us)[id]
  <2>1. CASE id = Example.id
    BY <1>3, <1>4, <1>6, <2>1, AsMapIs, ExampleSaved
  <2>2. CASE id # Example.id
    <3>1. ~Has(us, id) /\ ~Has(vs, id)
      BY <1>6, <2>2, ExampleSaved DEF Has
    <3>2. QED  BY <1>3, <1>4, <3>1, AsMapIs
  <2>3. QED  BY <2>1, <2>2
<1>8. AsMap(vs) = AsMap(us)
  <2>1. /\ AsMap(vs) = [id \in Ids |-> AsMap(vs)[id]]
        /\ AsMap(us) = [id \in Ids |-> AsMap(us)[id]]
    BY DEF AsMap
  <2>2. QED  BY <1>7, <2>1
<1>9. DiskMap' = AsMap(cfg'.targets)
  BY <1>1, <1>5, <1>8 DEF DiskMap
<1>10. DiskMap = Registry!Empty
  BY <1>1, EmptyMap DEF DiskMap
<1>11. \A id \in Ids : DiskMap[id] = NoTarget
  BY <1>10 DEF Registry!Empty
<1>12. QED
  BY <1>1, <1>3, <1>9, <1>11 DEF Registry!Boot, Registry!Persist, DiskMap

LEMMA CrashImplements ==
  ASSUME StoreInv, Crash
  PROVE  Registry!Halt
<1>1. cfg'.targets = <<>> /\ file' = file /\ up /\ ~up'
  BY EmptyStore DEF Crash
<1>2. AsMap(cfg'.targets) = Registry!Empty /\ DiskMap' = DiskMap
  BY <1>1, EmptyMap DEF DiskMap
<1>3. QED  BY <1>1, <1>2 DEF Registry!Halt, DiskMap

LEMMA InitImplements == ConfigStoreInit => Registry!RegistryInit
<1> SUFFICES ASSUME ConfigStoreInit  PROVE Registry!RegistryInit
  OBVIOUS
<1>1. StoreInv /\ cfg.targets = <<>> /\ up = FALSE
  BY InitStore, EmptyStore DEF ConfigStoreInit
<1>2. DiskMap \in Registry!Map
  BY <1>1, EmptyMap, AsMapType DEF DiskMap, StoreInv
<1>3. QED  BY <1>1, <1>2, EmptyMap DEF Registry!RegistryInit, DiskMap

LEMMA StepImplements ==
  StoreInv /\ [ConfigStoreNext]_storeVars =>
    [Registry!RegistryNext]_(Registry!registryVars)
<1>1. StoreInv /\ UNCHANGED storeVars => UNCHANGED Registry!registryVars
  BY DEF storeVars, Registry!registryVars
<1>2. StoreInv /\ ConfigStoreNext => Registry!RegistryNext
  BY UpsertImplements, DeleteImplements, SetRemoteImplements, OpenImplements,
     OpenFirstImplements, CrashImplements DEF ConfigStoreNext, Registry!RegistryNext
<1>3. QED  BY <1>1, <1>2

(* The store is a map that survives the process: an edit changes the entry *)
(* of one ID, and a start reads back the last successful write             *)
(* (config.go:184-186).                                                    *)
THEOREM StoreIsARegistry == ConfigStoreSpec => ImplementsRegistry
BY InitStore, NextKeepsStore, InitImplements, StepImplements, PTL
   DEF ConfigStoreSpec, ImplementsRegistry, Registry!RegistrySpec
=============================================================================
