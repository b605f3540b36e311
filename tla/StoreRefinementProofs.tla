----------------------- MODULE StoreRefinementProofs -----------------------
(* Store implements ObjectStore, for every value of the constants: each    *)
(* step of a handler is a step of the abstract store or changes nothing of *)
(* what its users see.                                                     *)
EXTENDS StoreRefinement, StoreProofs

Removing == {"unlink", "unindex"}
Purging == {"purge", "drop"}

(* Whoever removes or evicts something was given the key of an object.     *)
RemovesKeys == \A p \in Procs : pc[p] \in Removing \cup Purging => key[p] \in used

(* Every step keeps this.                                                  *)
LEMMA RemovesKeysStep == IInv /\ RemovesKeys /\ [Next]_vars => RemovesKeys'
<1> SUFFICES ASSUME IInv, RemovesKeys, [Next]_vars PROVE RemovesKeys'
  OBVIOUS
<1> USE StoreTypes DEF RemovesKeys, Removing, Purging, At, Forget, StartRemoval, localVars
<1>1. ASSUME NEW p \in Clients, Put(p) \/ PutPreview(p) \/ PreviewRefused(p) \/ PutStep(p)
      PROVE  RemovesKeys'
  <2>1. /\ used \subseteq used'
        /\ \A q \in Procs : pc'[q] \in Removing \cup Purging =>
             pc[q] \in Removing \cup Purging /\ key'[q] = key[q]
    <3>1. CASE Put(p) \/ PutPreview(p) BY <3>1 DEF Put, PutPreview, BeginPut
    <3>2. CASE PreviewRefused(p) BY <3>2 DEF PreviewRefused
    <3>3. CASE Stage(p) \/ Rename(p) \/ WriteMeta(p) BY <3>3 DEF Stage, Rename, WriteMeta
    <3>4. CASE StageFails(p) \/ RenameFails(p) \/ WriteMetaFails(p)
      BY <3>4 DEF StageFails, RenameFails, WriteMetaFails, ReturnError
    <3> QED BY <1>1, <3>1, <3>2, <3>3, <3>4 DEF PutStep
  <2> QED BY <2>1
<1>5. ASSUME NEW p \in Clients, Get(p) \/ Read(p) \/ Delete(p) PROVE RemovesKeys'
  BY <1>5 DEF Get, Read, Delete, BeginRemove
<1>2. ASSUME NEW p \in Procs, EvictStep(p) \/ RemoveStep(p) PROVE RemovesKeys'
  BY <1>2 DEF EvictStep, BeginEvict, Oldest, Evicted, EvictDone, RemoveStep, Unlink, RemoveDir,
     RemoveFails, InRemoveDirAll, RemoveDirAllEnds, Unindex
<1>3. CASE ReapStep \/ OpenStep
  BY <1>3 DEF ReapStep, ReapScan, ReapNext, BeginRemove, ReapDone, OpenStep, RebuildDir, DropDir,
     SkipDirs, RebuildDone
<1>4. CASE Restart \/ Tick \/ UNCHANGED vars BY <1>4 DEF Restart, Tick, vars
<1> QED BY <1>1, <1>2, <1>3, <1>4, <1>5 DEF Next

(* It holds from the start.                                                *)
LEMMA RemovesKeysAlways == Spec => []RemovesKeys
<1>1. Init => RemovesKeys BY DEF Init, RemovesKeys, Removing, Purging, Procs
<1> QED BY <1>1, RemovesKeysStep, Invariance, PTL DEF Spec

(* What is being evicted stays the oldest object of a store above one of   *)
(* its ceilings: the mutex is held until its entry goes.                   *)
Evicting == \A p \in Procs : pc[p] \in Purging => key[p] \in Oldest /\ OverCeiling

(* Every step keeps this.                                                  *)
LEMMA EvictingStep == IInv /\ Evicting /\ [Next]_vars => Evicting'
<1> SUFFICES ASSUME IInv, Evicting, [Next]_vars, NEW p \in Procs, pc'[p] \in Purging
             PROVE  key'[p] \in Oldest' /\ OverCeiling'
  BY DEF Evicting
<1>1. index' = index /\ total' = total => Oldest' = Oldest /\ (OverCeiling' <=> OverCeiling)
  BY DEF Oldest, OverCeiling
<1>2. CASE BeginEvict(p)
  <2>1. UNCHANGED <<index, total>> /\ OverCeiling /\ key'[p] \in Oldest
    BY <1>2, StoreTypes DEF BeginEvict, StartRemoval, indexVars
  <2> QED BY <1>1, <2>1
<1>3. CASE ~BeginEvict(p)
  <2>1. pc[p] \in Purging /\ key'[p] = key[p]
    <3> USE <1>3, StoreTypes DEF Purging, At, Forget, StartRemoval, localVars
    <3>1. ASSUME NEW q \in Clients,
                 Put(q) \/ PutPreview(q) \/ PreviewRefused(q) \/ PutStep(q)
          PROVE  pc[p] \in Purging /\ key'[p] = key[p]
      <4>1. CASE Put(q) \/ PutPreview(q) BY <4>1 DEF Put, PutPreview, BeginPut
      <4>2. CASE PreviewRefused(q) BY <4>2 DEF PreviewRefused
      <4>3. CASE Stage(q) \/ Rename(q) \/ WriteMeta(q) BY <4>3 DEF Stage, Rename, WriteMeta
      <4>4. CASE StageFails(q) \/ RenameFails(q) \/ WriteMetaFails(q)
        BY <4>4 DEF StageFails, RenameFails, WriteMetaFails, ReturnError
      <4> QED BY <3>1, <4>1, <4>2, <4>3, <4>4 DEF PutStep
    <3>2. ASSUME NEW q \in Clients, Get(q) \/ Read(q) \/ Delete(q)
          PROVE  pc[p] \in Purging /\ key'[p] = key[p]
      BY <3>2 DEF Get, Read, Delete, BeginRemove
    <3>3. ASSUME NEW q \in Procs, EvictStep(q) \/ RemoveStep(q)
          PROVE  pc[p] \in Purging /\ key'[p] = key[p]
      BY <3>3 DEF EvictStep, BeginEvict, Evicted, EvictDone, RemoveStep, Unlink, RemoveDir,
         RemoveFails, InRemoveDirAll, RemoveDirAllEnds, Unindex
    <3>4. CASE ReapStep \/ OpenStep
      BY <3>4 DEF ReapStep, ReapScan, ReapNext, BeginRemove, ReapDone, OpenStep, RebuildDir,
         DropDir, SkipDirs, RebuildDone
    <3>5. CASE Restart \/ Tick \/ UNCHANGED vars BY <3>5 DEF Restart, Tick, vars
    <3> QED BY <3>1, <3>2, <3>3, <3>4, <3>5 DEF Next
  <2>2. lock = p /\ pc[p] \notin {"meta", "rebuild"} BY <2>1, StoreTypes DEF Exclusion, Holding, EvictPoints, Purging
  <2>3. UNCHANGED indexVars
    <3>1. ~Restart BY <1>3 DEF Restart, Purging
    <3>2. ~RebuildDir /\ \A q \in Clients : ~WriteMeta(q)
      BY <2>2, StoreTypes DEF RebuildDir, WriteMeta, At, Exclusion, Holding, Committing
    <3>3. \A q \in Procs : ~Evicted(q) /\ ~Unindex(q)
      <4>1. \A q \in Procs : ~Unindex(q) BY <2>2, StoreTypes DEF Unindex, MutexFree
      <4>2. ASSUME NEW q \in Procs, Evicted(q) PROVE FALSE
        <5>1. q = p BY <2>2, <4>2, StoreTypes DEF Evicted, At, Exclusion, Holding, EvictPoints
        <5> QED BY <4>2, <5>1, StoreTypes DEF Evicted, At, Purging
      <4> QED BY <4>1, <4>2
    <3> QED BY <3>1, <3>2, <3>3, IndexUntouched
  <2>4. UNCHANGED <<index, total>> BY <2>3 DEF indexVars
  <2> QED BY <1>1, <2>1, <2>4 DEF Evicting
<1> QED BY <1>2, <1>3

(* It holds from the start.                                                *)
LEMMA EvictingAlways == Spec => []Evicting
<1>1. Init => Evicting BY DEF Init, Evicting, Purging, Procs
<1> QED BY <1>1, EvictingStep, Invariance, PTL DEF Spec

-----------------------------------------------------------------------------
(* The abstract state, in terms of the concrete one.                       *)

(* When nothing is being rebuilt, what users see is the index.             *)
LEMMA VisibleIsIndex ==
  /\ pc[Opener] # "rebuild" => Visible = index
  /\ pc'[Opener] # "rebuild" => Visible' = index'
BY DEF Visible

(* The two modules count and add up alike.                                 *)
LEMMA SameCounts ==
  ASSUME NEW S
  PROVE  /\ Abstract!Cardinality(S) = Cardinality(S)
         /\ Abstract!BytesOf(S) = BytesIn(Visible, S)
<1>1. Abstract!Cardinality(S) = Cardinality(S) BY DEF Abstract!Cardinality, Cardinality
<1>2. Abstract!BytesOf(S) = BytesIn(Visible, S)
  BY DEF Abstract!BytesOf, BytesIn, MapThenSumSet, MapThenFoldSet, Abstract!MapThenSumSet,
         Abstract!MapThenFoldSet
<1> QED BY <1>1, <1>2

(* Which keys are picked for removal depends on few of the variables.      *)
LEMMA SamePicked ==
  ASSUME \A p \in Procs :
           /\ pc'[p] \in Removing <=> pc[p] \in Removing
           /\ pc[p] \in Removing => key'[p] = key[p],
         Reaper \in Procs,
         pc'[Reaper] = "reap" <=> pc[Reaper] = "reap", queue' = queue
  PROVE  PickedForRemoval' = PickedForRemoval
<1>1. {key'[p] : p \in {q \in Procs : pc'[q] \in Removing}}
        = {key[p] : p \in {q \in Procs : pc[q] \in Removing}}
  OBVIOUS
<1>2. pc'[Reaper] \in {"reap", "unlink", "unindex"} <=> pc[Reaper] \in {"reap", "unlink", "unindex"}
  BY DEF Removing
<1> QED BY <1>1, <1>2 DEF PickedForRemoval, Removing

(* Nor does every step have to do with faults.                             *)
LEMMA NoFault ==
  ASSUME leftovers' = leftovers, ioErrors' = ioErrors,
         pc'[Opener] = "rebuild" <=> pc[Opener] = "rebuild"
  PROVE  Abstract!FaultsUnchanged
<1>1. (pc'[Opener] = "rebuild") = (pc[Opener] = "rebuild") OBVIOUS
<1> QED BY <1>1 DEF Abstract!FaultsUnchanged

(* What users see does not change.                                         *)
LEMMA Stutters ==
  ASSUME Visible' = Visible, PickedForRemoval' = PickedForRemoval, used' = used, now' = now,
         leftovers' = leftovers, ioErrors' = ioErrors,
         pc'[Opener] = "rebuild" <=> pc[Opener] = "rebuild"
  PROVE  [Abstract!Next]_(Abstract!storeVars)
BY NoFault DEF Abstract!storeVars

(* A put that fails is an I/O error nobody sees anything of.               *)
LEMMA FailureMaps ==
  ASSUME Visible' = Visible, PickedForRemoval' = PickedForRemoval, used' = used, now' = now,
         leftovers' = leftovers, ioErrors' = ioErrors + 1,
         pc'[Opener] = "rebuild" <=> pc[Opener] = "rebuild"
  PROVE  [Abstract!Next]_(Abstract!storeVars)
<1>1. (pc'[Opener] = "rebuild") = (pc[Opener] = "rebuild") OBVIOUS
<1>2. Abstract!PutFails BY <1>1 DEF Abstract!PutFails
<1> QED BY <1>2 DEF Abstract!Next

(* The victim of evict_locked is one of the abstract store.                *)
LEMMA VictimsAre ==
  ASSUME IInv, BytesExact, pc[Opener] # "rebuild", OverCeiling, NEW k \in Oldest
  PROVE  k \in Keys /\ k \in Abstract!Victims
<1>1. Visible = index BY VisibleIsIndex
<1>2. k \in DOMAIN index /\ k \in Keys /\ \A l \in DOMAIN index : index[k].created <= index[l].created
  BY StoreTypes DEF Oldest
<1>3. Abstract!AboveCeiling
  <2>1. total = BytesIn(index, DOMAIN index) BY BytesAreSums DEF Sums
  <2>2. Abstract!Stored = DOMAIN index BY <1>1 DEF Abstract!Stored
  <2>3. Abstract!BytesOf(DOMAIN index) = total BY <1>1, <2>1, SameCounts
  <2>4. Abstract!Cardinality(DOMAIN index) = Cardinality(DOMAIN index) BY SameCounts
  <2> QED BY <2>2, <2>3, <2>4 DEF OverCeiling, Abstract!AboveCeiling
<1> QED BY <1>1, <1>2, <1>3 DEF Abstract!Victims, Abstract!Stored

-----------------------------------------------------------------------------
(* Steps of a put.                                                         *)

(* A put that begins mints its key, or works on a document's.              *)
LEMMA BeginPutMaps ==
  ASSUME IInv, NEW p \in Clients, NEW k, NEW n, NEW s, BeginPut(p, k, n, s)
  PROVE  /\ Visible' = Visible /\ PickedForRemoval' = PickedForRemoval
         /\ now' = now /\ leftovers' = leftovers /\ ioErrors' = ioErrors
         /\ pc'[Opener] = "rebuild" <=> pc[Opener] = "rebuild"
<1>1. /\ pc' = [pc EXCEPT ![p] = "stage"] /\ key' = [key EXCEPT ![p] = k] /\ pc[p] = "idle"
      /\ index' = index /\ queue' = queue /\ lock = Free /\ now' = now
      /\ leftovers' = leftovers /\ ioErrors' = ioErrors
  BY DEF BeginPut, At, indexVars, boundVars, MutexFree
<1>2. pc[Opener] # "rebuild" /\ pc'[Opener] # "rebuild"
  BY <1>1, StoreTypes DEF Exclusion, Holding, EvictPoints
<1>3. PickedForRemoval' = PickedForRemoval BY <1>1, StoreTypes, SamePicked DEF Removing
<1> QED BY <1>1, <1>2, <1>3, VisibleIsIndex

(* put mints an id; a preview changes nothing yet.                         *)
LEMMA PutMaps ==
  ASSUME IInv, NEW p \in Clients, Put(p) \/ PutPreview(p)
  PROVE  [Abstract!Next]_(Abstract!storeVars)
<1>1. CASE Put(p)
  <2>1. PICK k \in Keys \ used : /\ \E s : BeginPut(p, k, MainName[k], s)
                                 /\ used' = used \cup {k}
    BY <1>1 DEF Put
  <2>2. Abstract!Mint(k)
    BY <2>1, BeginPutMaps, NoFault DEF Abstract!Mint
  <2> QED BY <2>1, <2>2 DEF Abstract!Next
<1>2. CASE PutPreview(p)
  <2>1. used' = used BY <1>2 DEF PutPreview
  <2> QED BY <1>2, <2>1, BeginPutMaps, Stutters DEF PutPreview
<1> QED BY <1>1, <1>2

(* The commit, at its one point under the mutex, is the abstract commit:   *)
(* the room checked when the put began is still there.                     *)
LEMMA WriteMetaMaps ==
  ASSUME IInv, Uploads, BytesExact, EntriesExact, NEW p \in Clients, WriteMeta(p)
  PROVE  [Abstract!Next]_(Abstract!storeVars)
<1> DEFINE k == key[p]  s == size[p]  t == TenantOf[k]
<1>1. /\ pc[p] = "meta" /\ pc' = [pc EXCEPT ![p] = "evict"]
      /\ index' = With(index, k, NewEntry(k, s))
      /\ UNCHANGED <<used, key, queue, now, leftovers, ioErrors>>
  BY DEF WriteMeta, At, AddToIndex, localVars, boundVars
<1>2. pc[Opener] # "rebuild" /\ pc'[Opener] # "rebuild"
  BY <1>1, StoreTypes DEF Exclusion, Holding, Committing
<1>3. Visible = index /\ Visible' = index' BY <1>2, VisibleIsIndex
<1>4. PickedForRemoval' = PickedForRemoval BY <1>1, StoreTypes, SamePicked DEF Removing
<1>5. /\ k \in used /\ k \in Keys /\ s \in Sizes /\ t \in Tenants
      /\ perTenant[t] + s <= MaxTenantBytes
      /\ k \notin DOMAIN index => perTenantEntries[t] + 1 <= MaxTenantEntries
  BY <1>1, StoreTypes, KeysAssumption DEF IInv, Reserved, Uploads, Sized, Committing
<1>6. Abstract!OwnedBy(t) = EntriesOf(t)
  BY <1>3 DEF Abstract!OwnedBy, Abstract!Stored, EntriesOf
<1>7. Abstract!HasRoom(k, s)
  <2>1. Abstract!BytesOf(EntriesOf(t)) = perTenant[t]
    <3>1. perTenant[t] = BytesIn(index, EntriesOf(t))
      BY <1>5, BytesAreSums DEF Sums, EntriesOf
    <3> QED BY <1>3, <3>1, SameCounts
  <2>2. Abstract!Cardinality(EntriesOf(t)) = perTenantEntries[t]
    <3>1. perTenantEntries[t] = Cardinality(EntriesOf(t)) BY <1>5 DEF EntriesExact, EntriesOf
    <3> QED BY <3>1, SameCounts
  <2>3. perTenantEntries[t] \in Nat BY <1>5, StoreTypes DEF IndexOK
  <2>4. k \in Abstract!Stored <=> k \in DOMAIN index BY <1>3 DEF Abstract!Stored
  <2>5. perTenantEntries[t] + 1 <= MaxTenantEntries => perTenantEntries[t] < MaxTenantEntries
    BY <2>3, LimitsAssumption
  <2> QED BY <1>5, <1>6, <2>1, <2>2, <2>4, <2>5 DEF Abstract!HasRoom
<1>8. Visible' = Abstract!Grown(k, s)
  <2>1. \A l \in DOMAIN index : index[l] \in Entry BY StoreTypes
  <2>2. s \in Nat BY StoreTypes
  <2>3. k \in DOMAIN index =>
          NewEntry(k, s) = [bytes |-> s + index[k].bytes, created |-> index[k].created,
                            expires |-> now + Ttl[KindOf[k]]]
    <3> SUFFICES ASSUME k \in DOMAIN index
                 PROVE  NewEntry(k, s) = [bytes |-> s + index[k].bytes, created |-> index[k].created,
                                          expires |-> now + Ttl[KindOf[k]]]
      OBVIOUS
    <3>1. index[k] \in Entry BY <2>1
    <3>2. NewEntry(k, s) = [bytes |-> index[k].bytes + s, created |-> index[k].created,
                            expires |-> now + Ttl[KindOf[k]]]
      BY <3>1 DEF NewEntry, Entry
    <3>3. index[k].bytes + s = s + index[k].bytes BY <2>2, <3>1 DEF Entry
    <3> QED BY <3>2, <3>3
  <2>4. k \notin DOMAIN index =>
          NewEntry(k, s) = [bytes |-> s + 0, created |-> now, expires |-> now + Ttl[KindOf[k]]]
    BY <2>2 DEF NewEntry
  <2>5. index' = [l \in DOMAIN index \cup {k} |->
                    IF l # k THEN index[l] ELSE NewEntry(k, s)]
    <3>1. \A l \in DOMAIN index \cup {k} :
            (IF l = k THEN NewEntry(k, s) ELSE index[l]) = IF l # k THEN index[l] ELSE NewEntry(k, s)
      OBVIOUS
    <3> QED BY <1>1, <3>1 DEF With
  <2>6. NewEntry(k, s) = [bytes |-> s + (IF k \in DOMAIN index THEN index[k].bytes ELSE 0),
                          created |-> IF k \in DOMAIN index THEN index[k].created ELSE now,
                          expires |-> now + Ttl[KindOf[k]]]
    <3>1. CASE k \in DOMAIN index BY <2>3, <3>1
    <3>2. CASE k \notin DOMAIN index BY <2>4, <3>2
    <3> QED BY <3>1, <3>2
  <2> QED BY <1>3, <2>5, <2>6 DEF Abstract!Grown, Abstract!Stored
<1>9. used' = used \cup {k} BY <1>1, <1>5
<1>10. Abstract!FaultsUnchanged BY <1>1, <1>2, NoFault
<1>11. Abstract!Commit(k)
  BY <1>1, <1>4, <1>5, <1>7, <1>8, <1>9, <1>10 DEF Abstract!Commit
<1> QED BY <1>5, <1>11 DEF Abstract!Next

(* The other steps of a put, failed or not, change nothing users see.      *)
LEMMA PutStepMaps ==
  ASSUME IInv, NEW p \in Clients,
         PreviewRefused(p) \/ Stage(p) \/ StageFails(p) \/ Rename(p) \/ RenameFails(p)
           \/ WriteMetaFails(p) \/ Get(p) \/ Read(p)
  PROVE  [Abstract!Next]_(Abstract!storeVars)
<1>1. /\ pc[p] \notin Removing /\ pc'[p] \notin Removing /\ pc[p] # "rebuild"
      /\ \A q \in Procs \ {p} : pc'[q] = pc[q] /\ key'[q] = key[q]
      /\ UNCHANGED <<index, queue, used, now, leftovers>>
      /\ ioErrors' \in {ioErrors, ioErrors + 1}
  <2> USE StoreTypes DEF Removing, indexVars, diskVars, localVars, boundVars, IoError
  <2>1. CASE PreviewRefused(p) BY <2>1 DEF PreviewRefused
  <2>2. CASE Stage(p) \/ Rename(p) BY <2>2 DEF Stage, Rename, At
  <2>3. CASE StageFails(p) \/ RenameFails(p) \/ WriteMetaFails(p)
    BY <2>3 DEF StageFails, RenameFails, WriteMetaFails, ReturnError, Forget
  <2>4. CASE Get(p) \/ Read(p) BY <2>4 DEF Get, Read, At, Forget
  <2> QED BY <2>1, <2>2, <2>3, <2>4
<1>2. pc[p] = "idle" => UNCHANGED disk
  BY DEF PreviewRefused, Stage, StageFails, Rename, RenameFails, WriteMetaFails, Get, Read, At,
     diskVars
<1>3. pc[Opener] = "rebuild" => UNCHANGED disk
  BY <1>2, StoreTypes DEF IInv, Rebuilding
<1>4. pc'[Opener] = pc[Opener] BY <1>1, StoreTypes
<1>5. PickedForRemoval' = PickedForRemoval
  <2>1. pc'[Reaper] = pc[Reaper] BY <1>1, StoreTypes
  <2>2. \A q \in Procs : /\ pc'[q] \in Removing <=> pc[q] \in Removing
                         /\ pc[q] \in Removing => key'[q] = key[q]
    BY <1>1
  <2> QED BY <1>1, <2>1, <2>2, StoreTypes, SamePicked
<1>6. Visible' = Visible
  <2>1. CASE pc[Opener] = "rebuild" BY <1>1, <1>3, <1>4, <2>1 DEF Visible
  <2>2. CASE pc[Opener] # "rebuild" BY <1>1, <1>4, <2>2, VisibleIsIndex
  <2> QED BY <2>1, <2>2
<1> QED BY <1>1, <1>4, <1>5, <1>6, Stutters, FailureMaps

-----------------------------------------------------------------------------
(* Evictions and removals.                                                 *)

(* evict_locked evicts as promised, once the files are gone.               *)
LEMMA EvictedMaps ==
  ASSUME IInv, BytesExact, Evicting, NEW p \in Procs, Evicted(p)
  PROVE  [Abstract!Next]_(Abstract!storeVars)
<1> DEFINE k == key[p]
<1>1. /\ pc[p] = "drop" /\ pc' = [pc EXCEPT ![p] = "evict"] /\ key' = [key EXCEPT ![p] = NoKey]
      /\ RemoveFromIndex(k) /\ k \in Oldest /\ OverCeiling
      /\ UNCHANGED <<used, queue, now, leftovers, ioErrors>>
  BY DEF Evicted, Evicting, Purging, At, Forget, diskVars, boundVars
<1>2. pc[Opener] # "rebuild" /\ pc'[Opener] # "rebuild"
  BY <1>1, StoreTypes DEF Exclusion, Holding, EvictPoints
<1>3. Visible = index /\ Visible' = index' BY <1>2, VisibleIsIndex
<1>4. PickedForRemoval' = PickedForRemoval
  BY <1>1, StoreTypes, SamePicked DEF Removing
<1>5. k \in Keys /\ k \in Abstract!Victims BY <1>1, <1>2, VictimsAre
<1>6. index' = [l \in DOMAIN index \ {k} |-> index[l]]
  BY <1>1 DEF RemoveFromIndex, Without, Oldest
<1>7. Abstract!FaultsUnchanged BY <1>1, <1>2, NoFault
<1>8. Abstract!Evict(k)
  BY <1>1, <1>3, <1>4, <1>5, <1>6, <1>7 DEF Abstract!Evict, Abstract!Stored, Abstract!Remaining
<1> QED BY <1>5, <1>8 DEF Abstract!Next

(* The rest of an eviction, and the file operations of any removal, show   *)
(* at most that there was a fault, or that an earlier one is put right.    *)
LEMMA RemovalMaps ==
  ASSUME IInv, BytesExact, RemovesKeys, Evicting, NEW p \in Procs,
         BeginEvict(p) \/ EvictDone(p) \/ Unlink(p) \/ RemoveDir(p) \/ RemoveFails(p)
  PROVE  [Abstract!Next]_(Abstract!storeVars)
<1> DEFINE k == key[p]
<1>1. /\ pc[p] \in {"evict", "unlink", "purge"}
      /\ pc[p] = "evict" => pc'[p] \in {"idle", "purge"}
      /\ pc[p] = "unlink" => pc'[p] \in Removing /\ key'[p] = key[p]
      /\ pc[p] = "purge" => pc'[p] \in Purging /\ key'[p] = key[p]
      /\ \A q \in Procs \ {p} : pc'[q] = pc[q] /\ key'[q] = key[q]
      /\ UNCHANGED <<index, queue, used, now>>
  <2> USE StoreTypes DEF Removing, Purging, InRemoveDirAll, RemoveDirAllEnds, indexVars, localVars,
          boundVars
  <2>1. CASE BeginEvict(p) BY <2>1 DEF BeginEvict, StartRemoval
  <2>2. CASE EvictDone(p) BY <2>2 DEF EvictDone, At, Forget
  <2>3. CASE Unlink(p) BY <2>3 DEF Unlink
  <2>4. CASE RemoveDir(p) BY <2>4 DEF RemoveDir
  <2>5. CASE RemoveFails(p) BY <2>5 DEF RemoveFails
  <2> QED BY <2>1, <2>2, <2>3, <2>4, <2>5
<1>2. pc[Opener] # "rebuild" BY <1>1, StoreTypes DEF IInv, Rebuilding
<1>3. pc'[Opener] # "rebuild" BY <1>1, <1>2, StoreTypes DEF Removing, Purging
<1>4. PickedForRemoval' = PickedForRemoval
  <2>1. /\ pc'[Reaper] = "reap" <=> pc[Reaper] = "reap"
        /\ \A q \in Procs : /\ pc'[q] \in Removing <=> pc[q] \in Removing
                            /\ pc[q] \in Removing => key'[q] = key[q]
    BY <1>1, StoreTypes DEF Removing, Purging
  <2> QED BY <1>1, <2>1, StoreTypes, SamePicked
<1>5. Visible' = Visible BY <1>1, <1>2, <1>3, VisibleIsIndex
<1>6. CASE BeginEvict(p) \/ EvictDone(p) \/ Unlink(p)
  <2>1. leftovers' = leftovers /\ ioErrors' = ioErrors
    BY <1>6 DEF BeginEvict, EvictDone, Unlink, diskVars, boundVars
  <2> QED BY <1>1, <1>2, <1>3, <1>4, <1>5, <2>1, Stutters
<1>7. CASE RemoveDir(p)
  <2>1. ioErrors' = ioErrors /\ leftovers' \in {leftovers, leftovers \ {k}}
    <3>1. /\ ioErrors' = ioErrors /\ leftovers' = leftovers \cap DOMAIN disk'
          /\ DOMAIN disk' \in {DOMAIN disk, DOMAIN disk \ {k}}
      BY <1>7 DEF RemoveDir, boundVars, Without
    <3>2. leftovers \subseteq DOMAIN disk BY DEF IInv, TypeOK, DiskOK
    <3> QED BY <3>1, <3>2
  <2>2. CASE leftovers' = leftovers
    BY <1>1, <1>2, <1>3, <1>4, <1>5, <2>1, <2>2, Stutters
  <2>3. CASE leftovers' # leftovers
    <3>1. k \in leftovers /\ leftovers' = leftovers \ {k} BY <2>1, <2>3
    <3>2. k \in Keys BY <3>1, StoreTypes DEF IInv, TypeOK, DiskOK
    <3>3. (pc'[Opener] = "rebuild") = (pc[Opener] = "rebuild") BY <1>2, <1>3
    <3>4. Abstract!Cleared(k) BY <1>1, <1>4, <1>5, <2>1, <3>1, <3>3 DEF Abstract!Cleared
    <3> QED BY <3>2, <3>4 DEF Abstract!Next
  <2> QED BY <2>2, <2>3
<1>8. CASE RemoveFails(p)
  <2>1. ioErrors' = ioErrors + 1 /\ leftovers' = leftovers \cup {k} /\ pc[p] \in {"unlink", "purge"}
    BY <1>8 DEF RemoveFails, IoError, InRemoveDirAll
  <2>2. k \in Keys BY <2>1, StoreTypes DEF RemovesKeys, Removing, Purging
  <2>3. k \in PickedForRemoval \cup Abstract!Victims
    <3>1. CASE pc[p] = "unlink" BY <3>1 DEF PickedForRemoval
    <3>2. CASE pc[p] = "purge" BY <1>2, <3>2, VictimsAre DEF Evicting, Purging
    <3> QED BY <2>1, <3>1, <3>2
  <2>4. (pc'[Opener] = "rebuild") = (pc[Opener] = "rebuild") BY <1>2, <1>3
  <2>5. Abstract!LeaveBehind(k) BY <1>1, <1>4, <1>5, <2>1, <2>3, <2>4 DEF Abstract!LeaveBehind
  <2> QED BY <2>2, <2>5 DEF Abstract!Next
<1> QED BY <1>6, <1>7, <1>8

(* delete picks a live template, the reaper what has expired.              *)
LEMMA PickingMaps ==
  ASSUME IInv, (\E p \in Clients : Delete(p)) \/ ReapScan
  PROVE  [Abstract!Next]_(Abstract!storeVars)
<1>1. UNCHANGED <<index, used, now, leftovers, ioErrors>> /\ lock = Free
  BY DEF Delete, ReapScan, MutexFree, indexVars, diskVars, boundVars
<1>2. pc[Opener] # "rebuild" BY <1>1, StoreTypes DEF Exclusion, Holding, EvictPoints
<1>3. CASE \E p \in Clients : Delete(p)
  <2>1. PICK p \in Clients, k \in used :
          pc[p] = "idle" /\ Live(k) /\ KindOf[k] = "tpl" /\ BeginRemove(p, k) /\ UNCHANGED queue
    BY <1>3 DEF Delete
  <2>2. /\ pc' = [pc EXCEPT ![p] = "unlink"] /\ key' = [key EXCEPT ![p] = k]
        /\ queue' = queue
    BY <2>1 DEF BeginRemove, StartRemoval
  <2>3. pc'[Opener] # "rebuild" BY <1>2, <2>2, StoreTypes
  <2>4. PickedForRemoval' = PickedForRemoval \cup {k}
    <3>1. {key'[q] : q \in {r \in Procs : pc'[r] \in {"unlink", "unindex"}}}
            = {key[q] : q \in {r \in Procs : pc[r] \in {"unlink", "unindex"}}} \cup {k}
      BY <2>1, <2>2, StoreTypes
    <3>2. pc'[Reaper] = pc[Reaper] BY <2>2, StoreTypes
    <3> QED BY <2>2, <3>1, <3>2 DEF PickedForRemoval
  <2>5. Visible = index /\ Visible' = index BY <1>1, <1>2, <2>3, VisibleIsIndex
  <2>6. {k} \in SUBSET Keys /\ k \in DOMAIN index /\ ~IsExpired(index[k])
    BY <2>1, StoreTypes DEF Live
  <2>7. Abstract!Doom({k})
    <3>1. {k} \subseteq Abstract!Stored BY <2>5, <2>6 DEF Abstract!Stored
    <3>2. Abstract!IsLive(k)
      BY <2>5, <2>6 DEF Abstract!IsLive, Abstract!Stored, Abstract!Expired, IsExpired
    <3>3. Abstract!FaultsUnchanged BY <1>1, <1>2, <2>3, NoFault
    <3> QED BY <1>1, <2>1, <2>4, <2>5, <3>1, <3>2, <3>3 DEF Abstract!Doom
  <2> QED BY <2>6, <2>7 DEF Abstract!Next
<1>4. CASE ReapScan
  <2>1. /\ pc[Reaper] = "idle" /\ pc' = [pc EXCEPT ![Reaper] = "reap"] /\ key' = key
        /\ queue' = ExpiredKeys
    BY <1>4 DEF ReapScan, At, localVars
  <2>2. pc'[Opener] # "rebuild" BY <1>2, <2>1, StoreTypes
  <2>3. PickedForRemoval' = PickedForRemoval \cup ExpiredKeys
    <3>1. {key'[q] : q \in {r \in Procs : pc'[r] \in {"unlink", "unindex"}}}
            = {key[q] : q \in {r \in Procs : pc[r] \in {"unlink", "unindex"}}}
      BY <2>1, StoreTypes
    <3>2. pc'[Reaper] = "reap" BY <2>1, StoreTypes
    <3> QED BY <2>1, <3>1, <3>2 DEF PickedForRemoval
  <2>4. Visible = index /\ Visible' = index BY <1>1, <1>2, <2>2, VisibleIsIndex
  <2>5. ExpiredKeys \in SUBSET Keys BY StoreTypes DEF ExpiredKeys
  <2>6. Abstract!Doom(ExpiredKeys)
    <3>1. ExpiredKeys \subseteq Abstract!Stored BY <2>4 DEF Abstract!Stored, ExpiredKeys
    <3>2. \A k \in ExpiredKeys : Abstract!Expired(k)
      BY <2>4 DEF ExpiredKeys, IsExpired, Abstract!Expired
    <3>3. Abstract!FaultsUnchanged BY <1>1, <1>2, <2>2, NoFault
    <3> QED BY <1>1, <2>3, <2>4, <3>1, <3>2, <3>3 DEF Abstract!Doom
  <2> QED BY <2>5, <2>6 DEF Abstract!Next
<1> QED BY <1>3, <1>4

(* The end of a removal removes what was picked, if it is still there.     *)
LEMMA UnindexMaps ==
  ASSUME IInv, RemovesKeys, NEW p \in Procs, Unindex(p)
  PROVE  [Abstract!Next]_(Abstract!storeVars)
<1> DEFINE k == key[p]
<1>1. /\ pc[p] = "unindex" /\ lock = Free /\ RemoveFromIndex(k)
      /\ pc' = [pc EXCEPT ![p] = IF p = Reaper THEN "reap" ELSE "idle"]
      /\ key' = [key EXCEPT ![p] = NoKey]
      /\ UNCHANGED <<used, queue, now, leftovers, ioErrors>>
  BY DEF Unindex, At, MutexFree, Forget, diskVars, boundVars
<1>2. pc[Opener] # "rebuild" /\ pc'[Opener] # "rebuild"
  BY <1>1, StoreTypes DEF Exclusion, Holding, EvictPoints
<1>3. Visible = index /\ Visible' = index' BY <1>2, VisibleIsIndex
<1>4. k \in Keys BY <1>1, StoreTypes DEF RemovesKeys, Removing
<1>5. index' = [l \in DOMAIN index \ {k} |-> index[l]]
  <2>1. CASE k \in DOMAIN index BY <1>1, <2>1 DEF RemoveFromIndex, Without
  <2>2. CASE k \notin DOMAIN index
    <3>1. index' = index /\ DOMAIN index \ {k} = DOMAIN index
      BY <1>1, <2>2 DEF RemoveFromIndex, indexVars
    <3>2. index \in [DOMAIN index -> Entry] BY StoreTypes DEF IndexOK
    <3> QED BY <3>1, <3>2
  <2> QED BY <2>1, <2>2
<1>6. k \in PickedForRemoval BY <1>1 DEF PickedForRemoval
<1>7. PickedForRemoval' \in {PickedForRemoval, PickedForRemoval \ {k}}
  <2> DEFINE held == {key[q] : q \in {r \in Procs : pc[r] \in {"unlink", "unindex"}}}
             held2 == {key'[q] : q \in {r \in Procs : pc'[r] \in {"unlink", "unindex"}}}
             queued == IF pc[Reaper] \in {"reap", "unlink", "unindex"} THEN queue ELSE {}
             queued2 == IF pc'[Reaper] \in {"reap", "unlink", "unindex"} THEN queue' ELSE {}
  <2>1. queued2 = queued BY <1>1, StoreTypes
  <2>2. held \ {k} \subseteq held2 /\ held2 \subseteq held BY <1>1, StoreTypes
  <2>3. PickedForRemoval = held \cup queued /\ PickedForRemoval' = held2 \cup queued2
    BY DEF PickedForRemoval
  <2> HIDE DEF held, held2, queued, queued2
  <2>4. held2 = held \/ held2 = held \ {k} BY <2>2
  <2>5. k \in held2 \cup queued2 \/ k \notin held2 \cup queued2 OBVIOUS
  <2> QED BY <1>6, <2>1, <2>3, <2>4, <2>5
<1>8. Abstract!FaultsUnchanged BY <1>1, <1>2, NoFault
<1>9. Abstract!Remove(k)
  BY <1>1, <1>3, <1>5, <1>6, <1>7, <1>8 DEF Abstract!Remove, Abstract!Remaining, Abstract!Stored
<1> QED BY <1>4, <1>9 DEF Abstract!Next

(* The reaper's own loop shows nothing: what it has picked stays picked.   *)
LEMMA ReapMaps ==
  ASSUME IInv, ReapNext \/ ReapDone
  PROVE  [Abstract!Next]_(Abstract!storeVars)
<1>1. UNCHANGED <<index, disk, used, now, leftovers, ioErrors>> /\ pc[Reaper] = "reap"
  BY DEF ReapNext, ReapDone, At, indexVars, diskVars, boundVars
<1>2. pc[Opener] # "rebuild" /\ pc'[Opener] = pc[Opener]
  BY <1>1, StoreTypes DEF IInv, Rebuilding, ReapNext, ReapDone, BeginRemove, StartRemoval, At
<1>3. PickedForRemoval' = PickedForRemoval
  <2> DEFINE held == {key[q] : q \in {r \in Procs : pc[r] \in {"unlink", "unindex"}}}
             held2 == {key'[q] : q \in {r \in Procs : pc'[r] \in {"unlink", "unindex"}}}
  <2>0. PickedForRemoval = held \cup queue BY <1>1 DEF PickedForRemoval
  <2>1. CASE ReapNext
    <3>1. PICK k \in queue : /\ pc' = [pc EXCEPT ![Reaper] = "unlink"]
                             /\ key' = [key EXCEPT ![Reaper] = k] /\ queue' = queue \ {k}
      BY <2>1 DEF ReapNext, BeginRemove, StartRemoval
    <3>2. held2 = held \cup {k} BY <1>1, <3>1, StoreTypes
    <3>3. PickedForRemoval' = held2 \cup queue'
      BY <3>1, StoreTypes DEF PickedForRemoval
    <3> HIDE DEF held, held2
    <3> QED BY <2>0, <3>1, <3>2, <3>3
  <2>2. CASE ReapDone
    <3>1. /\ pc' = [pc EXCEPT ![Reaper] = "idle"] /\ key' = key /\ queue = {} /\ queue' = queue
      BY <2>2 DEF ReapDone, At, localVars
    <3>2. held2 = held BY <1>1, <3>1, StoreTypes
    <3>3. PickedForRemoval' = held2 BY <3>1, StoreTypes DEF PickedForRemoval
    <3> HIDE DEF held, held2
    <3> QED BY <2>0, <3>1, <3>2, <3>3
  <2> QED BY <2>1, <2>2
<1> QED BY <1>1, <1>2, <1>3, VisibleIsIndex, Stutters

-----------------------------------------------------------------------------
(* Restarts.                                                               *)

(* What rebuild_index will make of a directory, if it keeps it.            *)
Found(k) == [disk[k]["meta.json"].entry EXCEPT !.bytes = PayloadBytes(disk[k])]

(* It is the entry last saved there, at the size the files now have.       *)
LEMMA FoundIs ==
  ASSUME IInv, NEW k \in DOMAIN disk, ReadableMeta(disk[k])
  PROVE  /\ Found(k).created = disk[k]["meta.json"].entry.created
         /\ Found(k).expires = disk[k]["meta.json"].entry.expires
         /\ Found(k).bytes = PayloadBytes(disk[k]) /\ PayloadBytes(disk[k]) \in Nat
<1>1. disk[k]["meta.json"].entry \in Entry
  BY StoreTypes DEF Directory, Content, ReadableMeta
<1>2. PayloadBytes(disk[k]) \in Nat BY StoreTypes, SizesAreNaturals
<1> QED BY <1>1, <1>2 DEF Found, Entry

(* A crash at any point, even in the middle of a rebuild_index, loses only *)
(* what was being removed and brings back only documents and what a failed *)
(* removal has left.                                                       *)
LEMMA RestartMaps ==
  ASSUME IInv, BytesExact, OnDisk, NoMetaLeft, Evicting, Restart
  PROVE  [Abstract!Next]_(Abstract!storeVars)
<1>1. /\ pc' = [p \in Procs |-> IF p = Opener THEN "rebuild" ELSE "idle"]
      /\ index' = [k \in {} |-> 0] /\ queue' = DOMAIN disk
      /\ UNCHANGED <<disk, used, now, leftovers, ioErrors>>
  BY DEF Restart
<1>2. Visible' = [k \in {l \in DOMAIN disk : ReadableMeta(disk[l])} |-> Found(k)]
  <2>1. pc'[Opener] = "rebuild" BY <1>1, StoreTypes
  <2>2. DOMAIN index' = {} BY <1>1
  <2>3. {} \cup {l \in queue' : ReadableMeta(disk'[l])} = {l \in DOMAIN disk : ReadableMeta(disk[l])}
    BY <1>1
  <2> QED BY <1>1, <2>1, <2>2, <2>3 DEF Visible, Found
<1>3. PickedForRemoval' = {}
  <2>1. \A p \in Procs : pc'[p] \notin {"unlink", "unindex"} BY <1>1
  <2>2. pc'[Reaper] = "idle" BY <1>1, StoreTypes
  <2> QED BY <2>1, <2>2 DEF PickedForRemoval
<1> DEFINE evicting == {key[p] : p \in {q \in Procs : pc[q] \in Purging}}
<1>4. ASSUME NEW k \in DOMAIN Visible, k \notin PickedForRemoval \cup evicting
      PROVE  /\ k \in DOMAIN Visible'
             /\ Visible'[k].created = Visible[k].created /\ Visible'[k].expires = Visible[k].expires
             /\ Visible'[k].bytes >= Visible[k].bytes
  <2>1. CASE k \in DOMAIN index
    <3>1. Visible[k] = index[k] BY <2>1 DEF Visible
    <3>2. ~BeingRemoved(k) BY <1>4 DEF BeingRemoved, PickedForRemoval, Purging
    <3>3. SavedOnDisk(k) BY <2>1, <3>2 DEF OnDisk, Saved
    <3>4. k \in DOMAIN disk /\ ReadableMeta(disk[k]) BY <3>3 DEF SavedOnDisk
    <3>5. Visible'[k] = Found(k) BY <1>2, <3>4
    <3> QED BY <1>2, <3>1, <3>3, <3>4, <3>5, FoundIs DEF SavedOnDisk
  <2>2. CASE k \notin DOMAIN index
    <3>1. pc[Opener] = "rebuild" BY <2>2 DEF Visible
    <3>2. k \in queue /\ ReadableMeta(disk[k]) BY <2>2, <3>1 DEF Visible
    <3>3. Visible[k] = Found(k) BY <2>2, <3>1, <3>2 DEF Visible, Found
    <3>4. k \in DOMAIN disk BY <3>1, <3>2 DEF IInv, Rebuilding
    <3>5. Visible'[k] = Found(k) /\ k \in DOMAIN Visible' BY <1>2, <3>2, <3>4
    <3> QED BY <3>2, <3>3, <3>4, <3>5, FoundIs
  <2> QED BY <2>1, <2>2
<1>5. evicting = {} \/ \E k \in Abstract!Victims : evicting = {k}
  <2>1. CASE \E p \in Procs : pc[p] \in Purging
    <3>1. PICK p \in Procs : pc[p] \in Purging BY <2>1
    <3>2. \A q \in Procs : pc[q] \in Purging => q = p
      BY <3>1, StoreTypes DEF Exclusion, Holding, EvictPoints, Purging
    <3>3. evicting = {key[p]} BY <3>1, <3>2
    <3>4. pc[Opener] # "rebuild"
      BY <3>1, StoreTypes DEF Exclusion, Holding, EvictPoints, Purging
    <3>5. key[p] \in Abstract!Victims BY <3>1, <3>4, VictimsAre DEF Evicting
    <3> QED BY <3>3, <3>5
  <2>2. CASE ~\E p \in Procs : pc[p] \in Purging BY <2>2
  <2> QED BY <2>1, <2>2
<1>6. evicting \subseteq DOMAIN Visible
  BY <1>5 DEF Abstract!Victims, Abstract!Stored
<1>7. ASSUME NEW k \in DOMAIN Visible'
      PROVE  /\ k \in used
             /\ k \in DOMAIN Visible \cup PickedForRemoval \cup leftovers \/ KindOf[k] = "out"
  <2>1. k \in DOMAIN disk /\ ReadableMeta(disk[k]) /\ k \in used BY <1>2, <1>7, StoreTypes
  <2>2. CASE pc[Opener] = "rebuild"
    <3>1. k \in queue \cup DOMAIN index \cup leftovers BY <2>1, <2>2 DEF IInv, Rebuilding
    <3> QED BY <2>1, <2>2, <3>1 DEF Visible
  <2>3. CASE pc[Opener] # "rebuild"
    <3>1. DOMAIN Visible = DOMAIN index BY <2>3, VisibleIsIndex
    <3>2. BeingRemoved(k) => k \in PickedForRemoval \cup evicting
      BY DEF BeingRemoved, PickedForRemoval, Purging
    <3>3. k \notin DOMAIN index \cup leftovers /\ ~BeingRemoved(k) => KindOf[k] = "out"
      BY <2>1, <2>3 DEF NoMetaLeft, MetaGone
    <3> HIDE DEF evicting
    <3> QED BY <1>6, <2>1, <3>1, <3>2, <3>3
  <2> QED BY <2>2, <2>3
<1>8. (pc'[Opener] = "rebuild") = TRUE BY <1>1, StoreTypes
<1> HIDE DEF evicting
<1>9. Abstract!Crash
  <2>1. \E gone \in {{}} \cup {{k} : k \in Abstract!Victims} :
          \A k \in DOMAIN Visible \ (PickedForRemoval \cup gone) :
            /\ k \in DOMAIN Visible'
            /\ Visible'[k].created = Visible[k].created /\ Visible'[k].expires = Visible[k].expires
            /\ Visible'[k].bytes >= Visible[k].bytes
    BY <1>4, <1>5
  <2> QED BY <1>1, <1>3, <1>7, <1>8, <2>1 DEF Abstract!Crash, Abstract!Stored
<1> QED BY <1>9 DEF Abstract!Next

(* What is to be found in some directories, all in the queue, is no longer *)
(* visible when they leave it without being indexed.                       *)
LEMMA Dropped ==
  ASSUME IInv, NEW S \in SUBSET queue, pc[Opener] = "rebuild", pc'[Opener] = "rebuild",
         queue' = queue \ S, index' = index, \A l \in queue \ S : disk'[l] = disk[l]
  PROVE  Visible' = Abstract!Remaining(S)
<1> DEFINE seen == DOMAIN index \cup {l \in queue : ReadableMeta(disk[l])}
           seen2 == DOMAIN index \cup {l \in queue' : ReadableMeta(disk'[l])}
<1>1. queue \cap DOMAIN index = {} BY DEF IInv, Rebuilding
<1>2. Visible = [l \in seen |-> IF l \in DOMAIN index THEN index[l] ELSE Found(l)]
  BY DEF Visible, Found
<1>3. Visible' = [l \in seen2 |-> IF l \in DOMAIN index THEN index[l] ELSE Found(l)']
  BY DEF Visible, Found
<1>4. seen2 = seen \ S
  <2>1. \A l \in queue' : ReadableMeta(disk'[l]) <=> ReadableMeta(disk[l]) OBVIOUS
  <2> QED BY <1>1, <2>1
<1>5. \A l \in seen2 : (IF l \in DOMAIN index THEN index[l] ELSE Found(l)') = Visible[l]
  <2>1. \A l \in queue' : Found(l)' = Found(l) BY DEF Found
  <2> HIDE DEF Found
  <2> QED BY <1>2, <1>4, <2>1
<1>6. DOMAIN Visible = seen BY <1>2
<1> HIDE DEF seen, seen2
<1>7. Visible' = [l \in seen \ S |-> Visible[l]] BY <1>3, <1>4, <1>5
<1> QED BY <1>6, <1>7 DEF Abstract!Remaining, Abstract!Stored

(* rebuild_index shows nothing, for what it will find is visible already,  *)
(* except what a fault makes it lose.                                      *)
LEMMA OpenMaps ==
  ASSUME IInv, OpenStep
  PROVE  [Abstract!Next]_(Abstract!storeVars)
<1>1. UNCHANGED <<used, key, now>> /\ pc[Opener] = "rebuild" /\ pc'[Reaper] = pc[Reaper]
      /\ \A p \in Procs : pc[p] \notin Removing /\ pc'[p] \notin Removing
  BY StoreTypes DEF OpenStep, RebuildDir, DropDir, SkipDirs, RebuildDone, At, localVars, boundVars,
     IInv, Rebuilding, Removing
<1>2. PickedForRemoval' = PickedForRemoval
  <2>1. pc[Reaper] = "idle" BY <1>1, StoreTypes DEF IInv, Rebuilding
  <2> QED BY <1>1, <2>1 DEF PickedForRemoval, Removing
<1>3. CASE RebuildDone
  <2>1. /\ queue = {} /\ index' = index /\ pc' = [pc EXCEPT ![Opener] = "evict"]
        /\ UNCHANGED <<leftovers, ioErrors>>
    BY <1>3 DEF RebuildDone, At, indexVars, diskVars, boundVars
  <2>2. pc'[Opener] # "rebuild" BY <2>1, StoreTypes
  <2>3. Visible = index
    <3>1. Visible = [k \in DOMAIN index |-> index[k]] BY <1>1, <2>1 DEF Visible
    <3>2. index \in [DOMAIN index -> Entry] BY StoreTypes DEF IndexOK
    <3> QED BY <3>1, <3>2
  <2>4. Visible' = Visible BY <2>1, <2>2, <2>3, VisibleIsIndex
  <2>5. (pc'[Opener] = "rebuild") = FALSE BY <2>2
  <2>6. Abstract!Opened BY <1>1, <1>2, <2>1, <2>4, <2>5 DEF Abstract!Opened
  <2> QED BY <2>6 DEF Abstract!Next
<1>4. CASE RebuildDir
  <2>1. PICK k \in queue :
          /\ queue' = queue \ {k}
          /\ ReadableMeta(disk[k]) /\ index' = With(index, k, Found(k))
    BY <1>4 DEF RebuildDir, AddToIndex, Found
  <2>2. UNCHANGED <<pc, disk, leftovers, ioErrors>> BY <1>4 DEF RebuildDir, diskVars, boundVars
  <2>3. k \in DOMAIN disk /\ k \notin DOMAIN index /\ queue \subseteq DOMAIN disk
        /\ queue \cap DOMAIN index = {}
    BY <1>1 DEF IInv, Rebuilding
  <2> DEFINE seen == DOMAIN index \cup {l \in queue : ReadableMeta(disk[l])}
             seen2 == DOMAIN index' \cup {l \in queue' : ReadableMeta(disk'[l])}
  <2>4. Visible = [l \in seen |-> IF l \in DOMAIN index THEN index[l] ELSE Found(l)]
    BY <1>1 DEF Visible, Found
  <2>5. Visible' = [l \in seen2 |-> IF l \in DOMAIN index' THEN index'[l] ELSE Found(l)']
    BY <1>1, <2>2 DEF Visible, Found
  <2>6. /\ DOMAIN index' = DOMAIN index \cup {k} /\ index'[k] = Found(k)
        /\ \A l \in DOMAIN index : index'[l] = index[l]
    BY <2>1, <2>3 DEF With
  <2>7. seen2 = seen BY <2>1, <2>2, <2>6
  <2>8. \A l \in seen : (IF l \in DOMAIN index' THEN index'[l] ELSE Found(l)')
                          = (IF l \in DOMAIN index THEN index[l] ELSE Found(l))
    <3>1. \A l : Found(l)' = Found(l) BY <2>2 DEF Found
    <3> QED BY <2>3, <2>6, <3>1
  <2> HIDE DEF seen, seen2
  <2>9. Visible' = Visible BY <2>4, <2>5, <2>7, <2>8
  <2> QED BY <1>1, <1>2, <2>2, <2>9, Stutters
<1>5. CASE DropDir
  <2>1. PICK k \in queue :
          /\ queue' = queue \ {k}
          /\ \/ /\ IoError \/ (~ReadableMeta(disk[k]) /\ UNCHANGED ioErrors)
                /\ disk' = Without(disk, k) /\ leftovers' = leftovers \ {k}
             \/ /\ IoError
                /\ \E kept \in SUBSET DOMAIN disk[k] :
                     disk' = [disk EXCEPT ![k] = [n \in kept |-> disk[k][n]]]
                /\ leftovers' = leftovers \cup {k}
    BY <1>5 DEF DropDir
  <2>2. pc' = pc /\ index' = index BY <1>5 DEF DropDir, indexVars
  <2>3. \A l \in queue \ {k} : disk'[l] = disk[l]
    <3>1. queue \subseteq DOMAIN disk BY <1>1 DEF IInv, Rebuilding
    <3>2. CASE disk' = Without(disk, k) BY <3>1, <3>2 DEF Without
    <3>3. CASE \E kept \in SUBSET DOMAIN disk[k] :
                 disk' = [disk EXCEPT ![k] = [n \in kept |-> disk[k][n]]]
      BY <3>1, <3>3
    <3> QED BY <2>1, <3>2, <3>3
  <2>4. Visible' = Abstract!Remaining({k}) BY <1>1, <2>1, <2>2, <2>3, Dropped
  <2>5. k \in Keys BY StoreTypes
  <2>6. CASE IoError
    <3>1. ioErrors' = ioErrors + 1 BY <2>6 DEF IoError
    <3>2. leftovers' \in {leftovers \cup {k}, leftovers \ {k}} BY <2>1
    <3>3. (pc'[Opener] = "rebuild") = (pc[Opener] = "rebuild") BY <2>2
    <3>4. Abstract!Lose({k})
      BY <1>1, <1>2, <2>4, <3>1, <3>2, <3>3 DEF Abstract!Lose
    <3>5. {k} \in SUBSET Keys BY <2>5
    <3> QED BY <3>4, <3>5 DEF Abstract!Next
  <2>7. CASE ~IoError
    <3>1. ~ReadableMeta(disk[k]) /\ ioErrors' = ioErrors /\ leftovers' = leftovers \ {k}
      BY <2>1, <2>7
    <3>2. k \notin DOMAIN Visible
      <4>1. k \notin DOMAIN index BY <1>1 DEF IInv, Rebuilding
      <4> QED BY <1>1, <3>1, <4>1 DEF Visible
    <3>3. Visible' = Visible
      <4>1. DOMAIN Visible \ {k} = DOMAIN Visible BY <3>2
      <4>2. Visible = [l \in DOMAIN Visible |-> Visible[l]]
        BY <1>1 DEF Visible
      <4> HIDE DEF Visible
      <4> QED BY <2>4, <4>1, <4>2 DEF Abstract!Remaining, Abstract!Stored
    <3>4. CASE k \in leftovers
      <4>1. (pc'[Opener] = "rebuild") = (pc[Opener] = "rebuild") BY <2>2
      <4>2. Abstract!Cleared(k) BY <1>1, <1>2, <3>1, <3>3, <3>4, <4>1 DEF Abstract!Cleared
      <4> QED BY <2>5, <4>2 DEF Abstract!Next
    <3>5. CASE k \notin leftovers
      <4>1. leftovers' = leftovers BY <3>1, <3>5
      <4> QED BY <1>1, <1>2, <2>2, <3>1, <3>3, <4>1, Stutters
    <3> QED BY <3>4, <3>5
  <2> QED BY <2>6, <2>7
<1>6. CASE SkipDirs
  <2>1. PICK S \in SUBSET queue : queue' = queue \ S /\ leftovers' = leftovers \cup S
    BY <1>6 DEF SkipDirs
  <2>2. ioErrors' = ioErrors + 1 /\ UNCHANGED <<pc, index, disk>>
    BY <1>6 DEF SkipDirs, IoError, indexVars
  <2>3. Visible' = Abstract!Remaining(S) BY <1>1, <2>1, <2>2, Dropped
  <2>4. (pc'[Opener] = "rebuild") = (pc[Opener] = "rebuild") BY <2>2
  <2>5. Abstract!Lose(S) BY <1>1, <1>2, <2>1, <2>2, <2>3, <2>4 DEF Abstract!Lose
  <2>6. S \in SUBSET Keys BY StoreTypes
  <2> QED BY <2>5, <2>6 DEF Abstract!Next
<1> QED BY <1>3, <1>4, <1>5, <1>6 DEF OpenStep

(* The clock is the abstract one.                                          *)
LEMMA TickMaps ==
  ASSUME Tick \/ UNCHANGED vars
  PROVE  [Abstract!Next]_(Abstract!storeVars)
<1>1. UNCHANGED <<index, disk, used, pc, key, queue, leftovers, ioErrors>>
  BY DEF Tick, vars, indexVars, diskVars, localVars, boundVars
<1>2. Visible' = Visible /\ PickedForRemoval' = PickedForRemoval
  BY <1>1 DEF Visible, PickedForRemoval
<1>3. CASE Tick
  <2>1. Abstract!Tick BY <1>1, <1>2, <1>3, NoFault DEF Tick, Abstract!Tick
  <2> QED BY <2>1 DEF Abstract!Next
<1>4. CASE UNCHANGED vars
  <2>1. now' = now BY <1>4 DEF vars, boundVars
  <2> QED BY <1>1, <1>2, <2>1, Stutters
<1> QED BY <1>3, <1>4

-----------------------------------------------------------------------------
(* The store of store.rs is the abstract store: with concurrent handlers,  *)
(* half-done and failing removals, failing I/O and crashes, what its users *)
(* see changes only as ObjectStore says, faults and what they may bring    *)
(* back or lose included, as long as no upload is named meta.json.         *)
THEOREM StoreImplementsObjectStore == ASSUME PlainNames PROVE Spec => ImplementsObjectStore
<1>1. Init => Abstract!Init
  <2> SUFFICES ASSUME Init PROVE Abstract!Init
    OBVIOUS
  <2>1. /\ index = [k \in {} |-> 0] /\ queue = {} /\ used = {} /\ now = 0
        /\ pc = [p \in Procs |-> "idle"] /\ leftovers = {} /\ ioErrors = 0
    BY DEF Init
  <2>2. Visible = index BY <2>1, VisibleIsIndex DEF Procs
  <2>3. PickedForRemoval = {} BY <2>1 DEF PickedForRemoval
  <2>4. (pc[Opener] = "rebuild") = FALSE BY <2>1 DEF Procs
  <2> QED BY <2>1, <2>2, <2>3, <2>4 DEF Abstract!Init
<1>2. ASSUME IInv, Uploads, RemovesKeys, Evicting, OnDisk, NoMetaLeft, BytesExact, EntriesExact,
             [Next]_vars
      PROVE  [Abstract!Next]_(Abstract!storeVars)
  <2> USE <1>2
  <2>1. ASSUME NEW p \in Clients,
               Put(p) \/ PutPreview(p) \/ PreviewRefused(p) \/ PutStep(p) \/ Get(p) \/ Read(p) \/ Delete(p)
        PROVE  [Abstract!Next]_(Abstract!storeVars)
    BY <2>1, PutMaps, PutStepMaps, WriteMetaMaps, PickingMaps DEF PutStep
  <2>2. ASSUME NEW p \in Procs, EvictStep(p) \/ RemoveStep(p)
        PROVE  [Abstract!Next]_(Abstract!storeVars)
    BY <2>2, EvictedMaps, RemovalMaps, UnindexMaps DEF EvictStep, RemoveStep
  <2>3. CASE ReapStep BY <2>3, PickingMaps, ReapMaps DEF ReapStep
  <2>4. CASE OpenStep BY <2>4, OpenMaps
  <2>5. CASE Restart BY <2>5, RestartMaps
  <2>6. CASE Tick \/ UNCHANGED vars BY <2>6, TickMaps
  <2> QED BY <2>1, <2>2, <2>3, <2>4, <2>5, <2>6 DEF Next
<1> QED
  BY <1>1, <1>2, Invariance, UploadsAlways, RemovesKeysAlways, EvictingAlways, OnDiskAlways,
     NoMetaLeftAlways, BytesCounted, EntriesCounted, PTL DEF Spec, ImplementsObjectStore, Abstract!Spec
=============================================================================
