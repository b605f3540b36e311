---------------------------- MODULE StoreProofs ----------------------------
(* Theorems about Store, for every number of clients, keys and tenants and *)
(* every value of the limits.                                              *)
EXTENDS Store, SumLemmas, TLAPS

Committing == {"stage", "rename", "meta"}
EvictPoints == {"evict", "purge", "drop"}
Holding == Committing \cup EvictPoints \cup {"rebuild"}

(* Which program points each kind of process visits.                       *)
Roles ==
  /\ \A p \in Clients : pc[p] \notin {"reap", "rebuild"}
  /\ pc[Reaper] \in {"idle", "reap", "unlink", "unindex"}
  /\ pc[Opener] \in {"idle", "rebuild"} \cup EvictPoints

(* The mutex is held exactly at the points between MutexFree and release.  *)
Exclusion == \A p \in Procs : pc[p] \in Holding <=> lock = p

(* rebuild_index runs alone; each directory is in the index, among those   *)
(* it has still to visit, or could not be read or removed.                 *)
Rebuilding ==
  pc[Opener] = "rebuild" =>
    /\ queue \subseteq DOMAIN disk /\ queue \cap DOMAIN index = {}
    /\ DOMAIN disk \subseteq queue \cup DOMAIN index \cup leftovers
    /\ \A p \in Procs \ {Opener} : pc[p] = "idle"

(* From its check to its commit, a put has its space reserved.             *)
Reserved ==
  \A p \in Clients : pc[p] \in Committing =>
    /\ key[p] \in used
    /\ perTenant[TenantOf[key[p]]] + size[p] <= MaxTenantBytes
    /\ key[p] \notin DOMAIN index =>
         perTenantEntries[TenantOf[key[p]]] + 1 <= MaxTenantEntries

IInv == TypeOK /\ Roles /\ Exclusion /\ Rebuilding /\ Reserved

-----------------------------------------------------------------------------
(* What the two updates of the index do to its type.                       *)

(* A removal, from the index or not, keeps the index well typed and loses  *)
(* no other entry.                                                         *)
LEMMA RemoveFromIndexOK ==
  ASSUME IndexOK, used \subseteq Keys, NEW k, RemoveFromIndex(k), UNCHANGED used
  PROVE  /\ IndexOK' /\ DOMAIN index' = DOMAIN index \ {k}
         /\ \A l \in DOMAIN index' : index'[l] = index[l]
<1> USE KeysAssumption DEF IndexOK
<1>1. CASE k \in DOMAIN index
  <2>1. index' = Without(index, k) BY <1>1 DEF RemoveFromIndex
  <2>2. /\ DOMAIN index' = DOMAIN index \ {k} /\ \A l \in DOMAIN index' : index'[l] = index[l]
        /\ index' \in [DOMAIN index' -> Entry]
    BY <2>1 DEF Without
  <2>3. index[k].bytes \in Nat BY <1>1 DEF Entry
  <2>4. /\ perTenant' \in [Tenants -> Nat] /\ perTenantEntries' \in [Tenants -> Nat]
        /\ total' \in Nat
    BY <1>1, <2>3 DEF RemoveFromIndex, Monus
  <2> QED BY <2>2, <2>4
<1>2. CASE k \notin DOMAIN index
  BY <1>2 DEF RemoveFromIndex, indexVars
<1> QED BY <1>1, <1>2

(* An added entry keeps the index well typed.                              *)
LEMMA AddToIndexOK ==
  ASSUME IndexOK, used \subseteq Keys, NEW k \in used, NEW e \in Entry, NEW s \in Nat,
         AddToIndex(k, e, s), UNCHANGED used
  PROVE  IndexOK'
<1> USE KeysAssumption
<1>1. index' = With(index, k, e) BY DEF AddToIndex
<1>2. DOMAIN index' \subseteq used' /\ index' \in [DOMAIN index' -> Entry]
  BY <1>1 DEF IndexOK, With
<1>3. TenantOf[k] \in Tenants OBVIOUS
<1>4. /\ perTenant' \in [Tenants -> Nat] /\ perTenantEntries' \in [Tenants -> Nat]
      /\ total' \in Nat
  BY <1>3 DEF IndexOK, AddToIndex
<1> QED BY <1>2, <1>4 DEF IndexOK

(* A removal never raises a counter.                                       *)
LEMMA RemoveFromIndexShrinks ==
  ASSUME IndexOK, used \subseteq Keys, NEW k, RemoveFromIndex(k)
  PROVE  \A t \in Tenants :
           /\ perTenant'[t] \in 0..perTenant[t]
           /\ perTenantEntries'[t] \in 0..perTenantEntries[t]
<1> USE KeysAssumption DEF IndexOK
<1>1. CASE k \in DOMAIN index
  <2>1. index[k].bytes \in Nat BY <1>1 DEF Entry
  <2> QED BY <1>1, <2>1 DEF RemoveFromIndex, Monus
<1>2. CASE k \notin DOMAIN index
  BY <1>2 DEF RemoveFromIndex, indexVars
<1> QED BY <1>1, <1>2

(* What rebuild_index reads from a directory is an entry, charged with the *)
(* bytes it has found.                                                     *)
LEMMA RebuiltEntry ==
  ASSUME DiskOK, NEW k \in DOMAIN disk
  PROVE  /\ PayloadBytes(disk[k]) \in Nat
         /\ ReadableMeta(disk[k]) =>
              /\ [disk[k]["meta.json"].entry EXCEPT !.bytes = PayloadBytes(disk[k])] \in Entry
              /\ [disk[k]["meta.json"].entry EXCEPT !.bytes = PayloadBytes(disk[k])].bytes
                   = PayloadBytes(disk[k])
<1>1. \A n \in FileNames : SizeIn(disk[k], n) \in Nat BY DEF DiskOK, SizeIn, Content
<1>2. PayloadBytes(disk[k]) \in Nat BY <1>1 DEF PayloadBytes, FileNames, PayloadNames
<1>3. ReadableMeta(disk[k]) => disk[k]["meta.json"].entry \in Entry
  BY DEF DiskOK, ReadableMeta, Content
<1> QED BY <1>2, <1>3 DEF Entry

-----------------------------------------------------------------------------
(* The first step of a put reserves its space: the mutex keeps the usage   *)
(* it was checked against until the commit.                                *)
LEMMA BeginPutStep ==
  ASSUME IInv, NEW p \in Clients, NEW k \in Keys, NEW n \in FileNames, NEW s \in Nat,
         BeginPut(p, k, n, s), used' = used \/ used' = used \cup {k}, k \in used'
  PROVE  IInv'
<1> USE KeysAssumption, ProcsAssumption DEF IInv, TypeOK, Procs
<1>1. p # Opener /\ pc[p] = "idle" /\ lock = Free /\ lock' = p /\ pc' = [pc EXCEPT ![p] = "stage"]
  BY DEF BeginPut, At, MutexFree
<1>2. UNCHANGED <<index, perTenant, perTenantEntries, total, strays, leftovers, todo, queue,
                  now, restarts, ioErrors>>
  BY DEF BeginPut, indexVars, boundVars
<1>3. /\ key' = [key EXCEPT ![p] = k] /\ name' = [name EXCEPT ![p] = n]
      /\ size' = [size EXCEPT ![p] = s] /\ job' = [job EXCEPT ![p] = NoKey]
  BY DEF BeginPut
<1>4. used \subseteq used' /\ used' \subseteq Keys OBVIOUS
<1>5. IndexOK' /\ BoundsOK' BY <1>2, <1>4 DEF IndexOK, BoundsOK
<1>6. DiskOK'
  <2>1. DOMAIN disk' \subseteq DOMAIN disk \cup {k} /\ DOMAIN disk \subseteq DOMAIN disk'
    BY DEF BeginPut, With
  <2>2. \A l \in DOMAIN disk : disk'[l] = disk[l]
    BY DEF BeginPut, With
  <2>3. k \notin DOMAIN disk => DOMAIN disk'[k] = {} BY DEF BeginPut, With
  <2> QED BY <1>2, <1>4, <2>1, <2>2, <2>3 DEF DiskOK
<1>7. LocalsOK' BY <1>1, <1>2, <1>3, <1>4 DEF LocalsOK, Points
<1>8. TypeOK' BY <1>1, <1>2, <1>4, <1>5, <1>6, <1>7
<1>9. Roles' /\ Exclusion'
  BY <1>1 DEF Roles, Exclusion, LocalsOK, Holding, EvictPoints, Committing
<1>10. Rebuilding'
  <2>1. pc[Opener] # "rebuild" BY <1>1 DEF Exclusion, Holding
  <2> QED BY <1>1, <2>1 DEF Rebuilding, LocalsOK
<1>11. Reserved'
  <2>1. \A q \in Clients \ {p} : pc'[q] \notin Committing
    BY <1>1 DEF Exclusion, Holding, LocalsOK
  <2>2. ~QuotaRefuses(k, s) BY DEF BeginPut
  <2>3. perTenant[TenantOf[k]] \in Nat /\ perTenantEntries[TenantOf[k]] \in Nat
    BY DEF IndexOK
  <2>4. /\ perTenant'[TenantOf[k]] + s <= MaxTenantBytes
        /\ k \notin DOMAIN index' => perTenantEntries'[TenantOf[k]] + 1 <= MaxTenantEntries
    BY <1>2, <2>2, <2>3, LimitsAssumption DEF QuotaRefuses
  <2>5. key'[p] = k /\ size'[p] = s BY <1>3 DEF LocalsOK
  <2> QED BY <2>1, <2>4, <2>5 DEF Reserved
<1> QED BY <1>8, <1>9, <1>10, <1>11

(* The commit: the index grows by what was reserved.                       *)
LEMMA WriteMetaStep ==
  ASSUME IInv, NEW p \in Clients, WriteMeta(p)
  PROVE  IInv'
<1> DEFINE k == key[p]
           e == NewEntry(k, size[p])
<1> USE KeysAssumption, ProcsAssumption, LimitsAssumption DEF IInv, TypeOK, Procs
<1>1. /\ pc[p] = "meta" /\ pc' = [pc EXCEPT ![p] = "evict"] /\ lock = p
      /\ UNCHANGED <<lock, strays, leftovers, used, key, name, size, todo, queue, now,
                     restarts, ioErrors>>
      /\ job' \in {job, [job EXCEPT ![p] = k]}
  BY DEF WriteMeta, At, localVars, boundVars, Exclusion, Holding, Committing
<1>2. k \in used /\ k \in Keys /\ k \in DOMAIN disk /\ size[p] \in Nat
  BY DEF WriteMeta, DiskOK, LocalsOK
<1>3. e \in Entry
  <2>1. now \in Nat /\ Ttl[KindOf[k]] \in Nat BY <1>2 DEF BoundsOK
  <2>2. CASE k \in DOMAIN index
    <3>1. index[k] \in Entry BY <2>2 DEF IndexOK
    <3>2. e = [bytes |-> index[k].bytes + size[p], created |-> index[k].created,
               expires |-> now + Ttl[KindOf[k]]]
      BY <2>2, <3>1 DEF NewEntry, Entry
    <3> QED BY <1>2, <2>1, <3>1, <3>2 DEF Entry
  <2>3. CASE k \notin DOMAIN index
    BY <1>2, <2>1, <2>3 DEF NewEntry, Entry
  <2> QED BY <2>2, <2>3
<1>4. AddToIndex(k, e, size[p]) BY DEF WriteMeta
<1>5. IndexOK' BY <1>1, <1>2, <1>3, <1>4, AddToIndexOK
<1>6. DiskOK'
  <2>1. disk' = [disk EXCEPT ![k] = With(@, "meta.json", Metadata(e))] BY DEF WriteMeta
  <2>2. Metadata(e) \in Content BY <1>3 DEF Metadata, Content
  <2>3. /\ DOMAIN disk'[k] = DOMAIN disk[k] \cup {"meta.json"}
        /\ \A n \in DOMAIN disk'[k] :
             disk'[k][n] = IF n = "meta.json" THEN Metadata(e) ELSE disk[k][n]
    BY <1>2, <2>1 DEF With
  <2>4. "meta.json" \in FileNames BY DEF FileNames
  <2> QED BY <1>1, <1>2, <2>1, <2>2, <2>3, <2>4 DEF DiskOK
<1>7. LocalsOK' BY <1>1, <1>2 DEF LocalsOK, Points
<1>8. TypeOK' BY <1>1, <1>5, <1>6, <1>7 DEF BoundsOK
<1>9. Roles' /\ Exclusion' /\ Rebuilding' /\ Reserved'
  BY <1>1 DEF Roles, Exclusion, Rebuilding, Reserved, LocalsOK, Holding, EvictPoints, Committing
<1> QED BY <1>8, <1>9

(* Every handler's every step keeps the inductive invariant.               *)
LEMMA InductiveStep == IInv /\ [Next]_vars => IInv'
<1> SUFFICES ASSUME IInv, [Next]_vars PROVE IInv'
  OBVIOUS
<1>1. ASSUME NEW p \in Clients, Put(p) PROVE IInv'
  <2>1. PICK k \in Keys \ used, s \in Sizes :
          BeginPut(p, k, MainName[k], s) /\ used' = used \cup {k}
    BY <1>1 DEF Put
  <2>2. MainName[k] \in FileNames /\ s \in Nat
    BY KeysAssumption, LimitsAssumption DEF FileNames, PayloadNames
  <2> QED BY <2>1, <2>2, BeginPutStep
<1>2. ASSUME NEW p \in Clients, PutPreview(p) PROVE IInv'
  <2>1. PICK n \in Previews, s \in Sizes :
          job[p] # NoKey /\ BeginPut(p, job[p], n, s) /\ UNCHANGED used
    BY <1>2 DEF PutPreview
  <2>2. job[p] \in used /\ job[p] \in Keys BY <2>1 DEF IInv, TypeOK, LocalsOK
  <2>3. n \in FileNames /\ s \in Nat
    BY KeysAssumption, LimitsAssumption DEF FileNames, PayloadNames
  <2> QED BY <2>1, <2>2, <2>3, BeginPutStep
<1> USE KeysAssumption, ProcsAssumption, LimitsAssumption
    DEF IInv, TypeOK, Roles, Exclusion, Rebuilding, Reserved, IndexOK, DiskOK, LocalsOK, BoundsOK, Points, Procs,
        Committing, EvictPoints, Holding, indexVars, diskVars, localVars, boundVars, IoError, At,
        Forget, Content, Payload, Metadata, FileNames, PayloadNames
<1>3. ASSUME NEW p \in Clients, PreviewRefused(p) PROVE IInv'
  BY <1>3 DEF PreviewRefused
<1>4. ASSUME NEW p \in Clients, Stage(p) PROVE IInv'
  BY <1>4 DEF Stage
<1>5. ASSUME NEW p \in Clients, StageFails(p) PROVE IInv'
  BY <1>5 DEF StageFails, ReturnError
<1>6. ASSUME NEW p \in Clients, Rename(p) PROVE IInv'
  BY <1>6 DEF Rename, With
<1>7. ASSUME NEW p \in Clients, RenameFails(p) PROVE IInv'
  BY <1>7 DEF RenameFails, ReturnError
<1>8. ASSUME NEW p \in Clients, WriteMeta(p) PROVE IInv'
  BY ONLY <1>8, IInv, WriteMetaStep
<1>9. ASSUME NEW p \in Clients, WriteMetaFails(p) PROVE IInv'
  BY <1>9 DEF WriteMetaFails, ReturnError, Without
<1>10. ASSUME NEW p \in Clients, Get(p) PROVE IInv'
  BY <1>10 DEF Get, MutexFree, Live
<1>11. ASSUME NEW p \in Clients, Read(p) PROVE IInv'
  BY <1>11 DEF Read
<1>12. ASSUME NEW p \in Clients, Delete(p) PROVE IInv'
  BY <1>12 DEF Delete, BeginRemove, StartRemoval, FilesOf, MutexFree, Live
<1>13. ASSUME NEW p \in Procs, BeginEvict(p) PROVE IInv'
  BY <1>13 DEF BeginEvict, StartRemoval, FilesOf, Oldest
<1>26. ASSUME NEW p \in Procs, Evicted(p) PROVE IInv'
  <2>1. IndexOK' /\ DOMAIN index' = DOMAIN index \ {key[p]}
    BY <1>26, RemoveFromIndexOK DEF Evicted
  <2>2. pc[Opener] # "rebuild" /\ \A q \in Clients : pc[q] \notin Committing
    BY <1>26 DEF Evicted
  <2> QED BY <1>26, <2>1, <2>2 DEF Evicted
<1>14. ASSUME NEW p \in Procs, EvictDone(p) PROVE IInv'
  BY <1>14 DEF EvictDone
<1>15. ASSUME NEW p \in Procs, Unlink(p) PROVE IInv'
  BY <1>15 DEF Unlink, InRemoveDirAll, Without
<1>16. ASSUME NEW p \in Procs, RemoveDir(p) PROVE IInv'
  BY <1>16 DEF RemoveDir, InRemoveDirAll, RemoveDirAllEnds, Without
<1>27. ASSUME NEW p \in Procs, RemoveFails(p) PROVE IInv'
  BY <1>27 DEF RemoveFails, InRemoveDirAll, RemoveDirAllEnds
<1>17. ASSUME NEW p \in Procs, Unindex(p) PROVE IInv'
  <2>1. IndexOK' /\ DOMAIN index' = DOMAIN index \ {key[p]}
    BY <1>17, RemoveFromIndexOK DEF Unindex
  <2>2. \A q \in Procs : pc[q] \notin Holding BY <1>17 DEF Unindex, MutexFree
  <2> QED BY <1>17, <2>1, <2>2 DEF Unindex, MutexFree
<1>18. ASSUME ReapScan PROVE IInv'
  BY <1>18 DEF ReapScan, MutexFree, ExpiredKeys
<1>19. ASSUME ReapNext PROVE IInv'
  BY <1>19 DEF ReapNext, BeginRemove, StartRemoval, FilesOf
<1>20. ASSUME ReapDone PROVE IInv'
  BY <1>20 DEF ReapDone
<1>21. ASSUME RebuildDir PROVE IInv'
  <2>1. PICK k \in queue :
          LET b == PayloadBytes(disk[k]) IN
          /\ queue' = queue \ {k} /\ ReadableMeta(disk[k])
          /\ AddToIndex(k, [disk[k]["meta.json"].entry EXCEPT !.bytes = b], b)
    BY <1>21 DEF RebuildDir
  <2>2. /\ k \in DOMAIN disk /\ k \in used /\ pc[Opener] = "rebuild"
        /\ UNCHANGED <<pc, used, disk, leftovers>>
    BY <1>21 DEF RebuildDir
  <2> DEFINE b == PayloadBytes(disk[k])
             e == [disk[k]["meta.json"].entry EXCEPT !.bytes = b]
  <2>3. b \in Nat BY <2>2, RebuiltEntry
  <2>4. e \in Entry BY <2>1, <2>2, RebuiltEntry
  <2>5. AddToIndex(k, e, b) BY <2>1
  <2> HIDE DEF b, e
  <2>6. IndexOK' BY <2>2, <2>3, <2>4, <2>5, AddToIndexOK
  <2>7. DOMAIN index' = DOMAIN index \cup {k} BY <2>5 DEF AddToIndex, With
  <2>8. Rebuilding' BY <2>1, <2>2, <2>7
  <2>9. Reserved' BY <2>2, ProcsAssumption
  <2> QED BY <1>21, <2>1, <2>2, <2>6, <2>8, <2>9 DEF RebuildDir
<1>28. ASSUME DropDir PROVE IInv'
  <2>1. PICK k \in queue :
          /\ queue' = queue \ {k}
          /\ \/ disk' = Without(disk, k) /\ leftovers' = leftovers \ {k}
             \/ /\ \E kept \in SUBSET DOMAIN disk[k] :
                     disk' = [disk EXCEPT ![k] = [n \in kept |-> disk[k][n]]]
                /\ leftovers' = leftovers \cup {k}
    BY <1>28 DEF DropDir
  <2>2. /\ k \in DOMAIN disk /\ pc[Opener] = "rebuild"
        /\ UNCHANGED <<pc, used, index, perTenant, perTenantEntries, total, strays, lock, key,
                       name, size, todo, job, now, restarts>>
        /\ ioErrors' \in 0..MaxIoErrors
    BY <1>28 DEF DropDir
  <2>3. DiskOK' /\ Rebuilding'
    <3>1. CASE disk' = Without(disk, k) /\ leftovers' = leftovers \ {k}
      <4>1. DOMAIN disk' = DOMAIN disk \ {k} /\ \A l \in DOMAIN disk' : disk'[l] = disk[l]
        BY <3>1 DEF Without
      <4> QED BY <2>1, <2>2, <3>1, <4>1
    <3>2. CASE /\ \E kept \in SUBSET DOMAIN disk[k] :
                    disk' = [disk EXCEPT ![k] = [n \in kept |-> disk[k][n]]]
               /\ leftovers' = leftovers \cup {k}
      <4>1. PICK kept \in SUBSET DOMAIN disk[k] :
              disk' = [disk EXCEPT ![k] = [n \in kept |-> disk[k][n]]]
        BY <3>2
      <4>2. /\ DOMAIN disk' = DOMAIN disk /\ \A l \in DOMAIN disk \ {k} : disk'[l] = disk[l]
            /\ DOMAIN disk'[k] \subseteq DOMAIN disk[k]
            /\ \A n \in DOMAIN disk'[k] : disk'[k][n] = disk[k][n]
        BY <2>2, <4>1
      <4> QED BY <2>1, <2>2, <3>2, <4>2
    <3> QED BY <2>1, <3>1, <3>2
  <2>4. Reserved' BY <2>2, ProcsAssumption
  <2> QED BY <2>1, <2>2, <2>3, <2>4
<1>29. ASSUME SkipDirs PROVE IInv'
  BY <1>29 DEF SkipDirs
<1>22. ASSUME RebuildDone PROVE IInv'
  BY <1>22 DEF RebuildDone
<1>23. ASSUME Restart PROVE IInv'
  <2>1. IndexOK' BY <1>23 DEF Restart
  <2>2. DiskOK'
    <3>1. StagedBytes \in Nat
      <4>1. lock \in Clients => size[lock] \in Nat BY ONLY IInv DEF IInv, TypeOK, LocalsOK, Procs
      <4>2. CASE lock \in Clients /\ pc[lock] = "rename" BY <4>1, <4>2 DEF StagedBytes
      <4>3. CASE ~(lock \in Clients /\ pc[lock] = "rename") BY <4>3 DEF StagedBytes
      <4> QED BY <4>2, <4>3
    <3>2. strays' = strays + StagedBytes /\ UNCHANGED <<disk, leftovers, used>> BY <1>23 DEF Restart
    <3>3. strays' \in Nat BY <3>1, <3>2
    <3> QED BY <3>2, <3>3
  <2>3. Rebuilding' BY <1>23 DEF Restart
  <2>4. LocalsOK' BY ONLY <1>23, IInv, ProcsAssumption DEF Restart, LocalsOK, Points, Procs, FileNames, PayloadNames
  <2>5. BoundsOK' BY ONLY <1>23, IInv, LimitsAssumption DEF Restart, IInv, TypeOK, BoundsOK
  <2>6. Roles' BY ONLY <1>23, ProcsAssumption DEF Restart, Roles, Procs
  <2>7. Exclusion' BY ONLY <1>23, ProcsAssumption DEF Restart, Exclusion, Procs, Holding, EvictPoints, Committing
  <2>8. Reserved' BY ONLY <1>23, ProcsAssumption DEF Restart, Reserved, Procs, Committing
  <2>9. lock' \in Procs \cup {Free} /\ used' \subseteq Keys /\ queue' \subseteq used'
    BY ONLY <1>23, IInv, ProcsAssumption DEF Restart, IInv, TypeOK, DiskOK, Procs
  <2> QED BY ONLY <2>1, <2>2, <2>3, <2>4, <2>5, <2>6, <2>7, <2>8, <2>9 DEF IInv, TypeOK
<1>24. ASSUME Tick PROVE IInv'
  BY <1>24 DEF Tick
<1>25. ASSUME UNCHANGED vars PROVE IInv'
  BY <1>25 DEF vars
<1> QED
  BY <1>1, <1>2, <1>3, <1>4, <1>5, <1>6, <1>7, <1>8, <1>9, <1>10, <1>11, <1>12, <1>13, <1>14, <1>15, <1>16, <1>17, <1>18, <1>19, <1>20, <1>21, <1>22, <1>23, <1>24, <1>25,
     <1>26, <1>27, <1>28, <1>29 DEF Next, PutStep, EvictStep, RemoveStep, ReapStep, OpenStep

(* The inductive invariant holds from Store::open on.                      *)
LEMMA Invariance == Spec => []IInv
<1>1. Init => IInv
  BY ProcsAssumption, KeysAssumption, LimitsAssumption
     DEF Init, IInv, TypeOK, IndexOK, DiskOK, LocalsOK, Points, BoundsOK, Roles, Exclusion,
         Rebuilding, Reserved, Procs, Holding, EvictPoints, Committing, FileNames, PayloadNames
<1> QED BY <1>1, InductiveStep, PTL DEF Spec

(* Every variable keeps its type: whatever handlers, the reaper and        *)
(* restarts interleave, only minted ids are indexed, on disk or in hand.   *)
THEOREM TypeCorrect == Spec => []TypeOK
<1>1. IInv => TypeOK BY DEF IInv
<1> QED BY <1>1, Invariance, PTL

-----------------------------------------------------------------------------
(* The four things a step can do to the index.                             *)

IndexedBytes(k) == IF k \in DOMAIN index THEN index[k].bytes ELSE 0
Added(k, s) ==
  \E e \in Entry : e.bytes = IndexedBytes(k) + s /\ AddToIndex(k, e, s)
Reset == /\ index' = [k \in {} |-> 0] /\ total' = 0
         /\ perTenant' = [t \in Tenants |-> 0] /\ perTenantEntries' = [t \in Tenants |-> 0]

(* Only commits, RebuildDir, the ends of removals and crashes change it.   *)
LEMMA IndexUntouched ==
  ASSUME [Next]_vars, ~(\E p \in Clients : WriteMeta(p)), ~RebuildDir, ~Restart,
         ~(\E p \in Procs : Evicted(p) \/ Unindex(p))
  PROVE  UNCHANGED indexVars
<1>1. CASE UNCHANGED vars BY <1>1 DEF vars
<1>2. ASSUME NEW p \in Clients,
             Put(p) \/ PutPreview(p) \/ PreviewRefused(p) \/ PutStep(p) \/ Get(p) \/ Read(p) \/ Delete(p)
      PROVE  UNCHANGED indexVars
  BY <1>2 DEF Put, PutPreview, BeginPut, PreviewRefused, PutStep, Stage, StageFails,
       Rename, RenameFails, WriteMetaFails, ReturnError, Get, Read, Delete
<1>3. ASSUME NEW p \in Procs, EvictStep(p) \/ RemoveStep(p)
      PROVE  UNCHANGED indexVars
  BY <1>3 DEF EvictStep, RemoveStep, BeginEvict, EvictDone, Unlink, RemoveDir, RemoveFails
<1>4. CASE ReapStep \/ OpenStep \/ Tick
  BY <1>4 DEF ReapStep, ReapScan, ReapNext, ReapDone, OpenStep, DropDir, SkipDirs,
     RebuildDone, Tick
<1> QED BY <1>1, <1>2, <1>3, <1>4 DEF Next

(* A step leaves the index alone, commits a put, indexes a directory at    *)
(* start-up, removes an entry, or loses it all in a crash.                 *)
LEMMA StepOfIndex ==
  ASSUME IInv, [Next]_vars
  PROVE  \/ UNCHANGED indexVars
         \/ \E p \in Clients : pc[p] = "meta" /\ pc'[p] = "evict" /\ Added(key[p], size[p])
         \/ /\ pc[Opener] = "rebuild" /\ pc' = pc
            /\ \E k \in used, s \in Nat : Added(k, s)
         \/ \E k : RemoveFromIndex(k)
         \/ Reset /\ pc'[Opener] = "rebuild"
<1>1. CASE \E p \in Clients : WriteMeta(p)
  <2>1. PICK p \in Clients : WriteMeta(p) BY <1>1
  <2>2. key[p] \in used /\ used \subseteq Keys /\ size[p] \in Nat /\ now \in Nat
    BY <2>1, LimitsAssumption
       DEF IInv, TypeOK, LocalsOK, BoundsOK, WriteMeta, At, DiskOK, Procs
  <2>3. /\ NewEntry(key[p], size[p]) \in Entry
        /\ NewEntry(key[p], size[p]).bytes = IndexedBytes(key[p]) + size[p]
    <3> DEFINE k == key[p]
    <3>1. Ttl[KindOf[k]] \in Nat BY <2>2, KeysAssumption, LimitsAssumption
    <3>2. CASE k \in DOMAIN index
      <4>1. index[k] \in Entry BY <3>2 DEF IInv, TypeOK, IndexOK
      <4>2. NewEntry(k, size[p]) = [bytes |-> index[k].bytes + size[p],
              created |-> index[k].created, expires |-> now + Ttl[KindOf[k]]]
        BY <3>2, <4>1 DEF NewEntry, Entry
      <4>3. IndexedBytes(k) = index[k].bytes BY <3>2 DEF IndexedBytes
      <4> QED BY <2>2, <3>1, <4>1, <4>2, <4>3 DEF Entry
    <3>3. CASE k \notin DOMAIN index
      <4>1. IndexedBytes(k) = 0 BY <3>3 DEF IndexedBytes
      <4> QED BY <2>2, <3>1, <3>3, <4>1 DEF NewEntry, Entry
    <3> QED BY <3>2, <3>3
  <2>4. pc[p] = "meta" /\ pc'[p] = "evict"
    BY <2>1 DEF WriteMeta, At, IInv, TypeOK, LocalsOK, Procs
  <2>5. Added(key[p], size[p]) BY <2>1, <2>3 DEF WriteMeta, Added
  <2> QED BY <2>4, <2>5
<1>2. CASE RebuildDir
  <2>1. PICK k \in queue :
          /\ ReadableMeta(disk[k])
          /\ AddToIndex(k, [disk[k]["meta.json"].entry EXCEPT !.bytes = PayloadBytes(disk[k])],
                        PayloadBytes(disk[k]))
    BY <1>2 DEF RebuildDir
  <2>2. pc[Opener] = "rebuild" /\ pc' = pc BY <1>2 DEF RebuildDir
  <2>3. k \in DOMAIN disk /\ k \in used BY <2>2 DEF IInv, TypeOK, Rebuilding
  <2>4. PayloadBytes(disk[k]) \in Nat BY <2>3, RebuiltEntry DEF IInv, TypeOK
  <2>5. ReadableMeta(disk[k]) =>
          /\ [disk[k]["meta.json"].entry EXCEPT !.bytes = PayloadBytes(disk[k])] \in Entry
          /\ [disk[k]["meta.json"].entry EXCEPT !.bytes = PayloadBytes(disk[k])].bytes
               = IndexedBytes(k) + PayloadBytes(disk[k])
    <3>1. IndexedBytes(k) = 0 BY <2>2 DEF IInv, Rebuilding, IndexedBytes
    <3> QED BY <2>3, <2>4, <3>1, RebuiltEntry DEF IInv, TypeOK
  <2> QED BY <2>1, <2>2, <2>3, <2>4, <2>5 DEF Added
<1>3. CASE \E p \in Procs : Evicted(p) \/ Unindex(p)
  BY <1>3 DEF Evicted, Unindex
<1>4. CASE Restart
  BY <1>4, ProcsAssumption DEF Restart, Reset, Procs
<1>5. ASSUME ~(\E p \in Clients : WriteMeta(p)), ~RebuildDir, ~Restart,
             ~(\E p \in Procs : Evicted(p) \/ Unindex(p))
      PROVE  UNCHANGED indexVars
  BY <1>5, IndexUntouched
<1> QED BY <1>1, <1>2, <1>3, <1>4, <1>5

-----------------------------------------------------------------------------
(* Quotas hold under concurrency: the mutex is held from the check to the  *)
(* commit, so what a tenant gains is what was checked.                     *)
THEOREM QuotasHold == Spec => GrowthWithinQuota
<1> DEFINE Within == pc[Opener] # "rebuild" =>
             \A t \in Tenants :
               /\ perTenant'[t] > perTenant[t] => perTenant'[t] <= MaxTenantBytes
               /\ perTenantEntries'[t] > perTenantEntries[t] =>
                    perTenantEntries'[t] <= MaxTenantEntries
<1>1. ASSUME IInv, [Next]_vars PROVE Within
  <2> USE <1>1, KeysAssumption, ProcsAssumption, LimitsAssumption
  <2>0. IndexOK /\ used \subseteq Keys BY DEF IInv, TypeOK
  <2>1. CASE UNCHANGED indexVars BY <2>0, <2>1 DEF indexVars, IndexOK
  <2>2. ASSUME NEW p \in Clients, pc[p] = "meta", Added(key[p], size[p]) PROVE Within
    <3>1. /\ key[p] \in Keys
          /\ perTenant[TenantOf[key[p]]] + size[p] <= MaxTenantBytes
          /\ key[p] \notin DOMAIN index =>
               perTenantEntries[TenantOf[key[p]]] + 1 <= MaxTenantEntries
      BY <2>0, <2>2 DEF IInv, Reserved, Committing
    <3> QED BY <2>0, <2>2, <3>1 DEF Added, AddToIndex, IndexOK
  <2>3. ASSUME NEW k, RemoveFromIndex(k) PROVE Within
    <3>1. \A t \in Tenants : perTenant[t] \in Nat /\ perTenantEntries[t] \in Nat
      BY <2>0 DEF IndexOK
    <3> QED BY <2>0, <2>3, <3>1, RemoveFromIndexShrinks
  <2>4. CASE Reset BY <2>0, <2>4 DEF Reset, IndexOK
  <2> QED BY <2>1, <2>2, <2>3, <2>4, StepOfIndex
<1> QED BY <1>1, Invariance, PTL DEF Spec, GrowthWithinQuota

-----------------------------------------------------------------------------
(* The entry counters count: each is the number of the tenant's entries.   *)
EntriesOf(t) == {k \in DOMAIN index : TenantOf[k] = t}

(* What is indexed is finite, so that it can be counted.                   *)
LEMMA EntriesFinite ==
  ASSUME IndexOK, used \subseteq Keys
  PROVE  IsFiniteSet(DOMAIN index) /\ \A t \in Tenants : IsFiniteSet(EntriesOf(t))
<1>1. DOMAIN index \subseteq Keys /\ \A t \in Tenants : EntriesOf(t) \subseteq Keys
  BY DEF IndexOK, EntriesOf
<1> QED BY <1>1, FS_Subset, KeysAssumption

(* put_with_id and rebuild_index count a key exactly when it is new.       *)
LEMMA AddKeepsCount ==
  ASSUME IndexOK, used \subseteq Keys, EntriesExact, NEW k \in used, NEW s, Added(k, s)
  PROVE  EntriesExact'
<1> USE KeysAssumption DEF EntriesExact, EntriesOf
<1>1. DOMAIN index' = DOMAIN index \cup {k} BY DEF Added, AddToIndex, With
<1> SUFFICES ASSUME NEW t \in Tenants
             PROVE  perTenantEntries'[t] = Cardinality({l \in DOMAIN index' : TenantOf[l] = t})
  OBVIOUS
<1>2. CASE k \in DOMAIN index \/ TenantOf[k] # t
  <2>1. {l \in DOMAIN index' : TenantOf[l] = t} = EntriesOf(t) BY <1>1, <1>2
  <2>2. perTenantEntries'[t] = perTenantEntries[t] BY <1>2 DEF Added, AddToIndex, IndexOK
  <2> QED BY <2>1, <2>2
<1>3. CASE k \notin DOMAIN index /\ TenantOf[k] = t
  <2>1. {l \in DOMAIN index' : TenantOf[l] = t} = EntriesOf(t) \cup {k} BY <1>1, <1>3
  <2>2. perTenantEntries'[t] = perTenantEntries[t] + 1
    BY <1>3 DEF Added, AddToIndex, IndexOK
  <2>3. k \notin EntriesOf(t) BY <1>3
  <2>4. Cardinality(EntriesOf(t) \cup {k}) = Cardinality(EntriesOf(t)) + 1
    BY <2>3, EntriesFinite, FS_AddElement
  <2> QED BY <2>1, <2>2, <2>4
<1> QED BY <1>2, <1>3

(* remove_from_index counts a key down exactly when it was there.          *)
LEMMA RemoveKeepsCount ==
  ASSUME IndexOK, used \subseteq Keys, EntriesExact, NEW k, RemoveFromIndex(k)
  PROVE  EntriesExact'
<1> USE KeysAssumption DEF EntriesExact, EntriesOf
<1>1. CASE k \notin DOMAIN index
  BY <1>1 DEF RemoveFromIndex, indexVars
<1>2. CASE k \in DOMAIN index
  <2>1. DOMAIN index' = DOMAIN index \ {k} BY <1>2 DEF RemoveFromIndex, Without
  <2> SUFFICES ASSUME NEW t \in Tenants
               PROVE  perTenantEntries'[t] = Cardinality({l \in DOMAIN index' : TenantOf[l] = t})
    OBVIOUS
  <2>2. {l \in DOMAIN index' : TenantOf[l] = t} = EntriesOf(t) \ {k} BY <2>1
  <2>3. CASE TenantOf[k] # t
    <3>1. EntriesOf(t) \ {k} = EntriesOf(t) BY <2>3
    <3>2. perTenantEntries'[t] = perTenantEntries[t]
      BY <1>2, <2>3 DEF RemoveFromIndex, IndexOK
    <3> QED BY <2>2, <3>1, <3>2
  <2>4. CASE TenantOf[k] = t
    <3>1. k \in EntriesOf(t) BY <1>2, <2>4
    <3>2. /\ IsFiniteSet(EntriesOf(t) \ {k})
          /\ Cardinality(EntriesOf(t) \ {k}) = Cardinality(EntriesOf(t)) - 1
      BY <3>1, EntriesFinite, FS_RemoveElement
    <3>3. Cardinality(EntriesOf(t) \ {k}) \in Nat BY <3>2, FS_CardinalityType
    <3>4. perTenantEntries[t] \in Nat /\ perTenantEntries[t] >= 1
      BY <3>2, <3>3 DEF IndexOK
    <3>5. perTenantEntries'[t] = perTenantEntries[t] - 1
      BY <1>2, <2>4, <3>4 DEF RemoveFromIndex, IndexOK, Monus
    <3> QED BY <2>2, <3>2, <3>5
  <2> QED BY <2>3, <2>4
<1> QED BY <1>1, <1>2

(* The entry counters of put_with_id and remove_from_index never drift     *)
(* from what the index holds, restarts and double removals included.       *)
THEOREM EntriesCounted == Spec => []EntriesExact
<1>1. Init => EntriesExact
  <2> SUFFICES ASSUME Init, NEW t \in Tenants
               PROVE  perTenantEntries[t] = Cardinality({k \in DOMAIN index : TenantOf[k] = t})
    BY DEF EntriesExact
  <2>1. {k \in DOMAIN index : TenantOf[k] = t} = {} BY DEF Init
  <2> QED BY <2>1, FS_EmptySet DEF Init
<1>2. ASSUME IInv, EntriesExact, [Next]_vars PROVE EntriesExact'
  <2> USE <1>2 DEF IInv, TypeOK
  <2>1. CASE UNCHANGED indexVars BY <2>1 DEF indexVars, EntriesExact
  <2>2. ASSUME NEW p \in Clients, pc[p] = "meta", Added(key[p], size[p]) PROVE EntriesExact'
    <3>1. key[p] \in used BY <2>2 DEF Reserved, Committing
    <3> QED BY <2>2, <3>1, AddKeepsCount
  <2>3. ASSUME NEW k \in used, NEW s \in Nat, Added(k, s) PROVE EntriesExact'
    BY <2>3, AddKeepsCount
  <2>4. ASSUME NEW k, RemoveFromIndex(k) PROVE EntriesExact'
    BY <2>4, RemoveKeepsCount
  <2>5. CASE Reset
    <3> SUFFICES ASSUME NEW t \in Tenants
                 PROVE  perTenantEntries'[t] = Cardinality({k \in DOMAIN index' : TenantOf[k] = t})
      BY DEF EntriesExact
    <3>1. {k \in DOMAIN index' : TenantOf[k] = t} = {} BY <2>5 DEF Reset
    <3> QED BY <2>5, <3>1, FS_EmptySet DEF Reset
  <2> QED BY <2>1, <2>2, <2>3, <2>4, <2>5, StepOfIndex
<1> QED BY <1>1, <1>2, Invariance, PTL DEF Spec

-----------------------------------------------------------------------------
(* The byte counters add up.                                               *)
Sums(w, sum, per) ==
  /\ sum = BytesIn(w, DOMAIN w)
  /\ \A t \in Tenants : per[t] = BytesIn(w, {k \in DOMAIN w : TenantOf[k] = t})

(* BytesExact, before and after a step, in terms of the sums' lemmas.      *)
LEMMA BytesAreSums ==
  /\ BytesExact <=> Sums(index, total, perTenant)
  /\ BytesExact' <=> Sums(index', total', perTenant')
<1>1. BytesExact <=> Sums(index, total, perTenant)
  BY DEF BytesExact, Sums, BytesIndexed, BytesIn
<1>2. BytesExact' <=> Sums(index', total', perTenant')
  BY DEF BytesExact, Sums, BytesIndexed, BytesIn, MapThenSumSet, MapThenFoldSet
<1> QED BY <1>1, <1>2

(* An empty index adds up to nothing.                                      *)
LEMMA NothingSums ==
  ASSUME NEW w, NEW per, DOMAIN w = {}, \A t \in Tenants : per[t] = 0
  PROVE  Sums(w, 0, per)
<1>1. \A t \in Tenants : {k \in DOMAIN w : TenantOf[k] = t} = {} OBVIOUS
<1> QED BY <1>1, SumEmpty DEF Sums

(* The byte counters of put_with_id and rebuild_index grow by what the     *)
(* entry grows by.                                                         *)
LEMMA AddKeepsBytes ==
  ASSUME IndexOK, used \subseteq Keys, BytesExact, NEW k \in used, NEW s \in Nat, Added(k, s)
  PROVE  BytesExact'
<1>1. PICK e \in Entry : e.bytes = IndexedBytes(k) + s /\ AddToIndex(k, e, s) BY DEF Added
<1>2. /\ DOMAIN index' = DOMAIN index \cup {k} /\ index'[k] = e
      /\ \A l \in DOMAIN index \ {k} : index'[l] = index[l]
  BY <1>1 DEF AddToIndex, With
<1>3. /\ IsFiniteSet(DOMAIN index) /\ IsFiniteSet(DOMAIN index')
      /\ \A l \in DOMAIN index : index[l].bytes \in Nat
      /\ \A l \in DOMAIN index' : index'[l].bytes \in Nat
  <2>1. DOMAIN index \subseteq Keys /\ DOMAIN index' \subseteq Keys BY <1>2 DEF IndexOK
  <2> QED BY <1>2, <2>1, KeysAssumption, FS_Subset DEF IndexOK, Entry
<1>4. IndexedBytes(k) \in Nat BY <1>3 DEF IndexedBytes
<1>5. ASSUME NEW S \in SUBSET DOMAIN index, NEW T, T = S \cup {k}, k \in DOMAIN index => k \in S
      PROVE  BytesIn(index', T) = BytesIn(index, S) + s
  <2> DEFINE R == S \ {k}
  <2>1. R = T \ {k} /\ R \subseteq DOMAIN index /\ T \subseteq DOMAIN index' /\ k \in T
    BY <1>2, <1>5
  <2>2. IsFiniteSet(R) /\ IsFiniteSet(T) /\ IsFiniteSet(S) BY <1>3, <2>1, FS_Subset
  <2>3. BytesIn(index', T) = e.bytes + BytesIn(index', R)
    <3>1. \A l \in T : index'[l].bytes \in Nat BY <1>3, <2>1
    <3> QED BY <1>2, <2>1, <2>2, <3>1, SumRemove
  <2>4. BytesIn(index', R) = BytesIn(index, R)
    <3>1. \A l \in R : index'[l].bytes = index[l].bytes BY <1>2, <2>1
    <3> QED BY <2>2, <3>1, SumSame
  <2>5. BytesIn(index, S) = IndexedBytes(k) + BytesIn(index, R)
    <3>1. \A l \in S : index[l].bytes \in Nat BY <1>3
    <3>2. CASE k \in S BY <2>2, <3>1, <3>2, SumRemove DEF IndexedBytes
    <3>3. CASE k \notin S
      <4>1. R = S /\ IndexedBytes(k) = 0 BY <1>5, <3>3 DEF IndexedBytes
      <4>2. BytesIn(index, S) \in Nat BY <2>2, <3>1, SumType
      <4> QED BY <4>1, <4>2
    <3> QED BY <3>2, <3>3
  <2>6. BytesIn(index, R) \in Nat BY <1>3, <2>1, <2>2, SumType
  <2> QED BY <1>1, <1>4, <2>3, <2>4, <2>5, <2>6
<1>6. total' = total + s BY <1>1 DEF AddToIndex
<1>7. total' = BytesIn(index', DOMAIN index')
  BY <1>2, <1>5, <1>6, BytesAreSums DEF Sums
<1>8. ASSUME NEW t \in Tenants
      PROVE  perTenant'[t] = BytesIn(index', {l \in DOMAIN index' : TenantOf[l] = t})
  <2> DEFINE S == {l \in DOMAIN index : TenantOf[l] = t}
             T == {l \in DOMAIN index' : TenantOf[l] = t}
  <2> SUFFICES perTenant'[t] = BytesIn(index', T) OBVIOUS
  <2>1. perTenant[t] = BytesIn(index, S) BY BytesAreSums DEF Sums
  <2>2. CASE TenantOf[k] = t
    <3>1. T = S \cup {k} /\ S \in SUBSET DOMAIN index /\ (k \in DOMAIN index => k \in S)
      BY <1>2, <2>2
    <3>2. perTenant'[t] = perTenant[t] + s BY <1>1, <2>2 DEF AddToIndex, IndexOK
    <3> HIDE DEF S, T
    <3> QED BY <1>5, <2>1, <3>1, <3>2
  <2>3. CASE TenantOf[k] # t
    <3>1. T = S /\ k \notin S BY <1>2, <2>3
    <3>2. perTenant'[t] = perTenant[t] BY <1>1, <2>3 DEF AddToIndex, IndexOK
    <3>3. IsFiniteSet(S) BY <1>3, FS_Subset
    <3>4. \A l \in S : index'[l].bytes = index[l].bytes BY <1>2, <3>1
    <3> HIDE DEF S, T
    <3>5. BytesIn(index', S) = BytesIn(index, S) BY <3>3, <3>4, SumSame
    <3> QED BY <2>1, <3>1, <3>2, <3>5
  <2> QED BY <2>2, <2>3
<1> QED BY <1>7, <1>8, BytesAreSums DEF Sums

(* remove_from_index takes off what the entry was charged with: there is   *)
(* always that much, so the subtraction never saturates.                   *)
LEMMA RemoveKeepsBytes ==
  ASSUME IndexOK, used \subseteq Keys, BytesExact, NEW k, RemoveFromIndex(k)
  PROVE  BytesExact'
<1>1. CASE k \notin DOMAIN index
  BY <1>1, BytesAreSums DEF RemoveFromIndex, indexVars
<1>2. CASE k \in DOMAIN index
  <2>1. /\ DOMAIN index' = DOMAIN index \ {k}
        /\ \A l \in DOMAIN index' : index'[l] = index[l]
    BY <1>2 DEF RemoveFromIndex, Without
  <2>2. /\ IsFiniteSet(DOMAIN index) /\ \A l \in DOMAIN index : index[l].bytes \in Nat
        /\ k \in Keys
    <3>1. DOMAIN index \subseteq Keys BY DEF IndexOK
    <3> QED BY <1>2, <3>1, KeysAssumption, FS_Subset DEF IndexOK, Entry
  <2>3. ASSUME NEW S \in SUBSET DOMAIN index
        PROVE  /\ BytesIn(index', S \ {k}) = BytesIn(index, S \ {k})
               /\ BytesIn(index, S \ {k}) \in Nat
               /\ k \in S => BytesIn(index, S) = index[k].bytes + BytesIn(index, S \ {k})
    <3>1. IsFiniteSet(S) /\ IsFiniteSet(S \ {k}) BY <2>2, FS_Subset
    <3>2. \A l \in S \ {k} : index'[l].bytes = index[l].bytes BY <2>1
    <3>3. \A l \in S : index[l].bytes \in Nat BY <2>2
    <3> QED BY <3>1, <3>2, <3>3, SumSame, SumType, SumRemove
  <2>4. total' = BytesIn(index', DOMAIN index')
    <3>1. total = index[k].bytes + BytesIn(index, DOMAIN index \ {k})
      BY <1>2, <2>3, BytesAreSums DEF Sums
    <3>2. total' = Monus(total, index[k].bytes) BY <1>2 DEF RemoveFromIndex
    <3>3. index[k].bytes \in Nat /\ BytesIn(index, DOMAIN index \ {k}) \in Nat
      BY <1>2, <2>2, <2>3
    <3>4. total' = BytesIn(index, DOMAIN index \ {k}) BY <3>1, <3>2, <3>3 DEF Monus
    <3> QED BY <2>1, <2>3, <3>4
  <2>5. ASSUME NEW t \in Tenants
        PROVE  perTenant'[t] = BytesIn(index', {l \in DOMAIN index' : TenantOf[l] = t})
    <3> DEFINE S == {l \in DOMAIN index : TenantOf[l] = t}
               T == {l \in DOMAIN index' : TenantOf[l] = t}
    <3> SUFFICES perTenant'[t] = BytesIn(index', T) OBVIOUS
    <3>1. perTenant[t] = BytesIn(index, S) /\ S \in SUBSET DOMAIN index /\ T = S \ {k}
      BY <2>1, BytesAreSums DEF Sums
    <3>2. CASE TenantOf[k] = t
      <4>1. k \in S BY <1>2, <3>2
      <4>2. perTenant'[t] = Monus(perTenant[t], index[k].bytes)
        BY <1>2, <3>2 DEF RemoveFromIndex, IndexOK
      <4> HIDE DEF S, T
      <4>3. /\ perTenant[t] = index[k].bytes + BytesIn(index, T)
            /\ BytesIn(index, T) \in Nat /\ BytesIn(index', T) = BytesIn(index, T)
        BY <2>3, <3>1, <4>1
      <4>4. index[k].bytes \in Nat BY <1>2, <2>2
      <4>5. perTenant'[t] = BytesIn(index, T) BY <4>2, <4>3, <4>4 DEF Monus
      <4> QED BY <4>3, <4>5
    <3>3. CASE TenantOf[k] # t
      <4>1. T = S BY <3>1, <3>3
      <4>2. perTenant'[t] = perTenant[t] BY <1>2, <3>3 DEF RemoveFromIndex, IndexOK
      <4> HIDE DEF S, T
      <4>3. BytesIn(index', T) = BytesIn(index, T) BY <2>3, <3>1
      <4> QED BY <3>1, <4>1, <4>2, <4>3
    <3> QED BY <3>2, <3>3
  <2> QED BY <2>4, <2>5, BytesAreSums DEF Sums
<1> QED BY <1>1, <1>2

(* The totals used for quotas never drift from what the entries add up to, *)
(* double removals, restarts and re-indexing included.                     *)
THEOREM BytesCounted == Spec => []BytesExact
<1>1. Init => BytesExact BY NothingSums, BytesAreSums DEF Init
<1>2. ASSUME IInv, BytesExact, [Next]_vars PROVE BytesExact'
  <2> USE <1>2 DEF IInv, TypeOK
  <2>1. CASE UNCHANGED indexVars BY <2>1, BytesAreSums DEF indexVars
  <2>2. ASSUME NEW p \in Clients, pc[p] = "meta", Added(key[p], size[p]) PROVE BytesExact'
    <3>1. key[p] \in used /\ size[p] \in Nat
      BY <2>2 DEF Reserved, Committing, LocalsOK, Procs
    <3> QED BY <2>2, <3>1, AddKeepsBytes
  <2>3. ASSUME NEW k \in used, NEW s \in Nat, Added(k, s) PROVE BytesExact'
    BY <2>3, AddKeepsBytes
  <2>4. ASSUME NEW k, RemoveFromIndex(k) PROVE BytesExact'
    BY <2>4, RemoveKeepsBytes
  <2>5. CASE Reset BY <2>5, NothingSums, BytesAreSums DEF Reset
  <2> QED BY <2>1, <2>2, <2>3, <2>4, <2>5, StepOfIndex
<1> QED BY <1>1, <1>2, Invariance, PTL DEF Spec

-----------------------------------------------------------------------------
(* The ceilings: whoever takes the store above one of them does not give   *)
(* the mutex back before it is within them again.                          *)
Filling == EvictPoints \cup {"rebuild"}
Bounded == OverCeiling => \E p \in Procs : pc[p] \in Filling

(* Only EvictDone, or a crash, ends an eviction or a rebuild_index.        *)
LEMMA EvictionEnds ==
  ASSUME IInv, [Next]_vars, NEW p \in Procs, pc[p] \in Filling
  PROVE  pc'[p] \in Filling \/ pc'[Opener] = "rebuild" \/ EvictDone(p)
<1> USE DEF Filling, EvictPoints
<1>1. pc \in [Procs -> Points] /\ Opener \in Procs /\ Reaper \in Procs
      /\ Clients \subseteq Procs /\ pc[Reaper] \notin Filling
  BY DEF IInv, TypeOK, LocalsOK, Roles, Procs
<1>2. ASSUME NEW q \in Clients,
             Put(q) \/ PutPreview(q) \/ PreviewRefused(q) \/ PutStep(q) \/ Get(q) \/ Read(q) \/ Delete(q)
      PROVE  pc'[p] \in Filling
  BY <1>1, <1>2 DEF Put, PutPreview, BeginPut, PreviewRefused, PutStep, Stage, StageFails,
     Rename, RenameFails, WriteMeta, WriteMetaFails, ReturnError, Get, Read, Delete, BeginRemove,
     StartRemoval, At
<1>3. ASSUME NEW q \in Procs, EvictStep(q) \/ RemoveStep(q)
      PROVE  pc'[p] \in Filling \/ EvictDone(p)
  BY <1>1, <1>3 DEF EvictStep, BeginEvict, StartRemoval, Evicted, EvictDone, RemoveStep, Unlink,
     RemoveDir, RemoveFails, InRemoveDirAll, RemoveDirAllEnds, Unindex, At
<1>4. CASE ReapStep \/ OpenStep
  BY <1>1, <1>4 DEF ReapStep, ReapScan, ReapNext, BeginRemove, StartRemoval, ReapDone, OpenStep,
     RebuildDir, DropDir, SkipDirs, RebuildDone, At
<1>5. CASE Restart BY <1>1, <1>5 DEF Restart
<1>6. CASE Tick \/ UNCHANGED vars BY <1>6 DEF Tick, vars
<1> QED BY <1>2, <1>3, <1>4, <1>5, <1>6 DEF Next

(* A step that adds nothing to the index takes no counter above a ceiling. *)
LEMMA RemoveKeepsBelow ==
  ASSUME IndexOK, used \subseteq Keys, NEW k, RemoveFromIndex(k), OverCeiling'
  PROVE  OverCeiling
<1>1. CASE k \notin DOMAIN index BY <1>1 DEF RemoveFromIndex, indexVars, OverCeiling
<1>2. CASE k \in DOMAIN index
  <2>1. IsFiniteSet(DOMAIN index) BY EntriesFinite
  <2>2. DOMAIN index' = DOMAIN index \ {k} BY <1>2 DEF RemoveFromIndex, Without
  <2>3. Cardinality(DOMAIN index') <= Cardinality(DOMAIN index)
        /\ Cardinality(DOMAIN index') \in Nat /\ Cardinality(DOMAIN index) \in Nat
    BY <2>1, <2>2, FS_Subset, FS_CardinalityType
  <2>4. index[k].bytes \in Nat /\ total \in Nat BY <1>2 DEF IndexOK, Entry
  <2>5. total' \in Nat /\ total' <= total
    BY <1>2, <2>4 DEF RemoveFromIndex, Monus
  <2> QED BY <2>3, <2>4, <2>5, LimitsAssumption DEF OverCeiling
<1> QED BY <1>1, <1>2

(* evict_locked keeps the store within its global ceilings: each time the  *)
(* mutex is free, whatever has been stored, indexed at start-up or lost.   *)
THEOREM CeilingsHold == Spec => []StoreBounded
<1>1. ASSUME DOMAIN index = {}, BytesExact PROVE ~OverCeiling
  <2>1. total = 0 BY <1>1, BytesAreSums, SumEmpty DEF Sums
  <2>2. Cardinality(DOMAIN index) = 0 BY <1>1, FS_EmptySet
  <2> QED BY <2>1, <2>2, LimitsAssumption DEF OverCeiling
<1>2. Init => Bounded
  <2> SUFFICES ASSUME Init PROVE ~OverCeiling BY DEF Bounded
  <2>1. Cardinality(DOMAIN index) = 0 /\ total = 0 BY FS_EmptySet DEF Init
  <2> QED BY <2>1, LimitsAssumption DEF OverCeiling
<1>3. ASSUME IInv, BytesExact, Bounded, [Next]_vars PROVE Bounded'
  <2> SUFFICES ASSUME OverCeiling' PROVE \E p \in Procs : pc'[p] \in Filling
    BY DEF Bounded
  <2>1. Clients \subseteq Procs /\ Opener \in Procs BY DEF Procs
  <2>2. IndexOK /\ used \subseteq Keys BY <1>3 DEF IInv, TypeOK
  <2>3. CASE OverCeiling
    <3>1. PICK p \in Procs : pc[p] \in Filling BY <1>3, <2>3 DEF Bounded
    <3>2. ~EvictDone(p)
      <4>1. EvictDone(p) => DOMAIN index = {} BY <2>3 DEF EvictDone, EvictionOver
      <4> QED BY <4>1, <1>1, <1>3, <2>3
    <3>3. "rebuild" \in Filling BY DEF Filling
    <3> QED BY <1>3, <2>1, <3>1, <3>2, <3>3, EvictionEnds
  <2>4. CASE ~OverCeiling
    <3>1. ~UNCHANGED indexVars BY <2>4 DEF indexVars, OverCeiling
    <3>2. \A k : ~RemoveFromIndex(k) BY <2>2, <2>4, RemoveKeepsBelow
    <3> QED BY <1>3, <2>1, <3>1, <3>2, StepOfIndex DEF Filling, EvictPoints
  <2> QED BY <2>3, <2>4
<1>4. IInv /\ Bounded => StoreBounded
  BY ProcsAssumption DEF IInv, Exclusion, Bounded, StoreBounded, Holding, Filling
<1> QED BY <1>2, <1>3, <1>4, Invariance, BytesCounted, PTL DEF Spec

-----------------------------------------------------------------------------
(* Who may work on an object.  Only documents get previews, so an upload   *)
(* or a template being stored is new, and nobody else has its key.         *)
Sized == \A p \in Clients : pc[p] \in Committing => size[p] \in Sizes
JobsAreDocuments == \A p \in Clients : job[p] # NoKey => KindOf[job[p]] = "out"
FreshUploads ==
  \A p \in Clients : pc[p] \in Committing /\ KindOf[key[p]] # "out" =>
    /\ key[p] \notin DOMAIN index /\ key[p] \notin queue
    /\ \A q \in Procs \ {p} : key[q] # key[p]
Uploads == Sized /\ JobsAreDocuments /\ FreshUploads

(* A put of a new object, or of a preview next to a document, is as said.  *)
LEMMA BeginPutKeepsUploads ==
  ASSUME IInv, Uploads, NEW p \in Clients, NEW k, NEW n, NEW s \in Sizes,
         BeginPut(p, k, n, s), k \in Keys \ used \/ KindOf[k] = "out"
  PROVE  Uploads'
<1>1. /\ pc \in [Procs -> Points]
      /\ key \in [Procs -> used \cup {NoKey}] /\ size \in [Procs -> Nat]
      /\ job \in [Clients -> used \cup {NoKey}] /\ p \in Procs /\ Clients \subseteq Procs
      /\ queue \subseteq used /\ DOMAIN index \subseteq used /\ NoKey \notin Keys
  BY KeysAssumption DEF IInv, TypeOK, LocalsOK, IndexOK, Procs
<1>2. /\ pc' = [pc EXCEPT ![p] = "stage"] /\ key' = [key EXCEPT ![p] = k]
      /\ size' = [size EXCEPT ![p] = s] /\ job' = [job EXCEPT ![p] = NoKey]
      /\ index' = index /\ queue' = queue
  BY DEF BeginPut, At, indexVars
<1>3. \A q \in Clients \ {p} : pc'[q] \notin Committing
  <2>1. lock = Free BY DEF BeginPut, MutexFree
  <2> QED BY <1>1, <1>2, <2>1, ProcsAssumption DEF IInv, Exclusion, Holding
<1>4. Sized' BY <1>1, <1>2, <1>3 DEF Sized
<1>5. JobsAreDocuments' BY <1>1, <1>2 DEF Uploads, JobsAreDocuments
<1>6. FreshUploads' BY <1>1, <1>2, <1>3 DEF FreshUploads
<1> QED BY <1>4, <1>5, <1>6 DEF Uploads

(* Every step keeps it.                                                    *)
LEMMA UploadsStep == IInv /\ Uploads /\ [Next]_vars => Uploads'
<1> SUFFICES ASSUME IInv, Uploads, [Next]_vars PROVE Uploads'
  OBVIOUS
<1>0. /\ pc \in [Procs -> Points]
      /\ key \in [Procs -> used \cup {NoKey}] /\ size \in [Procs -> Nat]
      /\ job \in [Clients -> used \cup {NoKey}] /\ Clients \subseteq Procs
      /\ Reaper \in Procs \ Clients /\ Opener \in Procs \ Clients /\ Opener # Reaper
      /\ used \subseteq Keys /\ NoKey \notin Keys /\ IndexOK
      /\ Exclusion /\ Free \notin Procs
  BY KeysAssumption, ProcsAssumption DEF IInv, TypeOK, LocalsOK, IndexOK, Procs
<1>1. ASSUME NEW p \in Clients, Put(p) \/ PutPreview(p) PROVE Uploads'
  <2>1. CASE Put(p) BY <2>1, <1>0, BeginPutKeepsUploads DEF Put
  <2>2. CASE PutPreview(p)
    <3>1. job[p] # NoKey => KindOf[job[p]] = "out" BY DEF Uploads, JobsAreDocuments
    <3> QED BY <2>2, <3>1, <1>0, BeginPutKeepsUploads DEF PutPreview
  <2> QED BY <1>1, <2>1, <2>2
<1> USE DEF Uploads, Sized, JobsAreDocuments, FreshUploads, Committing, Exclusion, EvictPoints,
        Holding, Points, At, Forget, indexVars, localVars
<1>2. ASSUME NEW p \in Clients, PreviewRefused(p) \/ PutStep(p) PROVE Uploads'
  <2>1. CASE PreviewRefused(p) BY <1>0, <2>1 DEF PreviewRefused
  <2>2. CASE Stage(p) \/ Rename(p) BY <1>0, <2>2 DEF Stage, Rename
  <2>3. CASE StageFails(p) \/ RenameFails(p) \/ WriteMetaFails(p)
    BY <1>0, <2>3 DEF StageFails, RenameFails, WriteMetaFails, ReturnError
  <2>4. CASE WriteMeta(p) BY <1>0, <2>4 DEF WriteMeta
  <2> QED BY <1>2, <2>1, <2>2, <2>3, <2>4 DEF PutStep
<1>3. ASSUME NEW p \in Clients, Get(p) \/ Read(p) \/ Delete(p) PROVE Uploads'
  <2>1. CASE Get(p) \/ Delete(p)
    <3>1. \A q \in Procs : pc[q] \notin Committing BY <1>0, <2>1 DEF Get, Delete, MutexFree
    <3>2. \A q \in Clients : pc'[q] \notin Committing
      BY <1>0, <2>1, <3>1 DEF Get, Delete, BeginRemove, StartRemoval
    <3>3. \A q \in Clients : job'[q] \in {job[q], NoKey} BY <1>0, <2>1 DEF Get, Delete
    <3> QED BY <3>2, <3>3
  <2>2. CASE Read(p)
    <3>1. \A q \in Clients : pc[q] \in Committing => key[q] \in used
      BY DEF IInv, Reserved
    <3> QED BY <1>0, <2>2, <3>1 DEF Read
  <2> QED BY <1>3, <2>1, <2>2
<1>4. ASSUME NEW p \in Procs, EvictStep(p) \/ RemoveStep(p) PROVE Uploads'
  <2>1. CASE BeginEvict(p) \/ Evicted(p)
    <3>1. \A q \in Procs : pc[q] \notin Committing /\ pc'[q] \notin Committing
      BY <1>0, <2>1 DEF BeginEvict, StartRemoval, Evicted
    <3>2. job' = job BY <2>1 DEF BeginEvict, Evicted
    <3> QED BY <1>0, <3>1, <3>2
  <2>2. CASE EvictDone(p) BY <1>0, <2>2 DEF EvictDone
  <2>3. CASE Unlink(p) \/ RemoveDir(p) \/ RemoveFails(p)
    BY <1>0, <2>3 DEF Unlink, RemoveDir, RemoveFails, InRemoveDirAll, RemoveDirAllEnds
  <2>4. CASE Unindex(p)
    <3>1. \A q \in Procs : pc[q] \notin Committing BY <1>0, <2>4 DEF Unindex, MutexFree
    <3>2. \A q \in Clients : pc'[q] \notin Committing BY <1>0, <2>4, <3>1 DEF Unindex
    <3> QED BY <2>4, <3>2 DEF Unindex
  <2> QED BY <1>4, <2>1, <2>2, <2>3, <2>4 DEF EvictStep, RemoveStep
<1>5. CASE ReapStep
  BY <1>0, <1>5 DEF ReapStep, ReapScan, ReapNext, ReapDone, BeginRemove, StartRemoval, MutexFree,
     ExpiredKeys
<1>6. CASE OpenStep
  <2>1. \A q \in Clients : pc[q] = "idle" /\ pc'[q] = "idle"
    BY <1>0, <1>6 DEF OpenStep, RebuildDir, DropDir, SkipDirs, RebuildDone, IInv, Rebuilding
  <2>2. job' = job BY <1>6 DEF OpenStep, RebuildDir, DropDir, SkipDirs, RebuildDone
  <2> QED BY <2>1, <2>2
<1>7. CASE Restart BY <1>0, <1>7 DEF Restart
<1>8. CASE Tick \/ UNCHANGED vars BY <1>0, <1>8 DEF Tick, vars
<1> QED BY <1>1, <1>2, <1>3, <1>4, <1>5, <1>6, <1>7, <1>8 DEF Next

(* It holds from the start.                                                *)
LEMMA UploadsAlways == Spec => []Uploads
<1>1. Init => Uploads
  BY DEF Init, Uploads, Sized, JobsAreDocuments, FreshUploads, Committing, Procs
<1> QED BY <1>1, UploadsStep, Invariance, PTL DEF Spec

-----------------------------------------------------------------------------
(* What a removal leaves behind.  Directories that are not indexed, not    *)
(* being removed and not what a failed removal has left have no readable   *)
(* metadata; a removal has listed the metadata it finds, and has unlinked  *)
(* it, or failed, before it touches the index.                             *)
MetaGone ==
  pc[Opener] # "rebuild" =>
    \A k \in DOMAIN disk \ (DOMAIN index \cup leftovers) :
      KindOf[k] # "out" /\ ~BeingRemoved(k) => ~ReadableMeta(disk[k])
MetaListed ==
  \A p \in Procs : key[p] \in DOMAIN disk /\ KindOf[key[p]] # "out" =>
    /\ InRemoveDirAll(p) /\ ReadableMeta(disk[key[p]]) => "meta.json" \in todo[p]
    /\ pc[p] \in {"unindex", "drop"} => ~ReadableMeta(disk[key[p]]) \/ key[p] \in leftovers
NoMetaLeft == MetaGone /\ MetaListed

(* A put creates an empty directory, or adds to that of a document.        *)
LEMMA BeginPutKeepsNoMeta ==
  ASSUME IInv, NoMetaLeft, NEW p \in Clients, NEW k, NEW n, NEW s,
         BeginPut(p, k, n, s)
  PROVE  NoMetaLeft'
<1>1. /\ pc \in [Procs -> Points]
      /\ key \in [Procs -> used \cup {NoKey}] /\ p \in Procs /\ pc[Opener] # "rebuild"
  BY ProcsAssumption DEF IInv, TypeOK, LocalsOK, Procs, BeginPut, MutexFree, Exclusion, Holding, EvictPoints
<1>2. /\ pc' = [pc EXCEPT ![p] = "stage"] /\ key' = [key EXCEPT ![p] = k] /\ pc[p] = "idle"
      /\ index' = index /\ todo' = todo /\ leftovers' = leftovers
  BY DEF BeginPut, At, indexVars
<1>3. \A l : BeingRemoved(l)' <=> BeingRemoved(l)
  BY <1>1, <1>2 DEF BeingRemoved
<1>4. \A l \in DOMAIN disk' : IF l \in DOMAIN disk THEN disk'[l] = disk[l]
                             ELSE ~ReadableMeta(disk'[l])
  BY DEF BeginPut, With, ReadableMeta
<1>5. MetaGone'
  <2> SUFFICES ASSUME NEW l \in DOMAIN disk' \ (DOMAIN index' \cup leftovers'), KindOf[l] # "out",
                      ~BeingRemoved(l)'
               PROVE  ~ReadableMeta(disk'[l])
    BY DEF MetaGone
  <2> QED BY <1>1, <1>2, <1>3, <1>4 DEF NoMetaLeft, MetaGone
<1>6. MetaListed'
  <2> SUFFICES ASSUME NEW q \in Procs, key'[q] \in DOMAIN disk', KindOf[key'[q]] # "out"
               PROVE  /\ InRemoveDirAll(q)' /\ ReadableMeta(disk'[key'[q]]) => "meta.json" \in todo'[q]
                      /\ pc'[q] \in {"unindex", "drop"} =>
                           ~ReadableMeta(disk'[key'[q]]) \/ key'[q] \in leftovers'
    BY DEF MetaListed
  <2>1. CASE q = p BY <1>1, <1>2, <2>1 DEF InRemoveDirAll
  <2>2. CASE q # p
    <3>1. key'[q] = key[q] /\ pc'[q] = pc[q] /\ todo'[q] = todo[q] BY <1>1, <1>2, <2>2
    <3> QED BY <1>2, <1>4, <3>1 DEF NoMetaLeft, MetaListed, InRemoveDirAll
  <2> QED BY <2>1, <2>2
<1> QED BY <1>5, <1>6 DEF NoMetaLeft

(* Every step keeps it: files go before the directory, the directory       *)
(* before the index entry, and a removal that fails is remembered.         *)
LEMMA NoMetaLeftStep == IInv /\ Uploads /\ NoMetaLeft /\ [Next]_vars => NoMetaLeft'
<1> SUFFICES ASSUME IInv, Uploads, NoMetaLeft, [Next]_vars PROVE NoMetaLeft'
  OBVIOUS
<1>0. /\ pc \in [Procs -> Points]
      /\ key \in [Procs -> used \cup {NoKey}] /\ todo \in [Procs -> SUBSET FileNames]
      /\ Clients \subseteq Procs /\ Reaper \in Procs /\ Opener \in Procs /\ Reaper # Opener
      /\ Opener \notin Clients /\ used \subseteq Keys /\ NoKey \notin Keys
      /\ DOMAIN disk \subseteq used /\ IndexOK
      /\ Exclusion /\ Free \notin Procs
  BY KeysAssumption, ProcsAssumption DEF IInv, TypeOK, LocalsOK, DiskOK, Procs
<1>1. ASSUME NEW p \in Clients, Put(p) \/ PutPreview(p) PROVE NoMetaLeft'
  BY <1>1, BeginPutKeepsNoMeta DEF Put, PutPreview
<1> USE DEF NoMetaLeft, MetaGone, MetaListed, BeingRemoved, InRemoveDirAll, RemoveDirAllEnds,
            StartRemoval, FilesOf, At, Forget, indexVars, diskVars, localVars, ReadableMeta
<1>2. ASSUME NEW p \in Clients, PreviewRefused(p) \/ PutStep(p) PROVE NoMetaLeft'
  <2>1. CASE PreviewRefused(p) BY <1>0, <2>1 DEF PreviewRefused
  <2>2. CASE Stage(p) BY <1>0, <2>2 DEF Stage
  <2>3. CASE Rename(p) BY <1>0, <2>3 DEF Rename, With, Payload
  <2>4. CASE StageFails(p) \/ RenameFails(p)
    BY <1>0, <2>4 DEF StageFails, RenameFails, ReturnError
  <2>5. CASE WriteMetaFails(p) BY <1>0, <2>5 DEF WriteMetaFails, ReturnError, Without
  <2>6. CASE WriteMeta(p)
    BY <1>0, <2>6 DEF WriteMeta, AddToIndex, With, Uploads, FreshUploads, Committing
  <2> QED BY <1>2, <2>1, <2>2, <2>3, <2>4, <2>5, <2>6 DEF PutStep
<1>3. ASSUME NEW p \in Clients, Get(p) \/ Read(p) \/ Delete(p) PROVE NoMetaLeft'
  <2>1. CASE Get(p) BY <1>0, <2>1 DEF Get
  <2>2. CASE Read(p) BY <1>0, <2>2 DEF Read
  <2>3. CASE Delete(p) BY <1>0, <2>3 DEF Delete, BeginRemove
  <2> QED BY <1>3, <2>1, <2>2, <2>3
<1>4. ASSUME NEW p \in Procs, EvictStep(p) \/ RemoveStep(p) PROVE NoMetaLeft'
  <2>1. CASE BeginEvict(p) BY <1>0, <2>1 DEF BeginEvict
  <2>6. CASE Evicted(p)
    <3>1. DOMAIN index' = DOMAIN index \ {key[p]}
      BY <1>0, <2>6, RemoveFromIndexOK DEF Evicted
    <3> QED BY <1>0, <2>6, <3>1 DEF Evicted
  <2>2. CASE EvictDone(p) BY <1>0, <2>2 DEF EvictDone
  <2>3. CASE Unlink(p) BY <1>0, <2>3 DEF Unlink, Without
  <2>4. CASE RemoveDir(p) BY <1>0, <2>4 DEF RemoveDir, Without
  <2>7. CASE RemoveFails(p) BY <1>0, <2>7 DEF RemoveFails
  <2>5. CASE Unindex(p)
    <3>1. DOMAIN index' = DOMAIN index \ {key[p]}
      BY <1>0, <2>5, RemoveFromIndexOK DEF Unindex
    <3> QED BY <1>0, <2>5, <3>1 DEF Unindex
  <2> QED BY <1>4, <2>1, <2>2, <2>3, <2>4, <2>5, <2>6, <2>7 DEF EvictStep, RemoveStep
<1>5. CASE ReapStep
  BY <1>0, <1>5 DEF ReapStep, ReapScan, ReapNext, ReapDone, BeginRemove
<1>6. CASE RebuildDir \/ DropDir \/ SkipDirs
  <2>1. \A q \in Procs : pc'[q] \in {"idle", "rebuild"} /\ pc'[Opener] = "rebuild"
    BY <1>0, <1>6 DEF RebuildDir, DropDir, SkipDirs, IInv, Rebuilding
  <2> QED BY <1>0, <2>1
<1>7. CASE RebuildDone
  BY <1>0, <1>7 DEF RebuildDone, IInv, Rebuilding
<1>8. CASE Restart BY <1>0, <1>8 DEF Restart
<1>9. CASE Tick \/ UNCHANGED vars BY <1>0, <1>9 DEF Tick, vars
<1> QED BY <1>1, <1>2, <1>3, <1>4, <1>5, <1>6, <1>7, <1>8, <1>9 DEF Next, OpenStep

(* It holds from the start.                                                *)
LEMMA NoMetaLeftAlways == Spec => []NoMetaLeft
<1>1. Init => NoMetaLeft
  BY DEF Init, NoMetaLeft, MetaGone, MetaListed
<1> QED BY <1>1, NoMetaLeftStep, Invariance, UploadsAlways, PTL DEF Spec

(* Nothing that has left the store comes back unless its removal failed:   *)
(* whatever delete, the reaper and evict_locked do at once, no metadata of *)
(* an upload or a template that has left the index stays on disk for       *)
(* rebuild_index to find, save in a directory that remove_dir_all could    *)
(* not remove or read_dir not list, whose error the store has dropped.     *)
THEOREM NothingComesBack == Spec => []GoneForGood
<1>1. NoMetaLeft => GoneForGood
  BY DEF NoMetaLeft, MetaGone, GoneForGood
<1> QED BY <1>1, NoMetaLeftAlways, PTL

-----------------------------------------------------------------------------
(* What a crash would leave.  An indexed object nobody is removing is      *)
(* saved; a put adds its payload to a directory in which there was none of *)
(* that name, and keeps apart from metadata, when no object's own file is  *)
(* called meta.json.                                                       *)
PlainNames == \A k \in Keys : MainName[k] = "main"

SavedOnDisk(k) ==
  /\ k \in DOMAIN disk /\ ReadableMeta(disk[k])
  /\ disk[k]["meta.json"].entry.created = index[k].created
  /\ disk[k]["meta.json"].entry.expires = index[k].expires
  /\ PayloadBytes(disk[k]) >= index[k].bytes
Saved == \A k \in DOMAIN index : ~BeingRemoved(k) => SavedOnDisk(k)
PayloadNamed == \A p \in Clients : pc[p] \in Committing => name[p] \in PayloadNames
Staged ==
  \A p \in Clients : ~BeingRemoved(key[p]) =>
    /\ pc[p] \in {"stage", "rename"} /\ key[p] \in DOMAIN disk =>
         name[p] \notin DOMAIN disk[key[p]]
    /\ pc[p] = "meta" =>
         /\ key[p] \in DOMAIN disk /\ SizeIn(disk[key[p]], name[p]) = size[p]
         /\ PayloadBytes(disk[key[p]]) >= IndexedBytes(key[p]) + size[p]
OnDisk == Saved /\ PayloadNamed /\ Staged

(* What the files of a directory add up to.                                *)
Directory(dir) == DOMAIN dir \subseteq FileNames /\ \A n \in DOMAIN dir : dir[n] \in Content

(* Its files, and so its payload, have natural sizes.                      *)
LEMMA SizesAreNaturals ==
  ASSUME NEW dir, Directory(dir)
  PROVE  /\ \A n : SizeIn(dir, n) \in Nat
         /\ PayloadBytes(dir) \in Nat
<1>1. \A n : SizeIn(dir, n) \in Nat BY DEF Directory, SizeIn, Content
<1> QED BY <1>1 DEF PayloadBytes

(* A payload under a new name adds its size and spares the metadata.       *)
LEMMA PayloadAdded ==
  ASSUME NEW dir, Directory(dir), NEW n \in PayloadNames, n \notin DOMAIN dir, NEW s \in Nat
  PROVE  LET new == With(dir, n, Payload(s)) IN
         /\ PayloadBytes(new) = PayloadBytes(dir) + s /\ SizeIn(new, n) = s
         /\ ReadableMeta(new) <=> ReadableMeta(dir)
         /\ ReadableMeta(dir) => new["meta.json"] = dir["meta.json"]
<1> DEFINE new == With(dir, n, Payload(s))
<1>1. SizeIn(dir, n) = 0 BY DEF SizeIn
<1>2. \A m : SizeIn(new, m) = IF m = n THEN s ELSE SizeIn(dir, m)
  BY DEF SizeIn, With, Payload
<1>3. "meta.json" \in DOMAIN new <=> "meta.json" \in DOMAIN dir BY DEF With, PayloadNames
<1>4. "meta.json" \in DOMAIN dir => new["meta.json"] = dir["meta.json"]
  BY DEF With, PayloadNames
<1> HIDE DEF new
<1>5. PayloadBytes(new) = PayloadBytes(dir) + s
  BY <1>1, <1>2, SizesAreNaturals DEF PayloadBytes, PayloadNames
<1> QED BY <1>2, <1>3, <1>4, <1>5 DEF ReadableMeta, new

(* Taking one away takes off its size.                                     *)
LEMMA PayloadDropped ==
  ASSUME NEW dir, Directory(dir), NEW n \in PayloadNames
  PROVE  LET new == Without(dir, n) IN
         /\ PayloadBytes(new) = PayloadBytes(dir) - SizeIn(dir, n)
         /\ ReadableMeta(new) <=> ReadableMeta(dir)
         /\ ReadableMeta(dir) => new["meta.json"] = dir["meta.json"]
<1> DEFINE new == Without(dir, n)
<1>1. \A m : SizeIn(new, m) = IF m = n THEN 0 ELSE SizeIn(dir, m)
  BY DEF SizeIn, Without
<1>2. "meta.json" \in DOMAIN new <=> "meta.json" \in DOMAIN dir BY DEF Without, PayloadNames
<1>3. "meta.json" \in DOMAIN dir => new["meta.json"] = dir["meta.json"]
  BY DEF Without, PayloadNames
<1> HIDE DEF new
<1>4. PayloadBytes(new) = PayloadBytes(dir) - SizeIn(dir, n)
  BY <1>1, SizesAreNaturals DEF PayloadBytes, PayloadNames
<1> QED BY <1>2, <1>3, <1>4 DEF ReadableMeta, new

(* New metadata leave the payload alone.                                   *)
LEMMA MetadataAdded ==
  ASSUME NEW dir, NEW e
  PROVE  LET new == With(dir, "meta.json", Metadata(e)) IN
         /\ PayloadBytes(new) = PayloadBytes(dir)
         /\ ReadableMeta(new) /\ new["meta.json"].entry = e
<1> DEFINE new == With(dir, "meta.json", Metadata(e))
<1>1. \A n \in PayloadNames : SizeIn(new, n) = SizeIn(dir, n)
  BY DEF SizeIn, With, PayloadNames
<1>2. ReadableMeta(new) /\ new["meta.json"].entry = e BY DEF ReadableMeta, With, Metadata
<1> HIDE DEF new
<1>3. PayloadBytes(new) = PayloadBytes(dir) BY <1>1 DEF PayloadBytes, PayloadNames
<1> QED BY <1>2, <1>3 DEF new

(* A step that leaves index and directories alone keeps OnDisk, unless it  *)
(* ends a removal or begins a put.                                         *)
LEMMA OnDiskKept ==
  ASSUME OnDisk, index' = index, disk' = disk,
         \A l : BeingRemoved(l) => BeingRemoved(l)',
         \A p \in Clients :
           \/ pc'[p] \notin Committing
           \/ /\ key'[p] = key[p] /\ name'[p] = name[p] /\ size'[p] = size[p]
              /\ pc'[p] = pc[p] \/ (pc[p] = "stage" /\ pc'[p] = "rename")
  PROVE  OnDisk'
<1>1. \A k : SavedOnDisk(k)' <=> SavedOnDisk(k) BY DEF SavedOnDisk
<1>2. Saved' BY <1>1 DEF OnDisk, Saved
<1>3. PayloadNamed' BY DEF OnDisk, PayloadNamed, Committing
<1>4. \A k : IndexedBytes(k)' = IndexedBytes(k) BY DEF IndexedBytes
<1>5. Staged'
  <2> SUFFICES ASSUME NEW p \in Clients, ~BeingRemoved(key[p])', pc'[p] \in Committing
               PROVE  /\ pc'[p] \in {"stage", "rename"} /\ key'[p] \in DOMAIN disk' =>
                           name'[p] \notin DOMAIN disk'[key'[p]]
                      /\ pc'[p] = "meta" =>
                           /\ key'[p] \in DOMAIN disk' /\ SizeIn(disk'[key'[p]], name'[p]) = size'[p]
                           /\ PayloadBytes(disk'[key'[p]]) >= IndexedBytes(key[p])' + size'[p]
    BY DEF Staged, Committing
  <2>1. ~BeingRemoved(key[p])
    <3>1. key'[p] = key[p] OBVIOUS
    <3> QED BY <3>1 DEF BeingRemoved
  <2>2. IndexedBytes(key[p])' = IndexedBytes(key[p]) BY DEF IndexedBytes
  <2> HIDE DEF BeingRemoved
  <2> QED BY <2>1, <2>2 DEF OnDisk, Staged
<1> QED BY <1>2, <1>3, <1>5 DEF OnDisk

(* The parts of the invariant the next lemmas use.                         *)
LEMMA StoreTypes ==
  ASSUME IInv
  PROVE  /\ pc \in [Procs -> Points]
         /\ key \in [Procs -> used \cup {NoKey}] /\ name \in [Procs -> FileNames]
         /\ size \in [Procs -> Nat] /\ todo \in [Procs -> SUBSET FileNames]
         /\ job \in [Clients -> used \cup {NoKey}]
         /\ Clients \subseteq Procs /\ Reaper \in Procs \ Clients /\ Opener \in Procs \ Clients
         /\ Reaper # Opener /\ Free \notin Procs
         /\ used \subseteq Keys /\ NoKey \notin Keys /\ queue \subseteq used
         /\ DOMAIN index \subseteq used /\ IndexOK
         /\ \A k \in DOMAIN index : index[k] \in Entry
         /\ DOMAIN disk \subseteq used /\ \A k \in DOMAIN disk : Directory(disk[k])
         /\ Exclusion
         /\ now \in Nat
BY KeysAssumption, ProcsAssumption, LimitsAssumption
   DEF IInv, TypeOK, LocalsOK, DiskOK, IndexOK, BoundsOK, Procs, Directory

(* The steps of a put that change its directory, one by one.               *)
LEMMA BeginPutKeepsOnDisk ==
  ASSUME IInv, OnDisk, NEW p \in Clients, NEW k, NEW n \in PayloadNames, NEW s,
         BeginPut(p, k, n, s)
  PROVE  OnDisk'
<1>1. /\ pc' = [pc EXCEPT ![p] = "stage"] /\ key' = [key EXCEPT ![p] = k] /\ pc[p] = "idle"
      /\ name' = [name EXCEPT ![p] = n] /\ size' = [size EXCEPT ![p] = s]
      /\ index' = index /\ lock = Free
  BY DEF BeginPut, At, indexVars, MutexFree
<1>2. \A l : BeingRemoved(l)' <=> BeingRemoved(l)
  BY <1>1, StoreTypes DEF BeingRemoved
<1>3. \A l \in DOMAIN disk : l \in DOMAIN disk' /\ disk'[l] = disk[l] BY DEF BeginPut, With
<1>4. k \in DOMAIN disk' /\ n \notin DOMAIN disk'[k] BY DEF BeginPut, With
<1>5. \A q \in Clients \ {p} : pc'[q] \notin Committing
  BY <1>1, StoreTypes DEF Exclusion, Holding, EvictPoints
<1>6. Saved'
  <2> SUFFICES ASSUME NEW l \in DOMAIN index, ~BeingRemoved(l) PROVE SavedOnDisk(l)'
    BY <1>1, <1>2 DEF Saved
  <2>1. SavedOnDisk(l) BY DEF OnDisk, Saved
  <2> QED BY <1>1, <1>3, <2>1 DEF SavedOnDisk
<1>7. PayloadNamed' BY <1>1, <1>5, StoreTypes DEF PayloadNamed
<1>8. Staged'
  <2>1. pc'[p] = "stage" /\ key'[p] = k /\ name'[p] = n BY <1>1, StoreTypes
  <2> QED BY <1>4, <1>5, <2>1 DEF Staged, Committing
<1> QED BY <1>6, <1>7, <1>8 DEF OnDisk

(* The rename adds the payload that the commit will charge for.            *)
LEMMA RenameKeepsOnDisk ==
  ASSUME IInv, OnDisk, NEW p \in Clients, Rename(p)
  PROVE  OnDisk'
<1> DEFINE k == key[p]
           new == With(disk[k], name[p], Payload(size[p]))
<1>1. /\ pc' = [pc EXCEPT ![p] = "meta"] /\ pc[p] = "rename" /\ k \in DOMAIN disk
      /\ disk' = [disk EXCEPT ![k] = new]
      /\ UNCHANGED <<key, name, size, index>>
  BY DEF Rename, At, indexVars, localVars
<1>2. \A l : BeingRemoved(l)' <=> BeingRemoved(l)
  BY <1>1, StoreTypes DEF BeingRemoved
<1>3. \A l : IndexedBytes(l)' = IndexedBytes(l) BY <1>1 DEF IndexedBytes
<1>4. \A q \in Clients \ {p} : pc'[q] \notin Committing
  BY <1>1, StoreTypes DEF Exclusion, Holding, EvictPoints, Committing
<1>5. name[p] \in PayloadNames BY <1>1 DEF OnDisk, PayloadNamed, Committing
<1>6. ASSUME ~BeingRemoved(k)
      PROVE  /\ PayloadBytes(new) = PayloadBytes(disk[k]) + size[p] /\ SizeIn(new, name[p]) = size[p]
             /\ ReadableMeta(new) <=> ReadableMeta(disk[k])
             /\ ReadableMeta(disk[k]) => new["meta.json"] = disk[k]["meta.json"]
  <2>1. name[p] \notin DOMAIN disk[k] BY <1>1, <1>6 DEF OnDisk, Staged
  <2>2. size[p] \in Nat /\ Directory(disk[k]) BY <1>1, StoreTypes
  <2> QED BY <1>5, <2>1, <2>2, PayloadAdded
<1>7. PayloadBytes(disk[k]) \in Nat /\ size[p] \in Nat
  BY <1>1, StoreTypes, SizesAreNaturals
<1> HIDE DEF new
<1>8. disk'[k] = new /\ DOMAIN disk' = DOMAIN disk /\ \A l \in DOMAIN disk \ {k} : disk'[l] = disk[l]
  BY <1>1
<1>9. Saved'
  <2> SUFFICES ASSUME NEW l \in DOMAIN index, ~BeingRemoved(l) PROVE SavedOnDisk(l)'
    BY <1>1, <1>2 DEF Saved
  <2>1. SavedOnDisk(l) BY DEF OnDisk, Saved
  <2>2. CASE l # k BY <1>1, <1>8, <2>1, <2>2 DEF SavedOnDisk
  <2>3. CASE l = k
    <3>1. index[l].bytes \in Nat BY StoreTypes DEF Entry
    <3> QED BY <1>1, <1>6, <1>7, <1>8, <2>1, <2>3, <3>1 DEF SavedOnDisk
  <2> QED BY <2>2, <2>3
<1>10. PayloadNamed' BY <1>1, <1>4, <1>5, StoreTypes DEF PayloadNamed
<1>11. Staged'
  <2> SUFFICES ASSUME ~BeingRemoved(k)
               PROVE  /\ k \in DOMAIN disk' /\ SizeIn(disk'[k], name[p]) = size[p]
                      /\ PayloadBytes(disk'[k]) >= IndexedBytes(k) + size[p]
    <3>1. pc'[p] = "meta" BY <1>1, StoreTypes
    <3>2. \A q \in Clients \ {p} : pc'[q] \notin {"stage", "rename", "meta"} BY <1>4 DEF Committing
    <3>3. IndexedBytes(key[p])' = IndexedBytes(k) BY <1>1 DEF IndexedBytes
    <3>4. BeingRemoved(key[p])' <=> BeingRemoved(k) BY <1>1, <1>2
    <3> HIDE DEF k
    <3> QED BY <1>1, <3>1, <3>2, <3>3, <3>4 DEF Staged, k
  <2>1. IndexedBytes(k) \in Nat /\ IndexedBytes(k) <= PayloadBytes(disk[k])
    <3>1. CASE k \notin DOMAIN index BY <1>7, <3>1 DEF IndexedBytes
    <3>2. CASE k \in DOMAIN index
      <4>1. SavedOnDisk(k) BY <3>2 DEF OnDisk, Saved
      <4>2. index[k].bytes \in Nat BY <3>2, StoreTypes DEF Entry
      <4> QED BY <3>2, <4>1, <4>2 DEF SavedOnDisk, IndexedBytes
    <3> QED BY <3>1, <3>2
  <2>2. SizeIn(disk'[k], name[p]) = size[p] /\ PayloadBytes(disk'[k]) = PayloadBytes(disk[k]) + size[p]
    BY <1>6, <1>8
  <2> QED BY <1>1, <1>7, <1>8, <2>1, <2>2
<1> QED BY <1>9, <1>10, <1>11 DEF OnDisk

(* The commit: metadata that say what the entry says, and a payload that   *)
(* the entry is charged no more than.                                      *)
LEMMA WriteMetaKeepsOnDisk ==
  ASSUME IInv, OnDisk, NEW p \in Clients, WriteMeta(p)
  PROVE  OnDisk'
<1> DEFINE k == key[p]
           e == NewEntry(k, size[p])
           new == With(disk[k], "meta.json", Metadata(e))
<1>1. /\ pc' = [pc EXCEPT ![p] = "evict"] /\ pc[p] = "meta" /\ k \in DOMAIN disk
      /\ disk' = [disk EXCEPT ![k] = new] /\ index' = With(index, k, e)
      /\ UNCHANGED <<key, name, size>>
  BY DEF WriteMeta, At, localVars, AddToIndex
<1>2. \A l : BeingRemoved(l)' <=> BeingRemoved(l)
  BY <1>1, StoreTypes DEF BeingRemoved
<1>3. \A q \in Clients : pc'[q] \notin Committing
  BY <1>1, StoreTypes DEF Exclusion, Holding, EvictPoints, Committing
<1>4. e.bytes = IndexedBytes(k) + size[p]
  <2>1. CASE k \in DOMAIN index
    BY <2>1, StoreTypes DEF NewEntry, IndexedBytes, Entry
  <2>2. CASE k \notin DOMAIN index
    <3>1. size[p] \in Nat BY StoreTypes
    <3> QED BY <2>2, <3>1 DEF NewEntry, IndexedBytes
  <2> QED BY <2>1, <2>2
<1>5. PayloadBytes(new) = PayloadBytes(disk[k]) /\ ReadableMeta(new) /\ new["meta.json"].entry = e
  BY MetadataAdded
<1> HIDE DEF new, e
<1>6. disk'[k] = new /\ DOMAIN disk' = DOMAIN disk /\ \A l \in DOMAIN disk \ {k} : disk'[l] = disk[l]
  BY <1>1
<1>7. /\ DOMAIN index' = DOMAIN index \cup {k} /\ index'[k] = e
      /\ \A l \in DOMAIN index \ {k} : index'[l] = index[l]
  BY <1>1 DEF With
<1>8. Saved'
  <2> SUFFICES ASSUME NEW l \in DOMAIN index', ~BeingRemoved(l) PROVE SavedOnDisk(l)'
    BY <1>2 DEF Saved
  <2>1. CASE l # k
    <3>1. l \in DOMAIN index /\ SavedOnDisk(l) BY <1>7, <2>1 DEF OnDisk, Saved
    <3> QED BY <1>6, <1>7, <2>1, <3>1 DEF SavedOnDisk
  <2>2. CASE l = k
    <3>1. PayloadBytes(disk[k]) >= IndexedBytes(k) + size[p]
      BY <1>1, <2>2 DEF OnDisk, Staged
    <3>2. PayloadBytes(disk'[k]) >= index'[k].bytes BY <1>4, <1>5, <1>6, <1>7, <3>1
    <3> QED BY <1>1, <1>5, <1>6, <1>7, <2>2, <3>2 DEF SavedOnDisk
  <2> QED BY <2>1, <2>2
<1>9. PayloadNamed' /\ Staged' BY <1>3 DEF PayloadNamed, Staged, Committing
<1> QED BY <1>8, <1>9 DEF OnDisk

(* A failed commit takes its payload back, if anything.                    *)
LEMMA WriteMetaFailsKeepsOnDisk ==
  ASSUME IInv, OnDisk, NEW p \in Clients, WriteMetaFails(p)
  PROVE  OnDisk'
<1> DEFINE k == key[p]
           new == Without(disk[k], name[p])
<1>1. /\ pc' = [pc EXCEPT ![p] = "idle"] /\ pc[p] = "meta" /\ index' = index
      /\ key' = [key EXCEPT ![p] = NoKey]
      /\ disk' = disk \/ (k \in DOMAIN disk /\ disk' = [disk EXCEPT ![k] = new])
  BY DEF WriteMetaFails, ReturnError, Forget, indexVars
<1>2. \A l : BeingRemoved(l)' <=> BeingRemoved(l)
  BY <1>1, StoreTypes DEF BeingRemoved
<1>3. \A q \in Clients : pc'[q] \notin Committing
  BY <1>1, StoreTypes DEF Exclusion, Holding, EvictPoints, Committing
<1>4. name[p] \in PayloadNames BY <1>1 DEF OnDisk, PayloadNamed, Committing
<1>5. Saved'
  <2> SUFFICES ASSUME NEW l \in DOMAIN index, ~BeingRemoved(l) PROVE SavedOnDisk(l)'
    BY <1>1, <1>2 DEF Saved
  <2>1. SavedOnDisk(l) BY DEF OnDisk, Saved
  <2>2. CASE l # k \/ disk' = disk BY <1>1, <2>1, <2>2 DEF SavedOnDisk
  <2>3. CASE l = k /\ disk' # disk
    <3>1. Directory(disk[k]) /\ k \in DOMAIN disk BY <1>1, <2>3, StoreTypes
    <3>2. /\ PayloadBytes(new) = PayloadBytes(disk[k]) - SizeIn(disk[k], name[p])
          /\ ReadableMeta(new) <=> ReadableMeta(disk[k])
          /\ ReadableMeta(disk[k]) => new["meta.json"] = disk[k]["meta.json"]
      BY <1>4, <3>1, PayloadDropped
    <3>3. /\ SizeIn(disk[k], name[p]) = size[p] /\ PayloadBytes(disk[k]) >= index[k].bytes + size[p]
      BY <1>1, <2>3 DEF OnDisk, Staged, IndexedBytes
    <3>4. PayloadBytes(disk[k]) \in Nat /\ index[k].bytes \in Nat /\ size[p] \in Nat
      BY <2>3, <3>1, SizesAreNaturals, StoreTypes DEF Entry
    <3> HIDE DEF new
    <3>5. PayloadBytes(new) >= index[k].bytes BY <3>2, <3>3, <3>4
    <3>6. disk'[k] = new /\ DOMAIN disk' = DOMAIN disk BY <1>1, <2>3, <3>1
    <3> QED BY <1>1, <2>1, <2>3, <3>2, <3>5, <3>6 DEF SavedOnDisk
  <2> QED BY <2>2, <2>3
<1>6. PayloadNamed' /\ Staged' BY <1>3 DEF PayloadNamed, Staged, Committing
<1> QED BY <1>5, <1>6 DEF OnDisk

(* A removal only touches what is being removed.                           *)
LEMMA RemovalKeepsOnDisk ==
  ASSUME IInv, OnDisk, NEW p \in Procs, Unlink(p) \/ RemoveDir(p) \/ RemoveFails(p)
  PROVE  OnDisk'
<1> DEFINE k == key[p]
<1>1. /\ \/ pc[p] = "unlink" /\ pc' \in {pc, [pc EXCEPT ![p] = "unindex"]}
         \/ pc[p] = "purge" /\ pc' \in {pc, [pc EXCEPT ![p] = "drop"]}
      /\ UNCHANGED <<key, name, size, index>>
      /\ \A l \in DOMAIN disk \ {k} : l \in DOMAIN disk' /\ disk'[l] = disk[l]
      /\ DOMAIN disk' \subseteq DOMAIN disk
  <2>1. CASE Unlink(p) BY <2>1 DEF Unlink, InRemoveDirAll, indexVars
  <2>2. CASE RemoveDir(p)
    BY <2>2 DEF RemoveDir, InRemoveDirAll, RemoveDirAllEnds, indexVars, localVars, Without
  <2>3. CASE RemoveFails(p)
    BY <2>3 DEF RemoveFails, InRemoveDirAll, RemoveDirAllEnds, indexVars, localVars
  <2> QED BY <2>1, <2>2, <2>3
<1>2. \A l : BeingRemoved(l)' <=> BeingRemoved(l)
  BY <1>1, StoreTypes DEF BeingRemoved
<1>3. BeingRemoved(k) BY <1>1 DEF BeingRemoved
<1>4. Saved'
  <2> SUFFICES ASSUME NEW l \in DOMAIN index, ~BeingRemoved(l) PROVE SavedOnDisk(l)'
    BY <1>1, <1>2 DEF Saved
  <2>1. SavedOnDisk(l) BY DEF OnDisk, Saved
  <2>2. l # k BY <1>3
  <2> QED BY <1>1, <2>1, <2>2 DEF SavedOnDisk
<1>5. PayloadNamed' BY <1>1, StoreTypes DEF OnDisk, PayloadNamed, Committing
<1>6. Staged'
  <2> SUFFICES ASSUME NEW q \in Clients, ~BeingRemoved(key[q])
               PROVE  /\ pc'[q] \in {"stage", "rename"} /\ key[q] \in DOMAIN disk' =>
                           name[q] \notin DOMAIN disk'[key[q]]
                      /\ pc'[q] = "meta" =>
                           /\ key[q] \in DOMAIN disk' /\ SizeIn(disk'[key[q]], name[q]) = size[q]
                           /\ PayloadBytes(disk'[key[q]]) >= IndexedBytes(key[q]) + size[q]
    <3>1. \A q \in Clients : BeingRemoved(key[q])' <=> BeingRemoved(key[q]) BY <1>1, <1>2
    <3>2. \A q \in Clients : IndexedBytes(key[q])' = IndexedBytes(key[q]) BY <1>1 DEF IndexedBytes
    <3> QED BY <1>1, <3>1, <3>2 DEF Staged
  <2>1. key[q] # k /\ q # p BY <1>3
  <2>2. pc'[q] = pc[q] BY <1>1, <2>1, StoreTypes
  <2>3. key[q] \in DOMAIN disk' <=> key[q] \in DOMAIN disk BY <1>1, <2>1
  <2>4. key[q] \in DOMAIN disk => disk'[key[q]] = disk[key[q]] BY <1>1, <2>1
  <2> HIDE DEF k
  <2> QED BY <2>2, <2>3, <2>4 DEF OnDisk, Staged
<1> QED BY <1>4, <1>5, <1>6 DEF OnDisk

(* rebuild_index charges what it reads.                                    *)
LEMMA RebuildKeepsOnDisk ==
  ASSUME IInv, OnDisk, RebuildDir
  PROVE  OnDisk'
<1>1. PICK k \in queue :
        LET b == PayloadBytes(disk[k]) IN
        /\ ReadableMeta(disk[k])
        /\ AddToIndex(k, [disk[k]["meta.json"].entry EXCEPT !.bytes = b], b)
  BY DEF RebuildDir
<1>2. UNCHANGED <<pc, key, name, size, disk>> BY DEF RebuildDir, localVars, diskVars
<1>3. \A l : BeingRemoved(l)' <=> BeingRemoved(l) BY <1>2 DEF BeingRemoved
<1>4. /\ k \in DOMAIN disk /\ k \notin DOMAIN index
      /\ \A p \in Clients : pc[p] \notin Committing
  BY StoreTypes DEF IInv, Rebuilding, RebuildDir, Committing
<1> DEFINE b == PayloadBytes(disk[k])
           e == [disk[k]["meta.json"].entry EXCEPT !.bytes = b]
<1>5. b \in Nat /\ disk[k]["meta.json"].entry \in Entry
  BY <1>1, <1>4, StoreTypes, SizesAreNaturals DEF Directory, Content, ReadableMeta
<1>6. /\ e.bytes = b /\ e.created = disk[k]["meta.json"].entry.created
      /\ e.expires = disk[k]["meta.json"].entry.expires
  BY <1>5 DEF Entry
<1>7. index' = With(index, k, e) BY <1>1 DEF AddToIndex
<1> HIDE DEF e
<1>8. /\ DOMAIN index' = DOMAIN index \cup {k} /\ index'[k] = e
      /\ \A l \in DOMAIN index \ {k} : index'[l] = index[l]
  BY <1>7 DEF With
<1>9. Saved'
  <2> SUFFICES ASSUME NEW l \in DOMAIN index', ~BeingRemoved(l) PROVE SavedOnDisk(l)'
    BY <1>3 DEF Saved
  <2>1. CASE l = k BY <1>1, <1>2, <1>4, <1>5, <1>6, <1>8, <2>1 DEF SavedOnDisk
  <2>2. CASE l # k
    <3>1. SavedOnDisk(l) /\ l \in DOMAIN index BY <1>8, <2>2 DEF OnDisk, Saved
    <3> QED BY <1>2, <1>8, <2>2, <3>1 DEF SavedOnDisk
  <2> QED BY <2>1, <2>2
<1>10. PayloadNamed' /\ Staged' BY <1>2, <1>4 DEF PayloadNamed, Staged, Committing
<1> QED BY <1>9, <1>10 DEF OnDisk

(* What it removes, or fails to, is not indexed.                           *)
LEMMA DropKeepsOnDisk ==
  ASSUME IInv, OnDisk, DropDir
  PROVE  OnDisk'
<1>1. PICK k \in queue :
        \/ disk' = Without(disk, k)
        \/ \E kept \in SUBSET DOMAIN disk[k] :
             disk' = [disk EXCEPT ![k] = [n \in kept |-> disk[k][n]]]
  BY DEF DropDir
<1>2. UNCHANGED <<pc, key, name, size, index>> BY DEF DropDir, localVars, indexVars
<1>3. \A l : BeingRemoved(l)' <=> BeingRemoved(l) BY <1>2 DEF BeingRemoved
<1>4. k \notin DOMAIN index /\ \A p \in Clients : pc[p] \notin Committing
  BY StoreTypes DEF IInv, Rebuilding, DropDir, Committing
<1>5. \A l \in DOMAIN disk \ {k} : l \in DOMAIN disk' /\ disk'[l] = disk[l]
  <2>1. CASE disk' = Without(disk, k) BY <2>1 DEF Without
  <2>2. CASE \E kept \in SUBSET DOMAIN disk[k] :
               disk' = [disk EXCEPT ![k] = [n \in kept |-> disk[k][n]]]
    BY <2>2
  <2> QED BY <1>1, <2>1, <2>2
<1>6. Saved'
  <2> SUFFICES ASSUME NEW l \in DOMAIN index, ~BeingRemoved(l) PROVE SavedOnDisk(l)'
    BY <1>2, <1>3 DEF Saved
  <2>1. SavedOnDisk(l) /\ l # k BY <1>4 DEF OnDisk, Saved
  <2> QED BY <1>2, <1>5, <2>1 DEF SavedOnDisk
<1>7. PayloadNamed' /\ Staged' BY <1>2, <1>4 DEF PayloadNamed, Staged, Committing
<1> QED BY <1>6, <1>7 DEF OnDisk

(* Every step keeps what a crash would have to find.                       *)
LEMMA OnDiskStep ==
  ASSUME PlainNames, IInv, OnDisk, [Next]_vars
  PROVE  OnDisk'
<1>1. ASSUME NEW p \in Clients, Put(p) \/ PutPreview(p) PROVE OnDisk'
  <2>1. \A k \in Keys : MainName[k] \in PayloadNames BY DEF PlainNames, PayloadNames
  <2>2. Previews \subseteq PayloadNames BY KeysAssumption DEF PayloadNames
  <2>3. CASE Put(p) BY <2>1, <2>3, BeginPutKeepsOnDisk DEF Put
  <2>4. CASE PutPreview(p) BY <2>2, <2>4, BeginPutKeepsOnDisk DEF PutPreview
  <2> QED BY <1>1, <2>3, <2>4
<1>2. ASSUME NEW p \in Clients, PutStep(p) PROVE OnDisk'
  <2>1. CASE Stage(p)
    <3>1. /\ index' = index /\ disk' = disk /\ key' = key /\ name' = name /\ size' = size
          /\ pc[p] = "stage" /\ pc' = [pc EXCEPT ![p] = "rename"]
      BY <2>1 DEF Stage, At, indexVars, diskVars, localVars
    <3>2. \A l : BeingRemoved(l) => BeingRemoved(l)' BY <3>1, StoreTypes DEF BeingRemoved
    <3>3. \A q \in Clients : pc'[q] = pc[q] \/ (pc[q] = "stage" /\ pc'[q] = "rename")
      BY <3>1, StoreTypes
    <3> QED BY <3>1, <3>2, <3>3, OnDiskKept
  <2>2. CASE StageFails(p) \/ RenameFails(p)
    <3>1. /\ index' = index /\ disk' = disk /\ key' = [key EXCEPT ![p] = NoKey]
          /\ pc[p] \in {"stage", "rename"} /\ pc' = [pc EXCEPT ![p] = "idle"]
      BY <2>2 DEF StageFails, RenameFails, ReturnError, Forget, indexVars
    <3>2. \A l : BeingRemoved(l) => BeingRemoved(l)' BY <3>1, StoreTypes DEF BeingRemoved
    <3>3. \A q \in Clients : pc'[q] \notin Committing
      BY <3>1, StoreTypes DEF Exclusion, Holding, EvictPoints, Committing
    <3> QED BY <3>1, <3>2, <3>3, OnDiskKept
  <2> QED BY <1>2, <2>1, <2>2, RenameKeepsOnDisk, WriteMetaKeepsOnDisk,
             WriteMetaFailsKeepsOnDisk DEF PutStep
<1>3. ASSUME NEW p \in Clients, PreviewRefused(p) \/ Get(p) \/ Read(p) \/ Delete(p)
      PROVE  OnDisk'
  <2>1. /\ index' = index /\ disk' = disk /\ pc[p] \in {"idle", "read"}
        /\ \A q \in Procs \ {p} : /\ key'[q] = key[q] /\ name'[q] = name[q] /\ size'[q] = size[q]
                                  /\ pc'[q] = pc[q]
        /\ pc'[p] \notin Committing
    BY <1>3, StoreTypes DEF PreviewRefused, Get, Read, Delete, BeginRemove, StartRemoval, At, Forget,
       indexVars, diskVars, localVars, Committing
  <2>2. \A l : BeingRemoved(l) => BeingRemoved(l)' BY <2>1, StoreTypes DEF BeingRemoved
  <2> QED BY <2>1, <2>2, StoreTypes, OnDiskKept
<1>4. ASSUME NEW p \in Procs, BeginEvict(p) \/ EvictDone(p) PROVE OnDisk'
  <2>1. /\ index' = index /\ disk' = disk /\ pc[p] = "evict"
        /\ pc' = [pc EXCEPT ![p] = pc'[p]] /\ pc'[p] \notin Committing
        /\ \A q \in Procs \ {p} : key'[q] = key[q]
    BY <1>4, StoreTypes DEF BeginEvict, StartRemoval, EvictDone, At, Forget, indexVars, diskVars, Committing
  <2>2. \A q \in Clients : pc'[q] \notin Committing
    BY <2>1, StoreTypes DEF Exclusion, Holding, EvictPoints, Committing
  <2>3. \A l : BeingRemoved(l) => BeingRemoved(l)' BY <2>1, StoreTypes DEF BeingRemoved
  <2> QED BY <2>1, <2>2, <2>3, OnDiskKept
<1>8. ASSUME NEW p \in Procs, Evicted(p) \/ Unindex(p) PROVE OnDisk'
  <2>1. /\ pc[p] \in {"drop", "unindex"} /\ disk' = disk
        /\ pc' = [pc EXCEPT ![p] = pc'[p]] /\ pc'[p] \notin Committing
        /\ key' = [key EXCEPT ![p] = NoKey] /\ UNCHANGED used /\ RemoveFromIndex(key[p])
    BY <1>8, StoreTypes DEF Evicted, Unindex, At, Forget, diskVars, Committing
  <2>2. \A q \in Clients : pc'[q] \notin Committing
    <3>1. Evicted(p) => pc[p] = "drop" BY DEF Evicted, At
    <3>2. Unindex(p) => lock = Free BY DEF Unindex, MutexFree
    <3>3. \A q \in Clients \ {p} : pc[q] \notin Committing
      BY <1>8, <3>1, <3>2, StoreTypes DEF Exclusion, Holding, EvictPoints, Committing
    <3> QED BY <2>1, <3>3, StoreTypes
  <2>3. DOMAIN index' = DOMAIN index \ {key[p]} /\ \A l \in DOMAIN index' : index'[l] = index[l]
    BY <2>1, StoreTypes, RemoveFromIndexOK
  <2>4. \A l \in DOMAIN index' : BeingRemoved(l) => BeingRemoved(l)'
    BY <2>1, <2>3, StoreTypes DEF BeingRemoved
  <2>5. Saved'
    <3> SUFFICES ASSUME NEW l \in DOMAIN index', ~BeingRemoved(l) PROVE SavedOnDisk(l)'
      BY <2>4 DEF Saved
    <3>1. SavedOnDisk(l) BY <2>3 DEF OnDisk, Saved
    <3> QED BY <2>1, <2>3, <3>1 DEF SavedOnDisk
  <2>6. PayloadNamed' /\ Staged' BY <2>2 DEF PayloadNamed, Staged, Committing
  <2> QED BY <2>5, <2>6 DEF OnDisk
<1>5. CASE ReapStep \/ SkipDirs \/ RebuildDone
  <2>1. PICK p \in Procs \ Clients :
          /\ index' = index /\ disk' = disk
          /\ pc[p] \notin {"unlink", "unindex", "purge", "drop"}
          /\ \A q \in Procs \ {p} : /\ key'[q] = key[q] /\ name'[q] = name[q] /\ size'[q] = size[q]
                                    /\ pc'[q] = pc[q]
    <3>1. CASE ReapStep
      BY <3>1, StoreTypes DEF ReapStep, ReapScan, ReapNext, ReapDone, BeginRemove, StartRemoval, At,
         indexVars, diskVars, localVars
    <3>2. CASE SkipDirs \/ RebuildDone
      BY <3>2, StoreTypes DEF SkipDirs, RebuildDone, At, indexVars, diskVars, localVars
    <3> QED BY <1>5, <3>1, <3>2
  <2>2. \A l : BeingRemoved(l) => BeingRemoved(l)' BY <2>1 DEF BeingRemoved
  <2> QED BY <2>1, <2>2, StoreTypes, OnDiskKept
<1>6. CASE Restart
  <2>1. DOMAIN index' = {} BY <1>6 DEF Restart
  <2>2. \A q \in Clients : pc'[q] \notin Committing
    BY <1>6, StoreTypes DEF Restart, Committing
  <2> QED BY <2>1, <2>2 DEF OnDisk, Saved, PayloadNamed, Staged, Committing
<1>7. CASE Tick \/ UNCHANGED vars
  <2>1. UNCHANGED <<index, disk, pc, key, name, size>>
    BY <1>7 DEF Tick, vars, indexVars, diskVars, localVars
  <2>2. \A l : BeingRemoved(l) => BeingRemoved(l)' BY <2>1 DEF BeingRemoved
  <2> QED BY <2>1, <2>2, OnDiskKept
<1> QED BY <1>1, <1>2, <1>3, <1>4, <1>5, <1>6, <1>7, <1>8, RemovalKeepsOnDisk,
           RebuildKeepsOnDisk, DropKeepsOnDisk DEF Next, EvictStep, RemoveStep, OpenStep

(* It holds from the start.                                                *)
LEMMA OnDiskAlways == ASSUME PlainNames PROVE Spec => []OnDisk
<1>1. Init => OnDisk
  BY DEF Init, OnDisk, Saved, PayloadNamed, Staged, Committing, Procs
<1> QED BY <1>1, OnDiskStep, Invariance, PTL DEF Spec

(* A crash loses nothing that is indexed: while nobody works on an object, *)
(* its metadata on disk have its dates and its payload is at least what    *)
(* its tenant is charged for, as long as no upload is named meta.json.     *)
THEOREM CrashesLoseNothing == ASSUME PlainNames PROVE Spec => []Recoverable
<1>1. OnDisk => Recoverable
  BY DEF OnDisk, Saved, SavedOnDisk, Recoverable
<1> QED BY <1>1, OnDiskAlways, PTL
=============================================================================
