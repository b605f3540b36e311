------------------------------- MODULE Store -------------------------------
(***************************************************************************)
(* The on-disk store of src/src/store.rs: one directory per object under   *)
(* root/t_<tenant>/<kind>/<id>, an in-memory index behind one mutex, byte  *)
(* and entry quotas per tenant and for the whole store, and a reaper.      *)
(*                                                                         *)
(* put_with_id holds the mutex from the quota check to the end of the      *)
(* eviction; get, delete and reap hold it only while they look at the      *)
(* index and touch the directory without it.  A step is therefore one      *)
(* section under the mutex or one file operation, and every file operation *)
(* may fail.  A key stands for a (tenant, kind, id) triple: ids are ULIDs  *)
(* and never come back.                                                    *)
(***************************************************************************)
EXTENDS Integers, FiniteSetsExt

CONSTANTS
  Clients,          \* request handlers that may use the store at once
  Reaper,           \* the task of spawn_reaper
  Opener,           \* Store::open, run once at each start of the process
  Free,             \* the value of the mutex nobody holds
  Keys, NoKey,      \* the objects' keys, and no key
  Tenants,
  TenantOf, KindOf, \* the parts of a key
  MainName,         \* the name under which put stores a key's own file
  Previews,         \* the names of the previews stored next to a document
  Sizes,            \* sizes of the files
  Ttl,              \* retention of each kind
  MaxTenantBytes, MaxStoreBytes, MaxTenantEntries, MaxStoreEntries,
  MaxTime, MaxRestarts, MaxIoErrors  \* bounds of the model

Kinds == {"out", "assets", "tpl"}
PayloadNames == {"main", "page-1.png", "page-2.png"}
FileNames == PayloadNames \cup {"meta.json"}
Procs == Clients \cup {Reaper, Opener}

ASSUME ProcsAssumption ==
  /\ Reaper \notin Clients /\ Opener \notin Clients /\ Reaper # Opener
  /\ Free \notin Procs
ASSUME KeysAssumption ==
  /\ IsFiniteSet(Keys) /\ NoKey \notin Keys
  /\ TenantOf \in [Keys -> Tenants] /\ KindOf \in [Keys -> Kinds]
  /\ MainName \in [Keys -> {"main", "meta.json"}]
  /\ Previews \subseteq {"page-1.png", "page-2.png"}
ASSUME LimitsAssumption ==
  /\ Sizes \subseteq Nat /\ Ttl \in [Kinds -> Nat]
  /\ MaxTenantBytes \in Nat /\ MaxStoreBytes \in Nat
  /\ MaxTenantEntries \in Nat /\ MaxStoreEntries \in Nat
  /\ MaxTime \in Nat /\ MaxRestarts \in Nat /\ MaxIoErrors \in Nat

VARIABLES
  lock,             \* who holds the mutex around the index
  index,            \* Index.entries: a function on the indexed keys
  perTenant, perTenantEntries, total,   \* the other fields of Index
  disk,             \* existing directories, each a function on its file names
  strays,           \* bytes of the files nobody will rename out of root/tmp
  leftovers,        \* directories that outlived a removal or a rebuild that failed
  used,             \* ids minted so far
  pc, key, name, size, todo,  \* control and locals of each process
  job,              \* the document a client has stored and may add previews to
  queue,            \* keys the running reap or rebuild_index has still to visit
  now, restarts, ioErrors

indexVars == <<index, perTenant, perTenantEntries, total>>
localVars == <<key, name, size, todo>>
boundVars == <<now, restarts, ioErrors>>
diskVars == <<disk, strays, leftovers>>
vars == <<lock, indexVars, diskVars, used, pc, localVars, job, queue, boundVars>>

Entry == [bytes : Nat, created : Nat, expires : Nat]
Payload(s) == [kind |-> "payload", size |-> s]
Metadata(e) == [kind |-> "meta", entry |-> e]
Content == [kind : {"payload"}, size : Nat] \cup [kind : {"meta"}, entry : Entry]

-----------------------------------------------------------------------------
(* Helpers on functions whose domain changes, as the code's maps do.       *)

Without(f, x) == [y \in DOMAIN f \ {x} |-> f[y]]
With(f, x, v) == [y \in DOMAIN f \cup {x} |-> IF y = x THEN v ELSE f[y]]
Monus(a, b) == IF a >= b THEN a - b ELSE 0

(* Store::lock.                                                            *)
MutexFree == lock = Free

IsExpired(e) == e.expires <= now
Live(k) == k \in DOMAIN index /\ ~IsExpired(index[k])
ExpiredKeys == {k \in DOMAIN index : IsExpired(index[k])}

SizeIn(dir, n) == IF n \in DOMAIN dir /\ dir[n].kind = "payload" THEN dir[n].size ELSE 0
PayloadBytes(dir) ==
  SizeIn(dir, "main") + SizeIn(dir, "page-1.png") + SizeIn(dir, "page-2.png")
ReadableMeta(dir) == "meta.json" \in DOMAIN dir /\ dir["meta.json"].kind = "meta"

(* put_with_id, the two refusals.                                          *)
QuotaRefuses(k, s) ==
  \/ perTenant[TenantOf[k]] + s > MaxTenantBytes
  \/ k \notin DOMAIN index /\ perTenantEntries[TenantOf[k]] >= MaxTenantEntries

NewEntry(k, s) ==
  IF k \in DOMAIN index
  THEN [index[k] EXCEPT !.bytes = @ + s, !.expires = now + Ttl[KindOf[k]]]
  ELSE [bytes |-> s, created |-> now, expires |-> now + Ttl[KindOf[k]]]

(* The index update of put_with_id.  The variant charges the whole entry   *)
(* again.                                                                  *)
AddWholeEntry(k, e, s) ==
  /\ index' = With(index, k, e)
  /\ perTenant' = [perTenant EXCEPT ![TenantOf[k]] = @ + e.bytes]
  /\ total' = total + e.bytes
  /\ perTenantEntries' = IF k \in DOMAIN index THEN perTenantEntries
                         ELSE [perTenantEntries EXCEPT ![TenantOf[k]] = @ + 1]
AddToIndex(k, e, s) ==
  /\ index' = With(index, k, e)
  /\ perTenant' = [perTenant EXCEPT ![TenantOf[k]] = @ + s]
  /\ total' = total + s
  /\ perTenantEntries' = IF k \in DOMAIN index THEN perTenantEntries
                         ELSE [perTenantEntries EXCEPT ![TenantOf[k]] = @ + 1]

(* remove_from_index.  The variant updates the entry counter of a tenant   *)
(* whose entry was already gone.                                           *)
RemoveCountingBlindly(k) ==
  /\ index' = Without(index, k)
  /\ total' = IF k \in DOMAIN index THEN Monus(total, index[k].bytes) ELSE total
  /\ perTenant' = IF k \in DOMAIN index
                  THEN [perTenant EXCEPT ![TenantOf[k]] = Monus(@, index[k].bytes)]
                  ELSE perTenant
  /\ perTenantEntries' = [perTenantEntries EXCEPT ![TenantOf[k]] = @ - 1]
RemoveFromIndex(k) ==
  IF k \in DOMAIN index
  THEN /\ index' = Without(index, k)
       /\ total' = Monus(total, index[k].bytes)
       /\ perTenant' = [perTenant EXCEPT ![TenantOf[k]] = Monus(@, index[k].bytes)]
       /\ perTenantEntries' = [perTenantEntries EXCEPT ![TenantOf[k]] = Monus(@, 1)]
  ELSE UNCHANGED indexVars

OverCeiling == total > MaxStoreBytes \/ Cardinality(DOMAIN index) > MaxStoreEntries
(* The victim of evict_locked; the variants take expired objects only, and *)
(* the youngest.                                                           *)
Youngest == {k \in DOMAIN index : \A l \in DOMAIN index : index[k].created >= index[l].created}
OldestExpired == {k \in DOMAIN index : IsExpired(index[k])}
Oldest == {k \in DOMAIN index : \A l \in DOMAIN index : index[k].created <= index[l].created}

-----------------------------------------------------------------------------
Init ==
  /\ lock = Free
  /\ index = [k \in {} |-> 0]
  /\ perTenant = [t \in Tenants |-> 0] /\ perTenantEntries = [t \in Tenants |-> 0]
  /\ total = 0
  /\ disk = [k \in {} |-> 0] /\ strays = 0 /\ leftovers = {} /\ used = {}
  /\ pc = [p \in Procs |-> "idle"]
  /\ key = [p \in Procs |-> NoKey] /\ name = [p \in Procs |-> "main"]
  /\ size = [p \in Procs |-> 0] /\ todo = [p \in Procs |-> {}]
  /\ job = [p \in Clients |-> NoKey]
  /\ queue = {}
  /\ now = 0 /\ restarts = 0 /\ ioErrors = 0

(* A file operation fails; the model allows MaxIoErrors of these.          *)
IoError == ioErrors < MaxIoErrors /\ ioErrors' = ioErrors + 1

At(p, from, to) == pc[p] = from /\ pc' = [pc EXCEPT ![p] = to]
Forget(p) ==
  /\ key' = [key EXCEPT ![p] = NoKey] /\ name' = [name EXCEPT ![p] = "main"]
  /\ size' = [size EXCEPT ![p] = 0] /\ todo' = [todo EXCEPT ![p] = {}]

(* A variant of the next that lets go of the mutex after its checks.       *)
BeginPutLettingGo(p, k, n, s) ==
  /\ At(p, "idle", "stage")
  /\ MutexFree /\ UNCHANGED lock
  /\ ~QuotaRefuses(k, s)
  /\ disk' = IF k \in DOMAIN disk THEN disk ELSE With(disk, k, [f \in {} |-> 0])
  /\ key' = [key EXCEPT ![p] = k] /\ name' = [name EXCEPT ![p] = n]
  /\ size' = [size EXCEPT ![p] = s]
  /\ job' = [job EXCEPT ![p] = NoKey]
  /\ UNCHANGED <<indexVars, strays, leftovers, todo, queue, boundVars>>
(* put_with_id up to create_dir: take the mutex, check the quotas.  A      *)
(* refusal, or a file already there, returns an error and changes nothing. *)
BeginPut(p, k, n, s) ==
  /\ At(p, "idle", "stage")
  /\ MutexFree /\ lock' = p
  /\ ~QuotaRefuses(k, s)
  /\ k \in DOMAIN disk => n \notin DOMAIN disk[k]
  /\ disk' = IF k \in DOMAIN disk THEN disk ELSE With(disk, k, [f \in {} |-> 0])
  /\ key' = [key EXCEPT ![p] = k] /\ name' = [name EXCEPT ![p] = n]
  /\ size' = [size EXCEPT ![p] = s]
  /\ job' = [job EXCEPT ![p] = NoKey]
  /\ UNCHANGED <<indexVars, strays, leftovers, todo, queue, boundVars>>

(* put: a new object under a fresh id.                                     *)
Put(p) ==
  \E k \in Keys \ used, s \in Sizes :
    /\ BeginPut(p, k, MainName[k], s)
    /\ used' = used \cup {k}

(* put_with_id as store_result calls it: a preview next to the document    *)
(* this request has just stored.                                           *)
PutPreview(p) ==
  \E n \in Previews, s \in Sizes :
    /\ job[p] # NoKey
    /\ BeginPut(p, job[p], n, s)
    /\ UNCHANGED used

(* A preview that is refused ends the request; the document stays.         *)
PreviewRefused(p) ==
  /\ pc[p] = "idle" /\ MutexFree /\ job[p] # NoKey
  /\ \E s \in Sizes : QuotaRefuses(job[p], s)
  /\ job' = [job EXCEPT ![p] = NoKey]
  /\ UNCHANGED <<lock, indexVars, diskVars, used, pc, localVars, queue, boundVars>>

ReturnError(p) ==
  /\ pc' = [pc EXCEPT ![p] = "idle"] /\ lock' = Free /\ Forget(p)
  /\ UNCHANGED <<indexVars, leftovers, used, job, queue, now, restarts>>

(* write_atomic, first half: the payload goes to a file of root/tmp.       *)
Stage(p) ==
  /\ At(p, "stage", "rename")
  /\ UNCHANGED <<lock, indexVars, diskVars, used, localVars, job, queue, boundVars>>

(* fs::write fails half way: the .part file stays where it is.             *)
StageFails(p) ==
  /\ pc[p] = "stage" /\ IoError
  /\ strays' = strays + size[p]
  /\ ReturnError(p) /\ UNCHANGED disk

(* write_atomic, second half: the rename.                                  *)
Rename(p) ==
  /\ At(p, "rename", "meta")
  /\ key[p] \in DOMAIN disk
  /\ disk' = [disk EXCEPT ![key[p]] = With(@, name[p], Payload(size[p]))]
  /\ UNCHANGED <<lock, indexVars, strays, leftovers, used, localVars, job, queue, boundVars>>

(* It fails when the directory is gone, or by itself.  The temporary file  *)
(* is removed; if that fails too it stays.                                 *)
RenameFails(p) ==
  /\ pc[p] = "rename"
  /\ \/ key[p] \notin DOMAIN disk /\ UNCHANGED <<strays, ioErrors>>
     \/ IoError /\ strays' \in {strays, strays + size[p]}
  /\ ReturnError(p) /\ UNCHANGED disk

(* write_meta and the index update that follows it under the mutex.  A     *)
(* request that has stored a document remembers its id.                    *)
WriteMeta(p) ==
  LET k == key[p]  e == NewEntry(key[p], size[p]) IN
  /\ At(p, "meta", "evict")
  /\ k \in DOMAIN disk
  /\ disk' = [disk EXCEPT ![k] = With(@, "meta.json", Metadata(e))]
  /\ AddToIndex(k, e, size[p])
  /\ job' = IF KindOf[k] = "out" THEN [job EXCEPT ![p] = k] ELSE job
  /\ UNCHANGED <<lock, strays, leftovers, used, localVars, queue, boundVars>>

(* A variant whose clean-up takes the whole directory.                     *)
WriteMetaFailsDropsDir(p) ==
  LET k == key[p] IN
  /\ pc[p] = "meta" /\ k \in DOMAIN disk /\ IoError
  /\ disk' = Without(disk, k)
  /\ ReturnError(p) /\ UNCHANGED strays

(* write_meta fails: the payload is removed, unless that fails too, and    *)
(* the error returned.                                                     *)
WriteMetaFails(p) ==
  LET k == key[p] IN
  /\ pc[p] = "meta"
  /\ \/ k \notin DOMAIN disk /\ UNCHANGED <<disk, ioErrors>>
     \/ /\ k \in DOMAIN disk /\ IoError
        /\ disk' \in {disk, [disk EXCEPT ![k] = Without(@, name[p])]}
  /\ ReturnError(p) /\ UNCHANGED strays

(* Both callers of remove_dir_all begin by listing the directory.          *)
StartRemoval(p, k, at, files) ==
  /\ pc' = [pc EXCEPT ![p] = at]
  /\ key' = [key EXCEPT ![p] = k] /\ todo' = [todo EXCEPT ![p] = files]
FilesOf(k) == IF k \in DOMAIN disk THEN DOMAIN disk[k] ELSE {}

(* A variant that forgets the directory of what it evicts.                 *)
BeginEvictKeepingFiles(p) ==
  /\ pc[p] = "evict" /\ OverCeiling
  /\ \E k \in Oldest : StartRemoval(p, k, "purge", {})
  /\ UNCHANGED <<lock, indexVars, diskVars, used, name, size, job, queue, boundVars>>
(* One turn of evict_locked, with the mutex held: an object with the least *)
(* created_at goes, its directory first, by the steps of any removal (see  *)
(* Unlink).  Ties are broken by the order of a hash map.                   *)
BeginEvict(p) ==
  /\ pc[p] = "evict" /\ OverCeiling
  /\ \E k \in Oldest : StartRemoval(p, k, "purge", FilesOf(k))
  /\ UNCHANGED <<lock, indexVars, diskVars, used, name, size, job, queue, boundVars>>

(* The directory is gone, or could not be removed: the entry goes.         *)
Evicted(p) ==
  /\ At(p, "drop", "evict")
  /\ RemoveFromIndex(key[p])
  /\ Forget(p)
  /\ UNCHANGED <<lock, diskVars, used, job, queue, boundVars>>

(* The loop's end; the variant looks at the ceiling of bytes only.         *)
EvictionOverBytes == total <= MaxStoreBytes
EvictionOver == ~OverCeiling \/ DOMAIN index = {}

(* The end of evict_locked, of put_with_id and of rebuild_index: the mutex *)
(* is released.                                                            *)
EvictDone(p) ==
  /\ At(p, "evict", "idle")
  /\ EvictionOver
  /\ lock' = Free
  /\ Forget(p)
  /\ UNCHANGED <<indexVars, diskVars, used, job, queue, boundVars>>

-----------------------------------------------------------------------------
(* get: check_live under the mutex, then a read without it.                *)
Get(p) ==
  \E k \in used :
    \E n \in {MainName[k]} \cup (IF KindOf[k] = "out" THEN Previews ELSE {}) :
      /\ At(p, "idle", "read")
      /\ MutexFree /\ Live(k)
      /\ key' = [key EXCEPT ![p] = k] /\ name' = [name EXCEPT ![p] = n]
      /\ job' = [job EXCEPT ![p] = NoKey]
      /\ UNCHANGED <<lock, indexVars, diskVars, used, size, todo, queue, boundVars>>

(* fs::read: the file's bytes, or NotFound.                                *)
Read(p) ==
  /\ At(p, "read", "idle") /\ Forget(p)
  /\ UNCHANGED <<lock, indexVars, diskVars, used, job, queue, boundVars>>

(* remove: remove_dir_all lists the directory and unlinks what it saw      *)
(* without the mutex, removes the directory if nothing new has appeared in *)
(* it, and only then, whatever came of it, the mutex is taken to update    *)
(* the index.                                                              *)
BeginRemove(p, k) == StartRemoval(p, k, "unlink", FilesOf(k))

(* delete: check_live under the mutex, then remove.  delete_template is    *)
(* its one caller.                                                         *)
Delete(p) ==
  \E k \in used :
    /\ pc[p] = "idle" /\ MutexFree /\ Live(k) /\ KindOf[k] = "tpl"
    /\ BeginRemove(p, k)
    /\ job' = [job EXCEPT ![p] = NoKey]
    /\ UNCHANGED <<lock, indexVars, diskVars, used, name, size, queue, boundVars>>

(* remove_dir_all, for remove and for evict_locked.                        *)
InRemoveDirAll(p) == pc[p] \in {"unlink", "purge"}
RemoveDirAllEnds(p) ==
  pc' = [pc EXCEPT ![p] = IF pc[p] = "purge" THEN "drop" ELSE "unindex"]

Unlink(p) ==
  /\ InRemoveDirAll(p)
  /\ \E n \in todo[p] :
       /\ todo' = [todo EXCEPT ![p] = @ \ {n}]
       /\ disk' = IF key[p] \in DOMAIN disk
                  THEN [disk EXCEPT ![key[p]] = Without(@, n)] ELSE disk
  /\ UNCHANGED <<lock, indexVars, strays, leftovers, used, pc, key, name, size, job, queue,
                 boundVars>>

RemoveDir(p) ==
  LET k == key[p] IN
  /\ InRemoveDirAll(p) /\ RemoveDirAllEnds(p)
  /\ todo[p] = {}
  /\ disk' = IF k \in DOMAIN disk /\ DOMAIN disk[k] = {} THEN Without(disk, k) ELSE disk
  /\ leftovers' = leftovers \cap DOMAIN disk'
  /\ UNCHANGED <<lock, indexVars, strays, used, localVars, job, queue, boundVars>>

(* It fails before or after any of its unlinks.  The error is dropped and  *)
(* the entry unindexed all the same: what is left waits for rebuild_index. *)
RemoveFails(p) ==
  /\ InRemoveDirAll(p) /\ RemoveDirAllEnds(p)
  /\ key[p] \in DOMAIN disk /\ IoError
  /\ leftovers' = leftovers \cup {key[p]}
  /\ UNCHANGED <<lock, indexVars, disk, strays, used, localVars, job, queue, now, restarts>>

Unindex(p) ==
  /\ At(p, "unindex", IF p = Reaper THEN "reap" ELSE "idle")
  /\ MutexFree
  /\ RemoveFromIndex(key[p])
  /\ Forget(p)
  /\ UNCHANGED <<lock, diskVars, used, job, queue, boundVars>>

(* A variant of the scan that forgets uploads.                             *)
ReapScanOutputs ==
  LET expired == {k \in ExpiredKeys : KindOf[k] = "out"} IN
  /\ At(Reaper, "idle", "reap")
  /\ MutexFree /\ expired # {}
  /\ queue' = expired
  /\ UNCHANGED <<lock, indexVars, diskVars, used, localVars, job, boundVars>>

(* reap: the expired keys under the mutex, then remove each of them.       *)
ReapScan ==
  /\ At(Reaper, "idle", "reap")
  /\ MutexFree /\ ExpiredKeys # {}
  /\ queue' = ExpiredKeys
  /\ UNCHANGED <<lock, indexVars, diskVars, used, localVars, job, boundVars>>

ReapNext ==
  /\ pc[Reaper] = "reap"
  /\ \E k \in queue : BeginRemove(Reaper, k) /\ queue' = queue \ {k}
  /\ UNCHANGED <<lock, indexVars, diskVars, used, name, size, job, boundVars>>

ReapDone ==
  /\ At(Reaper, "reap", "idle")
  /\ queue = {}
  /\ UNCHANGED <<lock, indexVars, diskVars, used, localVars, job, queue, boundVars>>

-----------------------------------------------------------------------------
(* The process dies at any point and starts again.  What was on disk stays *)
(* there, a file being staged becomes a stray, requests are lost, and      *)
(* Store::open rebuilds the index before anything is served.               *)
StagedBytes == IF lock \in Clients /\ pc[lock] = "rename" THEN size[lock] ELSE 0

Restart ==
  /\ restarts < MaxRestarts /\ restarts' = restarts + 1
  /\ strays' = strays + StagedBytes
  /\ lock' = Opener
  /\ index' = [k \in {} |-> 0] /\ total' = 0
  /\ perTenant' = [t \in Tenants |-> 0] /\ perTenantEntries' = [t \in Tenants |-> 0]
  /\ pc' = [p \in Procs |-> IF p = Opener THEN "rebuild" ELSE "idle"]
  /\ key' = [p \in Procs |-> NoKey] /\ name' = [p \in Procs |-> "main"]
  /\ size' = [p \in Procs |-> 0] /\ todo' = [p \in Procs |-> {}]
  /\ job' = [p \in Clients |-> NoKey]
  /\ queue' = DOMAIN disk
  /\ UNCHANGED <<disk, leftovers, used, now, ioErrors>>

(* A variant of the next action that forgets to count the entry.           *)
RebuildDirUncounted ==
  /\ pc[Opener] = "rebuild"
  /\ \E k \in queue :
       LET b == PayloadBytes(disk[k]) IN
       /\ queue' = queue \ {k}
       /\ ReadableMeta(disk[k])
       /\ index' = With(index, k, [disk[k]["meta.json"].entry EXCEPT !.bytes = b])
       /\ perTenant' = [perTenant EXCEPT ![TenantOf[k]] = @ + b] /\ total' = total + b
  /\ UNCHANGED <<lock, perTenantEntries, diskVars, used, pc, localVars, job, boundVars>>

(* rebuild_index on one directory: with readable metadata it is indexed    *)
(* with the bytes found in it.                                             *)
RebuildDir ==
  /\ pc[Opener] = "rebuild"
  /\ \E k \in queue :
       LET b == PayloadBytes(disk[k]) IN
       /\ queue' = queue \ {k}
       /\ ReadableMeta(disk[k])
       /\ AddToIndex(k, [disk[k]["meta.json"].entry EXCEPT !.bytes = b], b)
  /\ UNCHANGED <<lock, diskVars, used, pc, localVars, job, boundVars>>

(* Without, or when its metadata or its listing could not be read, it is   *)
(* removed; a removal that fails leaves some of the files.                 *)
DropDir ==
  /\ pc[Opener] = "rebuild"
  /\ \E k \in queue :
       /\ queue' = queue \ {k}
       /\ \/ /\ IoError \/ (~ReadableMeta(disk[k]) /\ UNCHANGED ioErrors)
             /\ disk' = Without(disk, k) /\ leftovers' = leftovers \ {k}
          \/ /\ IoError
             /\ \E kept \in SUBSET DOMAIN disk[k] :
                  disk' = [disk EXCEPT ![k] = [n \in kept |-> disk[k][n]]]
             /\ leftovers' = leftovers \cup {k}
  /\ UNCHANGED <<lock, indexVars, strays, used, pc, localVars, job, now, restarts>>

(* A read_dir that fails leaves out what lies below it, on disk.           *)
SkipDirs ==
  /\ pc[Opener] = "rebuild" /\ IoError
  /\ \E S \in SUBSET queue \ {{}} : queue' = queue \ S /\ leftovers' = leftovers \cup S
  /\ UNCHANGED <<lock, indexVars, disk, strays, used, pc, localVars, job, now, restarts>>

RebuildDone ==
  /\ At(Opener, "rebuild", "evict")
  /\ queue = {}
  /\ UNCHANGED <<lock, indexVars, diskVars, used, localVars, job, queue, boundVars>>

Tick ==
  /\ now < MaxTime /\ now' = now + 1
  /\ UNCHANGED <<lock, indexVars, diskVars, used, pc, localVars, job, queue,
                 restarts, ioErrors>>

PutStep(p) ==
  \/ Stage(p) \/ StageFails(p) \/ Rename(p) \/ RenameFails(p)
  \/ WriteMeta(p) \/ WriteMetaFails(p)
EvictStep(p) == BeginEvict(p) \/ Evicted(p) \/ EvictDone(p)
RemoveStep(p) == Unlink(p) \/ RemoveDir(p) \/ RemoveFails(p) \/ Unindex(p)
ReapStep == ReapScan \/ ReapNext \/ ReapDone
OpenStep == RebuildDir \/ DropDir \/ SkipDirs \/ RebuildDone

Next ==
  \/ \E p \in Clients :
       \/ Put(p) \/ PutPreview(p) \/ PreviewRefused(p) \/ PutStep(p)
       \/ Get(p) \/ Read(p) \/ Delete(p)
  \/ \E p \in Procs : EvictStep(p) \/ RemoveStep(p)
  \/ ReapStep \/ OpenStep \/ Restart \/ Tick

(* A handler that has begun runs to its end, and the reaper's timer keeps  *)
(* firing (spawn_reaper); nothing obliges a client to begin anything.      *)
Fairness ==
  /\ \A p \in Clients : WF_vars(PutStep(p)) /\ WF_vars(EvictStep(p)) /\ WF_vars(RemoveStep(p))
  /\ WF_vars(ReapStep) /\ WF_vars(RemoveStep(Reaper))
  /\ WF_vars(OpenStep) /\ WF_vars(EvictStep(Opener)) /\ WF_vars(RemoveStep(Opener))

Spec == Init /\ [][Next]_vars /\ Fairness

-----------------------------------------------------------------------------
(* What the store promises.                                                *)

BeingPut(k) == \E p \in Clients : key[p] = k /\ pc[p] \in {"stage", "rename", "meta"}
BeingRemoved(k) ==
  \E p \in Procs : key[p] = k /\ pc[p] \in {"unlink", "unindex", "purge", "drop"}

IndexOK ==
  /\ DOMAIN index \subseteq used /\ index \in [DOMAIN index -> Entry]
  /\ perTenant \in [Tenants -> Nat] /\ perTenantEntries \in [Tenants -> Nat]
  /\ total \in Nat
DiskOK ==
  /\ DOMAIN disk \subseteq used
  /\ \A k \in DOMAIN disk :
       DOMAIN disk[k] \subseteq FileNames /\ \A n \in DOMAIN disk[k] : disk[k][n] \in Content
  /\ strays \in Nat /\ leftovers \subseteq DOMAIN disk
Points == {"idle", "stage", "rename", "meta", "evict", "purge", "drop", "read", "unlink",
           "unindex", "reap", "rebuild"}
LocalsOK ==
  /\ pc \in [Procs -> Points]
  /\ key \in [Procs -> used \cup {NoKey}] /\ name \in [Procs -> FileNames]
  /\ size \in [Procs -> Nat] /\ todo \in [Procs -> SUBSET FileNames]
  /\ job \in [Clients -> used \cup {NoKey}]
BoundsOK == now \in 0..MaxTime /\ restarts \in 0..MaxRestarts /\ ioErrors \in 0..MaxIoErrors

(* Every variable has its type, and only minted keys are indexed, on disk  *)
(* or in a handler's hands.                                                *)
TypeOK ==
  /\ lock \in Procs \cup {Free} /\ used \subseteq Keys /\ queue \subseteq used
  /\ IndexOK /\ DiskOK /\ LocalsOK /\ BoundsOK

(* evict_locked: whenever the mutex is free the store is within both of    *)
(* its global ceilings.                                                    *)
StoreBounded == lock = Free => ~OverCeiling

(* put_with_id: concurrent uploads never take a tenant past its quotas     *)
(* ("let concurrent uploads all observe the same tenant usage"): outside   *)
(* rebuild_index, usage that grows ends within the limits.                 *)
GrowthWithinQuota ==
  [][pc[Opener] # "rebuild" =>
       \A t \in Tenants :
         /\ perTenant'[t] > perTenant[t] => perTenant'[t] <= MaxTenantBytes
         /\ perTenantEntries'[t] > perTenantEntries[t] =>
              perTenantEntries'[t] <= MaxTenantEntries]_vars

(* The entry counters of the index count what is in it, at every step of   *)
(* every handler, so saturating_sub never saturates.                       *)
EntriesExact ==
  \A t \in Tenants :
    perTenantEntries[t] = Cardinality({k \in DOMAIN index : TenantOf[k] = t})

BytesIndexed(S) == MapThenSumSet(LAMBDA k : index[k].bytes, S)

(* The byte counters of the index are the sums of its entries, at every    *)
(* step of every handler: the totals used for quotas never drift.          *)
BytesExact ==
  /\ total = BytesIndexed(DOMAIN index)
  /\ \A t \in Tenants : perTenant[t] = BytesIndexed({k \in DOMAIN index : TenantOf[k] = t})

(* A crash now would lose nothing that is indexed: an object no handler is *)
(* working on has, on disk, the metadata of its entry and at least the     *)
(* bytes its tenant is charged for.                                        *)
Recoverable ==
  \A k \in DOMAIN index : ~BeingPut(k) /\ ~BeingRemoved(k) =>
    /\ k \in DOMAIN disk /\ ReadableMeta(disk[k])
    /\ LET e == disk[k]["meta.json"].entry IN
         e.created = index[k].created /\ e.expires = index[k].expires
    /\ PayloadBytes(disk[k]) >= index[k].bytes

(* Nothing comes back unless its removal failed: once an asset or a        *)
(* template has left the index, no metadata of it is left for a later      *)
(* rebuild_index to find, save where remove_dir_all (by remove, eviction   *)
(* or rebuild_index, all of which ignore its error) or a read_dir failed.  *)
GoneForGood ==
  pc[Opener] # "rebuild" =>
    \A k \in used \ (DOMAIN index \cup leftovers) :
      KindOf[k] # "out" /\ ~BeingPut(k) /\ ~BeingRemoved(k) /\ k \in DOMAIN disk =>
        ~ReadableMeta(disk[k])

(* The reaper gets everywhere: an expired entry is removed (or its expiry  *)
(* moved by a preview stored next to it).                                  *)
ExpiredReaped == \A k \in Keys : (k \in ExpiredKeys) ~> (k \notin ExpiredKeys)

(* Nobody keeps the mutex.                                                 *)
MutexReleased == (lock # Free) ~> (lock = Free)

-----------------------------------------------------------------------------
(* What the comments and tests promise and the code does not do.           *)

(* "Delete everything that has passed its TTL": the reaper takes nothing   *)
(* out of the index that has not expired.                                  *)
ReapsOnlyExpired ==
  [][\A k \in DOMAIN index : pc[Reaper] = "unindex" /\ pc'[Reaper] = "reap" /\ k \notin DOMAIN index'
       => IsExpired(index[k])]_vars

(* "stores and reads back": a file that is read holds an upload's bytes.   *)
ReadsPayload ==
  \A p \in Clients : pc[p] = "read" /\ key[p] \in DOMAIN disk /\ name[p] \in DOMAIN disk[key[p]]
     => disk[key[p]][name[p]].kind = "payload"
=============================================================================
