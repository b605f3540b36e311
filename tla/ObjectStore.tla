---------------------------- MODULE ObjectStore ----------------------------
(***************************************************************************)
(* What the store of src/src/store.rs promises to those who use it: a map  *)
(* from keys to entries, in which every change is one step.  There is no   *)
(* mutex, no directory and no counter here: usage is what the entries add  *)
(* up to.  StoreRefinement maps Store to it, files, crashes and half-done  *)
(* removals included; RenderPipeline is built on it.                       *)
(*                                                                         *)
(* Storage may fail, and the store ignores it when a removal fails: what a *)
(* fault may cost its users, and nothing else may, is told here.           *)
(***************************************************************************)
EXTENDS Integers, FiniteSetsExt

CONSTANTS
  Keys, Tenants, TenantOf, KindOf, \* as in Store
  Sizes, Ttl,
  MaxTenantBytes, MaxStoreBytes, MaxTenantEntries, MaxStoreEntries,
  MaxTime

VARIABLES
  objects,          \* the entry of each object the index shows
  doomed,           \* keys picked for removal by delete or by the reaper
  minted,           \* ids given out so far
  now,
  leftovers,        \* keys whose removal failed on disk: a crash may bring them back
  faults,           \* failures of the storage so far
  opening           \* the store is being opened after a crash

storeVars == <<objects, doomed, minted, now, leftovers, faults, opening>>
(* Written out, since a module without faults puts constants here.         *)
FaultsUnchanged == leftovers' = leftovers /\ faults' = faults /\ opening' = opening

Stored == DOMAIN objects
Expired(k) == objects[k].expires <= now
(* check_live: the object is there and its time has not run out.           *)
IsLive(k) == k \in Stored /\ ~Expired(k)

BytesOf(S) == MapThenSumSet(LAMBDA k : objects[k].bytes, S)
OwnedBy(t) == {k \in Stored : TenantOf[k] = t}

(* The two refusals of put_with_id.                                        *)
HasRoom(k, s) ==
  /\ BytesOf(OwnedBy(TenantOf[k])) + s <= MaxTenantBytes
  /\ k \in Stored \/ Cardinality(OwnedBy(TenantOf[k])) < MaxTenantEntries

(* The entry of k once s bytes more are stored under it.                   *)
Grown(k, s) ==
  [l \in Stored \cup {k} |->
     IF l # k THEN objects[l]
     ELSE [bytes   |-> s + (IF k \in Stored THEN objects[k].bytes ELSE 0),
           created |-> IF k \in Stored THEN objects[k].created ELSE now,
           expires |-> now + Ttl[KindOf[k]]]]

AboveCeiling == BytesOf(Stored) > MaxStoreBytes \/ Cardinality(Stored) > MaxStoreEntries
Remaining(S) == [l \in Stored \ S |-> objects[l]]
(* What evict_locked may take: above a ceiling, an object nobody is older  *)
(* than.                                                                   *)
Victims ==
  {k \in Stored : AboveCeiling /\ \A l \in Stored : objects[k].created <= objects[l].created}

-----------------------------------------------------------------------------
Init ==
  /\ objects = [k \in {} |-> 0] /\ doomed = {} /\ minted = {} /\ now = 0
  /\ leftovers = {} /\ faults = 0 /\ opening = FALSE

Mint(k) ==
  /\ k \notin minted /\ minted' = minted \cup {k}
  /\ UNCHANGED <<objects, doomed, now>> /\ FaultsUnchanged

Commit(k) ==
  /\ \E s \in Sizes : HasRoom(k, s) /\ objects' = Grown(k, s)
  /\ minted' = minted \cup {k}
  /\ UNCHANGED <<doomed, now>> /\ FaultsUnchanged

Evict(k) ==
  /\ k \in Victims /\ objects' = Remaining({k})
  /\ UNCHANGED <<doomed, minted, now>> /\ FaultsUnchanged

(* The reaper picks what has expired, delete a live template.              *)
Doom(S) ==
  /\ S \subseteq Stored
  /\ \/ \A k \in S : Expired(k)
     \/ \E k \in S : S = {k} /\ IsLive(k) /\ KindOf[k] = "tpl"
  /\ doomed' = doomed \cup S
  /\ UNCHANGED <<objects, minted, now>> /\ FaultsUnchanged

(* A removal ends; a key may be in the hands of two of them.               *)
Remove(k) ==
  /\ k \in doomed /\ objects' = Remaining({k})
  /\ doomed' \in {doomed, doomed \ {k}}
  /\ UNCHANGED <<minted, now>> /\ FaultsUnchanged

(* A put that fails changes nothing that was there.                        *)
PutFails == faults' = faults + 1 /\ UNCHANGED <<objects, doomed, minted, now, leftovers, opening>>

(* The files of an object that is due to go cannot be removed.  Its users  *)
(* are not told: the entry goes all the same.                              *)
LeaveBehind(k) ==
  /\ k \in doomed \cup Victims
  /\ faults' = faults + 1 /\ leftovers' = leftovers \cup {k}
  /\ UNCHANGED <<objects, doomed, minted, now, opening>>

(* A later attempt removes them.                                           *)
Cleared(k) ==
  /\ k \in leftovers /\ leftovers' = leftovers \ {k}
  /\ UNCHANGED <<objects, doomed, minted, now, faults, opening>>

(* The process dies and opens the store again.  No object is lost or loses *)
(* its dates but one whose removal had begun, by delete, the reaper or an  *)
(* eviction; it may be charged for more (a preview that was on disk        *)
(* without being accounted for).  Nothing that was gone comes back, save   *)
(* what a failed removal has left and documents a late preview may have    *)
(* revived.                                                                *)
Crash ==
  /\ \E evicting \in {{}} \cup {{k} : k \in Victims} :
       \A k \in Stored \ (doomed \cup evicting) :
         /\ k \in DOMAIN objects'
         /\ objects'[k].created = objects[k].created /\ objects'[k].expires = objects[k].expires
         /\ objects'[k].bytes >= objects[k].bytes
  /\ \A k \in DOMAIN objects' :
       k \in minted /\ (k \in Stored \cup doomed \cup leftovers \/ KindOf[k] = "out")
  /\ doomed' = {} /\ opening' = TRUE
  /\ UNCHANGED <<minted, now, leftovers, faults>>

(* While it is being opened, and only then, a fault may lose objects that  *)
(* nobody removed: what cannot be read is removed, or left for next time.  *)
Lose(S) ==
  /\ opening /\ objects' = Remaining(S)
  /\ faults' = faults + 1 /\ leftovers' \in {leftovers \cup S, leftovers \ S}
  /\ UNCHANGED <<doomed, minted, now, opening>>

Opened ==
  /\ opening /\ opening' = FALSE
  /\ UNCHANGED <<objects, doomed, minted, now, leftovers, faults>>

Tick ==
  /\ now < MaxTime /\ now' = now + 1
  /\ UNCHANGED <<objects, doomed, minted>> /\ FaultsUnchanged

Next ==
  \/ \E k \in Keys :
       Mint(k) \/ Commit(k) \/ Evict(k) \/ Remove(k) \/ LeaveBehind(k) \/ Cleared(k)
  \/ \E S \in SUBSET Keys : Doom(S) \/ Lose(S)
  \/ PutFails \/ Crash \/ Opened \/ Tick

Spec == Init /\ [][Next]_storeVars
=============================================================================
