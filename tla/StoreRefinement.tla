-------------------------- MODULE StoreRefinement --------------------------
(***************************************************************************)
(* How Store implements ObjectStore: an entry is visible as soon as it is  *)
(* indexed, a key is doomed from the step that picks it for removal, the   *)
(* ids minted are those given out, and a fault is an I/O error.            *)
(***************************************************************************)
EXTENDS Store

(* The store as its users see it.  While rebuild_index runs nobody does,   *)
(* and what it has still to visit counts as stored.                        *)
Visible ==
  IF pc[Opener] # "rebuild" THEN index
  ELSE [k \in DOMAIN index \cup {l \in queue : ReadableMeta(disk[l])} |->
          IF k \in DOMAIN index THEN index[k]
          ELSE [disk[k]["meta.json"].entry EXCEPT !.bytes = PayloadBytes(disk[k])]]
PickedForRemoval ==
  {key[p] : p \in {q \in Procs : pc[q] \in {"unlink", "unindex"}}}
    \cup (IF pc[Reaper] \in {"reap", "unlink", "unindex"} THEN queue ELSE {})

Abstract == INSTANCE ObjectStore WITH
  objects <- Visible, doomed <- PickedForRemoval, minted <- used,
  faults <- ioErrors, opening <- (pc[Opener] = "rebuild")

(* Store implements ObjectStore: whatever handlers, reaper, I/O errors and *)
(* crashes do, an object appears and grows within its tenant's true usage, *)
(* disappears only when its removal was due or the store was above a       *)
(* ceiling and nothing was older, and outlives a crash; what is gone comes *)
(* back only if its removal failed on disk, and only an I/O error while    *)
(* the store is being opened loses anything else.                          *)
ImplementsObjectStore == Abstract!Spec
=============================================================================
