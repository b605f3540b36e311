------------------------------- MODULE Bundle -------------------------------
(***************************************************************************)
(* Paths and bundles: src/src/bundle.rs.  "Construction is the only way    *)
(* in": a Bundle is proof that its paths and sizes were checked.           *)
(*                                                                         *)
(* A path as it arrives is the sequence of its segments, cut at each "/"   *)
(* and never empty: <<"">> is the empty path, <<"", "a">> is "/a".  A file *)
(* is a record of its path, its size in bytes and its content.  A check    *)
(* returns the reason it refuses for, or "ok".                             *)
(***************************************************************************)
EXTENDS Integers, Sequences, FiniteSetsExt

CONSTANTS
  MaxFiles,         \* MAX_FILES
  LongNames,        \* segments that make a path longer than MAX_PATH_BYTES
  OddNames,         \* segments with a character outside is_allowed
  PaddedNames       \* segments that begin or end with a space, or end with a dot

ASSUME MaxFilesAssumption == MaxFiles \in Nat \ {0}

Elements(s) == {s[i] : i \in DOMAIN s}
FirstIn(s, Test(_)) == s[CHOOSE i \in DOMAIN s : Test(s[i]) /\ \A j \in 1..(i - 1) : ~Test(s[j])]

BadSegment(seg) == seg \in {"", ".", ".."} \cup PaddedNames
SegmentFault(seg) ==
  CASE seg = "" -> "empty_segment" [] seg = "." -> "dot_segment"
    [] seg = ".." -> "traversal" [] OTHER -> "padded_segment"

(* normalise_path, which rejects and never rewrites: a path it accepts is  *)
(* returned as it came.                                                    *)
PathFault(path) ==
  IF path = <<"">> THEN "empty"
  ELSE IF Elements(path) \cap LongNames # {} THEN "too_long"
  ELSE IF Head(path) = "" THEN "absolute"
  ELSE IF Elements(path) \cap OddNames # {} THEN "bad_char"
  ELSE IF \E seg \in Elements(path) : BadSegment(seg) THEN
         SegmentFault(FirstIn(path, BadSegment))
  ELSE "ok"

PathsOf(files) == {files[i].path : i \in DOMAIN files}
TotalBytes(files) == MapThenSumSet(LAMBDA i : files[i].bytes, DOMAIN files)
FirstBadPath(files) ==
  PathFault(FirstIn(files, LAMBDA f : PathFault(f.path) # "ok").path)

(* A variant without the check for duplicates.                             *)
BundleFaultKeepingLast(main, files, maxBytes) ==
  IF Len(files) > MaxFiles THEN "too_many_files"
  ELSE IF TotalBytes(files) > maxBytes THEN "too_large"
  ELSE IF PathFault(main) # "ok" THEN PathFault(main)
  ELSE IF \E p \in PathsOf(files) : PathFault(p) # "ok" THEN FirstBadPath(files)
  ELSE IF main \notin PathsOf(files) THEN "missing_main"
  ELSE "ok"

(* Bundle::new, its checks in its order.  (A bad path and a duplicate are  *)
(* told apart by which comes first in the list.)                           *)
BundleFault(main, files, maxBytes) ==
  LET Repeated(i) == \E j \in 1..(i - 1) : files[j].path = files[i].path
      Faulty == {i \in DOMAIN files : PathFault(files[i].path) # "ok" \/ Repeated(i)}
      first == Min(Faulty)
  IN IF Len(files) > MaxFiles THEN "too_many_files"
     ELSE IF TotalBytes(files) > maxBytes THEN "too_large"
     ELSE IF PathFault(main) # "ok" THEN PathFault(main)
     ELSE IF Faulty # {}
          THEN IF PathFault(files[first].path) # "ok" THEN PathFault(files[first].path)
               ELSE "duplicate"
     ELSE IF main \notin PathsOf(files) THEN "missing_main"
     ELSE "ok"

-----------------------------------------------------------------------------
(* What a bundle is meant to be, said without the code's checks: walked    *)
(* from the root, no path ever leaves it or stands still, and each file    *)
(* has a place of its own.                                                 *)
DepthAfter(path, n) ==
  Cardinality({i \in 1..n : path[i] \notin {"", ".", ".."}})
    - Cardinality({i \in 1..n : path[i] = ".."})
StaysBelowRoot(path) ==
  /\ \A n \in 1..Len(path) : DepthAfter(path, n) >= 1
  /\ DepthAfter(path, Len(path)) = Len(path)
WellFormedBundle(main, files, maxBytes) ==
  /\ Cardinality(PathsOf(files)) = Len(files) /\ Len(files) <= MaxFiles
  /\ TotalBytes(files) <= maxBytes
  /\ \A p \in PathsOf(files) : StaysBelowRoot(p)
  /\ main \in PathsOf(files)
=============================================================================
