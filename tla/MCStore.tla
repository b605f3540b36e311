------------------------------ MODULE MCStore ------------------------------
(* Instances of Store for TLC: one or two tenants, a key of each kind.     *)
EXTENDS StoreRefinement, TLC

CONSTANTS c1, c2, c3, kOut, kTpl, kAst, kOut2, t1, t2

TenantOfKeys == [k \in Keys |-> IF k = kTpl THEN t2 ELSE t1]
OneTenant == [k \in Keys |-> t1]
KindOfKeys ==
  [k \in Keys |-> IF k = kTpl THEN "tpl" ELSE IF k = kAst THEN "assets" ELSE "out"]
MainNames == [k \in Keys |-> "main"]
MetaNamedAsset == [k \in Keys |-> IF k = kAst THEN "meta.json" ELSE "main"]
TtlOfKinds == [out |-> 1, assets |-> 1, tpl |-> 1]

ClientSymmetry == Permutations(Clients)

(* "Disk cannot grow without bound": what lies under root when no request  *)
(* is being handled stays within the store's ceiling.                      *)
BytesOnDisk == MapThenSumSet(LAMBDA k : PayloadBytes(disk[k]), DOMAIN disk)
DiskBounded == (\A p \in Procs : pc[p] = "idle") => strays + BytesOnDisk <= MaxStoreBytes
=============================================================================
