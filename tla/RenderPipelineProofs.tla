------------------------ MODULE RenderPipelineProofs ------------------------
(* Theorems about RenderPipeline, for any handlers, calls and stored       *)
(* objects.                                                                *)
EXTENDS RenderPipeline, SumLemmas

-----------------------------------------------------------------------------
(* The inductive invariant.                                                *)

(* Where a handler may be for a call.                                      *)
PlacesOf(op) ==
  IF op = "render" THEN {"preflight", "fetch", "assemble", "compile", "store", "preview"}
  ELSE IF op = "template" THEN {"preflight", "fetch", "validate", "compile", "store"}
  ELSE IF op = "asset" THEN {"store"}
  ELSE IF op = "list" THEN {"list", "reading"}
  ELSE IF op = "delete" THEN {"delete", "removing"}
  ELSE {op}
PagesWanted(p) ==
  IF pc[p] \in {"store", "preview"} /\ call[p].op = "render" THEN PagesOf(call[p].request)
  ELSE <<>>
Handled(p) ==
  /\ DOMAIN work[p] = DOMAIN NoWork
  /\ pc[p] = "idle" => work[p] = NoWork
  /\ pc[p] # "idle" => /\ call[p] \in Calls[p] /\ FirstFault(call[p]) = "ok"
                       /\ pc[p] \in PlacesOf(call[p].op) /\ work[p].pages = PagesWanted(p)
(* Whoever removes a template was the one to pick it, or another remover   *)
(* was, who is not done either.                                            *)
Removals ==
  minted \subseteq Keys /\ doomed \subseteq Keys
    /\ \A p \in Handlers : pc[p] = "removing" => call[p].key \in doomed
Watches == \A p \in Handlers : watch[p] \subseteq LiveIds
(* What was there when a listing began is read, was read, or has gone.     *)
Listings ==
  \A p \in Handlers : pc[p] = "reading" /\ call[p].stored =>
    {k \in watch[p] : TenantOf[k] = call[p].tenant /\ KindOf[k] = "tpl"}
      \subseteq work[p].ids \cup work[p].listed
(* The document of a handler is nobody else's, and has the previews that   *)
(* were stored so far, unless it was evicted in between.                   *)
SoFar(p) == {work[p].pages[i] : i \in 1..(work[p].at - 1)}
Documents ==
  /\ \A p \in Handlers : pc[p] = "preview" =>
       LET k == work[p].doc IN
       /\ k \in minted /\ KindOf[k] = "out" /\ work[p].at \in 1..Len(work[p].pages)
       /\ k \in Stored =>
            /\ blob[k] = [document |-> blob[k].document, previews |-> blob[k].previews]
            /\ blob[k].document => blob[k].previews = SoFar(p)
  /\ \A p, q \in Handlers :
       pc[p] = "preview" /\ pc[q] = "preview" /\ work[p].doc = work[q].doc => p = q
AllHandled == \A p \in Handlers : Handled(p)

IInv == TypeOK /\ AllHandled /\ Removals /\ Watches /\ Listings /\ Documents

-----------------------------------------------------------------------------
(* One handler at a time.                                                  *)

HandlerStep(p) ==
  \/ Begin(p) \/ Preflight(p) \/ Fetch(p) \/ Assemble(p) \/ Validate(p)
  \/ WorkerFails(p) \/ DocumentFails(p) \/ Compiles(p) \/ Store(p) \/ Preview(p)
  \/ List(p) \/ Reading(p) \/ Assets(p) \/ Schema(p) \/ Link(p) \/ Delete(p) \/ Removing(p)
StoreStep ==
  \/ \E k \in Keys : Evict(k) \/ Reaped(k)
  \/ Reap \/ Tick

(* A step is one handler's, or the store's.                                *)
LEMMA Steps ==
  ASSUME Next
  PROVE  Track /\ (StoreStep \/ \E p \in Handlers : HandlerStep(p))
BY DEF Next, HandlerStep, StoreStep

(* What a handler replies ends its request.                                *)
Replies(p) == \E a : Reply(p, a)
(* An answered call leaves its handler idle and nobody else answered.      *)
LEMMA ReplyEnds ==
  ASSUME TypeOK, NEW p \in Handlers, NEW a, Reply(p, a)
  PROVE  /\ pc' = [pc EXCEPT ![p] = "idle"] /\ pc'[p] = "idle" /\ work'[p] = NoWork
         /\ answer'[p] = a /\ answer' \in [Handlers -> {a, NoAnswer}]
BY DEF Reply, Goto, TypeOK, NoAnswers

(* The others do not notice.                                               *)
Frame(p) ==
  /\ DOMAIN call' = Handlers /\ DOMAIN answer' = Handlers /\ DOMAIN work' = Handlers
  /\ DOMAIN pc' = Handlers /\ pc' = [pc EXCEPT ![p] = pc'[p]]
  /\ \A q \in Handlers \ {p} : /\ pc'[q] = pc[q] /\ call'[q] = call[q] /\ work'[q] = work[q]
                               /\ answer'[q] = NoAnswer
(* A handler's step moves that handler alone.                              *)
LEMMA OthersUnmoved ==
  ASSUME TypeOK, NEW p \in Handlers, HandlerStep(p)
  PROVE  Frame(p)
<1> USE DEF TypeOK, Quiet, NoAnswers, Goto, Frame, ToCompile
<1>1. ASSUME NEW a, Reply(p, a) PROVE Frame(p) BY <1>1 DEF Reply
<1>2. ASSUME NEW f, NEW k, Refuse(p, f, k) PROVE Frame(p) BY <1>1, <1>2 DEF Refuse, Answer
<1>3. ASSUME NEW kind, NEW k, ReadFails(p, kind, k) PROVE Frame(p) BY <1>2, <1>3 DEF ReadFails
<1>4. ASSUME NEW s, NEW k, Answer(p, s, k) PROVE Frame(p) BY <1>1, <1>4 DEF Answer
<1>5. CASE Begin(p) BY <1>2, <1>5 DEF Begin
<1>6. CASE Preflight(p) BY <1>2, <1>6 DEF Preflight
<1>7. CASE Fetch(p) BY <1>2, <1>3, <1>7 DEF Fetch
<1>8. CASE Assemble(p) BY <1>2, <1>3, <1>8 DEF Assemble
<1>9. CASE Validate(p) BY <1>2, <1>9 DEF Validate
<1>10. CASE WorkerFails(p) BY <1>2, <1>10 DEF WorkerFails
<1>11. CASE DocumentFails(p) BY <1>1, <1>11 DEF DocumentFails
<1>12. CASE Compiles(p) BY <1>4, <1>12 DEF Compiles
<1>13. CASE Store(p) BY <1>2, <1>4, <1>13 DEF Store, Put
<1>14. CASE Preview(p) BY <1>2, <1>4, <1>14 DEF Preview, PreviewRefused
<1>15. CASE List(p) BY <1>15 DEF List
<1>16. CASE Reading(p) BY <1>1, <1>2, <1>3, <1>16 DEF Reading, Listing
<1>17. CASE Assets(p) BY <1>1, <1>17 DEF Assets, Listing
<1>18. CASE Schema(p) BY <1>2, <1>3, <1>4, <1>18 DEF Schema
<1>19. CASE Link(p) BY <1>2, <1>4, <1>19 DEF Link
<1>20. CASE Delete(p) BY <1>2, <1>20 DEF Delete
<1>21. CASE Removing(p) BY <1>4, <1>21 DEF Removing
<1> QED BY <1>5, <1>6, <1>7, <1>8, <1>9, <1>10, <1>11, <1>12, <1>13, <1>14, <1>15, <1>16,
           <1>17, <1>18, <1>19, <1>20, <1>21 DEF HandlerStep

(* The store on its own moves no handler.                                  *)
LEMMA StoreMovesNobody ==
  ASSUME StoreStep
  PROVE  UNCHANGED <<pc, call, work>> /\ answer' = NoAnswers
BY DEF StoreStep, Evict, Reaped, Reap, Tick, Quiet

-----------------------------------------------------------------------------
(* What steps do to the store.                                             *)

Puts(p) ==
  /\ pc[p] = "store"
  /\ \E k \in Keys \ minted :
       /\ TenantOf[k] = call[p].tenant /\ KindOf[k] = KindStored(call[p])
       /\ ObjectsStore!HasRoom(k, PayloadBytes(p)) /\ Put(p, k)
Adds(p) ==
  LET k == work[p].doc  page == work[p].pages[work[p].at] IN
  /\ pc[p] = "preview" /\ PreviewFits(k) /\ Preview(p)
  /\ objects' = ObjectsStore!Grown(k, PreviewBytes) /\ UNCHANGED <<doomed, minted, now>>
  /\ blob' = IF k \in Stored THEN [blob EXCEPT ![k].previews = @ \cup {page}]
             ELSE Holding(k, [document |-> FALSE, previews |-> {page}])
Dooms(p) ==
  /\ pc[p] = "delete" /\ Lookup(call[p].tenant, "tpl", call[p].key) = "ok"
  /\ doomed' = doomed \cup {call[p].key} /\ Goto(p, "removing")
  /\ UNCHANGED <<objects, minted, now, blob, call, work>>
(* Only where these are does a handler change the store.                   *)
LEMMA HandlersTouch ==
  ASSUME NEW p \in Handlers, HandlerStep(p)
  PROVE  NoStore \/ Puts(p) \/ Adds(p) \/ Dooms(p) \/ Removing(p)
<1> USE DEF ToCompile
<1>2. ASSUME NEW f, NEW k, Refuse(p, f, k) PROVE NoStore BY <1>2 DEF Refuse
<1>3. ASSUME NEW kind, NEW k, ReadFails(p, kind, k) PROVE NoStore BY <1>2, <1>3 DEF ReadFails
<1>5. CASE Begin(p) BY <1>2, <1>5 DEF Begin, NoStore
<1>6. CASE Preflight(p) BY <1>2, <1>6 DEF Preflight
<1>7. CASE Fetch(p) BY <1>2, <1>3, <1>7 DEF Fetch
<1>8. CASE Assemble(p) BY <1>2, <1>3, <1>8 DEF Assemble
<1>9. CASE Validate(p) BY <1>2, <1>9 DEF Validate
<1>10. CASE WorkerFails(p) BY <1>2, <1>10 DEF WorkerFails
<1>11. CASE DocumentFails(p) BY <1>11 DEF DocumentFails
<1>12. CASE Compiles(p) BY <1>12 DEF Compiles
<1>13. CASE Store(p) BY <1>2, <1>13 DEF Store, Puts
<1>14. CASE Preview(p)
  <2>1. CASE Refuse(p, "store_io", NoKey) \/ PreviewRefused(p) BY <1>2, <2>1 DEF PreviewRefused
  <2>2. CASE ~(Refuse(p, "store_io", NoKey) \/ PreviewRefused(p))
    BY <1>14, <2>2 DEF Preview, Adds
  <2> QED BY <2>1, <2>2
<1>15. CASE List(p) BY <1>15 DEF List
<1>16. CASE Reading(p) BY <1>2, <1>3, <1>16 DEF Reading
<1>17. CASE Assets(p) BY <1>17 DEF Assets
<1>18. CASE Schema(p) BY <1>2, <1>3, <1>18 DEF Schema
<1>19. CASE Link(p) BY <1>2, <1>19 DEF Link
<1>20. CASE Delete(p) BY <1>2, <1>20 DEF Delete, Dooms
<1>21. CASE Removing(p) BY <1>21
<1> QED BY <1>5, <1>6, <1>7, <1>8, <1>9, <1>10, <1>11, <1>12, <1>13, <1>14, <1>15, <1>16,
           <1>17, <1>18, <1>19, <1>20, <1>21 DEF HandlerStep

(* The two modules speak of the same store.                                *)
LEMMA SameStore ==
  /\ ObjectsStore!Stored = Stored
  /\ \A k : ObjectsStore!IsLive(k) <=> k \in Stored /\ ~(objects[k].expires <= now)
  /\ \A k : ObjectsStore!Expired(k) <=> objects[k].expires <= now
BY DEF ObjectsStore!Stored, Stored, ObjectsStore!IsLive, ObjectsStore!Expired

(* An object is as it was unless it is gone.                               *)
Spared(k) == k \in Stored' => k \in Stored /\ objects'[k] = objects[k] /\ blob'[k] = blob[k]
Fine == DOMAIN blob' = Stored' /\ Stored' \subseteq minted' /\ minted \subseteq minted'
          /\ minted' \subseteq Keys /\ doomed' \subseteq Keys

(* store.put under a new key: the objects there were are as they were.     *)
LEMMA PutSpares ==
  ASSUME TypeOK, Removals, NEW p \in Handlers, Puts(p)
  PROVE  /\ Fine /\ doomed' = doomed /\ now' = now
         /\ \A k \in minted : Spared(k)
<1>1. PICK k \in Keys \ minted : Put(p, k) BY DEF Puts
<1>2. /\ objects' = ObjectsStore!Grown(k, PayloadBytes(p)) /\ minted' = minted \cup {k}
      /\ blob' = Holding(k, Payload(p)) /\ doomed' = doomed /\ now' = now
  BY <1>1 DEF Put
<1>3. DOMAIN objects' = Stored \cup {k} /\ \A l \in Stored : l # k => objects'[l] = objects[l]
  BY <1>2 DEF ObjectsStore!Grown, ObjectsStore!Stored, Stored
<1>4. DOMAIN blob' = DOMAIN blob \cup {k} /\ \A l \in DOMAIN blob : l # k => blob'[l] = blob[l]
  BY <1>2 DEF Holding
<1> QED BY <1>2, <1>3, <1>4 DEF Fine, Spared, Stored, TypeOK, Removals

(* store.add_file: only the document that gets the preview changes.        *)
LEMMA AddSpares ==
  ASSUME TypeOK, Removals, Documents, NEW p \in Handlers, Adds(p)
  PROVE  /\ Fine /\ doomed' = doomed /\ now' = now /\ minted' = minted
         /\ \A k \in Keys \ {work[p].doc} : Spared(k)
<1> DEFINE k == work[p].doc
<1>1. k \in minted BY DEF Documents, Adds
<1>2. /\ objects' = ObjectsStore!Grown(k, PreviewBytes) /\ minted' = minted
      /\ doomed' = doomed /\ now' = now
  BY DEF Adds
<1>3. DOMAIN objects' = Stored \cup {k} /\ \A l \in Stored : l # k => objects'[l] = objects[l]
  BY <1>2 DEF ObjectsStore!Grown, ObjectsStore!Stored, Stored
<1>4. DOMAIN blob' = DOMAIN blob \cup {k} /\ \A l \in DOMAIN blob : l # k => blob'[l] = blob[l]
  BY DEF Adds, Holding, TypeOK
<1> HIDE DEF k
<1> QED BY <1>1, <1>2, <1>3, <1>4 DEF k, Fine, Spared, Stored, TypeOK, Removals

(* Taking an object out spares the others.                                 *)
LEMMA RemovalSpares ==
  ASSUME TypeOK, Removals, NEW k, objects' = ObjectsStore!Remaining({k}), blob' = Without(k),
         minted' = minted, now' = now, doomed' \subseteq doomed
  PROVE  Fine /\ \A l : Spared(l)
<1>1. DOMAIN objects' = Stored \ {k} /\ \A l \in Stored : l # k => objects'[l] = objects[l]
  BY DEF ObjectsStore!Remaining, ObjectsStore!Stored, Stored
<1>2. DOMAIN blob' = DOMAIN blob \ {k} /\ \A l \in DOMAIN blob : l # k => blob'[l] = blob[l]
  BY DEF Without
<1> QED BY <1>1, <1>2 DEF Fine, Spared, Stored, TypeOK, Removals

(* Eviction and the reaper remove objects, and change none.                *)
LEMMA StoreSpares ==
  ASSUME TypeOK, Removals, StoreStep
  PROVE  Fine /\ \A l : Spared(l)
<1>1. CASE \E k \in Keys : Evict(k)
  <2>1. PICK k \in Keys : Evict(k) BY <1>1
  <2> QED BY <2>1, RemovalSpares DEF Evict, ObjectsStore!Evict
<1>2. CASE \E k \in Keys : Reaped(k)
  <2>1. PICK k \in Keys : Reaped(k) BY <1>2
  <2> QED BY <2>1, RemovalSpares DEF Reaped, Drop
<1>3. CASE Reap
  <2>1. UNCHANGED <<objects, minted, now, blob>> /\ doomed' \subseteq doomed \cup Stored
    BY <1>3 DEF Reap, ObjectsStore!Doom
  <2> QED BY <2>1 DEF Fine, Spared, Stored, TypeOK, Removals
<1>4. CASE Tick
  <2>1. UNCHANGED <<objects, minted, doomed, blob>> BY <1>4 DEF Tick, ObjectsStore!Tick
  <2> QED BY <2>1 DEF Fine, Spared, Stored, TypeOK, Removals
<1> QED BY <1>1, <1>2, <1>3, <1>4 DEF StoreStep

(* Only documents come back, and only their own handler brings them.       *)
LEMMA WhatIsSpared ==
  ASSUME TypeOK, Removals, Documents, NEW p \in Handlers, HandlerStep(p)
  PROVE  /\ Fine
         /\ \A k \in minted : Spared(k) \/ (pc[p] = "preview" /\ k = work[p].doc)
<1>1. CASE NoStore BY <1>1 DEF NoStore, storeVars, Fine, Spared, Stored, TypeOK, Removals
<1>2. CASE Puts(p) BY <1>2, PutSpares
<1>3. CASE Adds(p)
  <2>1. pc[p] = "preview" BY <1>3 DEF Adds
  <2> QED BY <1>3, <2>1, AddSpares DEF Removals
<1>4. CASE Dooms(p)
  <2>1. call[p].key \in Stored BY <1>4 DEF Dooms, Lookup
  <2>2. UNCHANGED <<objects, minted, now, blob>> /\ doomed' = doomed \cup {call[p].key}
    BY <1>4 DEF Dooms
  <2> QED BY <2>1, <2>2 DEF Fine, Spared, Stored, TypeOK, Removals
<1>5. CASE Removing(p)
  <2>1. doomed' \subseteq doomed BY <1>5 DEF Removing
  <2> QED BY <1>5, <2>1, RemovalSpares DEF Removing, Drop
<1> QED BY <1>1, <1>2, <1>3, <1>4, <1>5, HandlersTouch

-----------------------------------------------------------------------------
(* What a handler does with its own.                                       *)

LEMMA Fields ==
  DOMAIN NoWork = {"at", "assets", "template", "files", "main", "doc", "pages", "ids", "listed"}
BY DEF NoWork

(* What a call that is not refused at once may ask for.                    *)
Operations == {"render", "template", "asset", "assets", "list", "schema", "link", "delete"}
(* A call that got past its first checks is of a known operation.          *)
LEMMA OperationsKnown ==
  ASSUME NEW p \in Handlers, NEW c \in Calls[p], FirstFault(c) = "ok"
  PROVE  c.op \in Operations
<1>1. IsCall(c) BY CallsAssumption
<1> QED BY <1>1 DEF IsCall, FirstFault, Operations

(* A call begins where its operation does.                                 *)
LEMMA BeginsRight ==
  ASSUME NEW p \in Handlers, NEW c \in Calls[p], FirstFault(c) = "ok"
  PROVE  /\ FirstStep(c) \in PlacesOf(c.op) \cap Places
         /\ FirstStep(c) # "idle" /\ ~(FirstStep(c) \in {"store", "preview"} /\ c.op = "render")
BY OperationsKnown DEF Operations, FirstStep, AfterAssets, PlacesOf, Places

(* A handler goes on to a place of the operation it runs.                  *)
LEMMA HandlerMoves ==
  ASSUME TypeOK, AllHandled, NEW p \in Handlers, HandlerStep(p)
  PROVE  Handled(p)' /\ pc'[p] \in Places
<1> USE Fields DEF Goto
<1>a. /\ Handled(p) /\ DOMAIN work = Handlers /\ DOMAIN call = Handlers
      /\ pc \in [Handlers -> Places]
  BY DEF AllHandled, TypeOK
<1>d. pc[p] # "idle" => call[p].op \in Operations
  BY <1>a, OperationsKnown DEF Handled
<1>1. ASSUME NEW a, Reply(p, a) PROVE Handled(p)' /\ pc'[p] \in Places
  BY <1>1, ReplyEnds DEF Handled, Places
<1>2. ASSUME NEW f, NEW k, Refuse(p, f, k) PROVE Handled(p)' /\ pc'[p] \in Places
  BY <1>1, <1>2 DEF Refuse, Answer
<1>3. ASSUME NEW kind, NEW k, ReadFails(p, kind, k) PROVE Handled(p)' /\ pc'[p] \in Places
  BY <1>2, <1>3 DEF ReadFails
<1>4. ASSUME NEW s, NEW k, Answer(p, s, k) PROVE Handled(p)' /\ pc'[p] \in Places
  BY <1>1, <1>4 DEF Answer
(* A handler that goes on with its call, to a place the call knows, without *)
(* touching the pages asked for.                                           *)
<1>b. ASSUME NEW to \in Places \ {"idle"}, pc[p] # "idle", pc' = [pc EXCEPT ![p] = to],
             call' = call, to \in PlacesOf(call[p].op),
             DOMAIN work'[p] = DOMAIN NoWork,
             work'[p].pages = IF to \in {"store", "preview"} /\ call[p].op = "render"
                              THEN PagesOf(call[p].request) ELSE <<>>
      PROVE  Handled(p)' /\ pc'[p] \in Places
  BY <1>a, <1>b DEF Handled, PagesWanted
<1>5. CASE Begin(p)
  <2>1. CASE \E c \in Calls[p] : FirstFault(c) # "ok" /\ Refuse(p, FirstFault(c), NoKey)
    BY <1>2, <2>1
  <2>2. ASSUME NEW c \in Calls[p], FirstFault(c) = "ok", call' = [call EXCEPT ![p] = c],
               Goto(p, FirstStep(c)), work' = work, pc[p] = "idle"
        PROVE  Handled(p)' /\ pc'[p] \in Places
    <3>1. pc'[p] = FirstStep(c) /\ call'[p] = c /\ work'[p] = NoWork
      BY <1>a, <2>2 DEF Handled
    <3>2. work'[p].pages = <<>> BY <3>1 DEF NoWork
    <3> QED BY <2>2, <3>1, <3>2, BeginsRight DEF Handled, PagesWanted
  <2> QED BY <1>5, <2>1, <2>2 DEF Begin
<1>6. CASE Preflight(p)
  <2>1. CASE \E f, k : Refuse(p, f, k) BY <1>2, <2>1
  <2>2. CASE ~\E f, k : Refuse(p, f, k)
    <3>1. /\ pc[p] = "preflight" /\ call' = call
          /\ \/ Goto(p, "fetch") /\ work' = [work EXCEPT ![p] = NoWork]
             \/ pc' = pc /\ work' = [work EXCEPT ![p].at = work[p].at + 1,
                  ![p].assets = Append(@, [bytes |-> objects[AssetsOf(call[p])[work[p].at]].bytes])]
      BY <1>6, <2>2 DEF Preflight
    <3>2. {"preflight", "fetch"} \subseteq PlacesOf(call[p].op)
      BY <1>a, <1>d, <3>1 DEF Handled, PlacesOf, Operations
    <3>3. CASE Goto(p, "fetch") /\ work' = [work EXCEPT ![p] = NoWork]
      <4>1. work'[p].pages = <<>> /\ DOMAIN work'[p] = DOMAIN NoWork BY <1>a, <3>3 DEF NoWork
      <4> QED BY <1>b, <3>1, <3>2, <3>3, <4>1 DEF Places
    <3>4. CASE ~(Goto(p, "fetch") /\ work' = [work EXCEPT ![p] = NoWork])
      <4>1. pc' = [pc EXCEPT ![p] = "preflight"] BY <1>a, <3>1, <3>4
      <4>2. work'[p].pages = work[p].pages /\ DOMAIN work'[p] = DOMAIN NoWork
        BY <1>a, <3>1, <3>4 DEF Handled
      <4>3. work[p].pages = <<>> BY <1>a, <3>1 DEF Handled, PagesWanted
      <4> QED BY <1>b, <3>1, <3>2, <4>1, <4>2, <4>3 DEF Places
    <3> QED BY <3>3, <3>4
  <2> QED BY <2>1, <2>2
<1>c. ASSUME NEW f, NEW m, NEW t, ToCompile(p, f, m, t), pc[p] \in {"assemble", "validate"}
      PROVE  Handled(p)' /\ pc'[p] \in Places
  <2>1. pc' = [pc EXCEPT ![p] = "compile"] /\ call' = call
        /\ work' = [work EXCEPT ![p].files = f, ![p].main = m, ![p].template = t]
    BY <1>c DEF ToCompile
  <2>2. work'[p].pages = work[p].pages /\ DOMAIN work'[p] = DOMAIN NoWork
    BY <1>a, <2>1 DEF Handled
  <2>3. work[p].pages = <<>> /\ "compile" \in PlacesOf(call[p].op)
    BY <1>a, <1>c, <1>d DEF Handled, PagesWanted, PlacesOf, Operations
  <2> QED BY <1>b, <1>c, <2>1, <2>2, <2>3 DEF Places
<1>7. CASE Fetch(p)
  <2>1. CASE (\E f, k : Refuse(p, f, k)) \/ \E kind, k : ReadFails(p, kind, k) BY <1>2, <1>3, <2>1
  <2>2. CASE ~((\E f, k : Refuse(p, f, k)) \/ \E kind, k : ReadFails(p, kind, k))
    <3>1. PICK at, assets : work' = [work EXCEPT ![p].at = at, ![p].assets = assets]
      BY <1>7, <2>2 DEF Fetch
    <3>2. /\ pc[p] = "fetch" /\ call' = call
          /\ \/ pc' = [pc EXCEPT ![p] = AfterAssets(call[p])] \/ pc' = [pc EXCEPT ![p] = "fetch"]
      BY <1>7, <2>2 DEF Fetch
    <3>3. {"fetch", AfterAssets(call[p])} \subseteq PlacesOf(call[p].op)
          /\ AfterAssets(call[p]) \in {"assemble", "validate"}
      BY <1>a, <1>d, <3>2 DEF Handled, PlacesOf, AfterAssets, Operations
    <3>4. work[p].pages = <<>> BY <1>a, <3>2 DEF Handled, PagesWanted
    <3>5. work'[p].pages = work[p].pages /\ DOMAIN work'[p] = DOMAIN NoWork
      BY <1>a, <3>1 DEF Handled
    <3> QED BY <1>b, <3>2, <3>3, <3>4, <3>5 DEF Places
  <2> QED BY <2>1, <2>2
<1>8. CASE Assemble(p)
  <2>1. pc[p] = "assemble"
        /\ \/ \E f, k : Refuse(p, f, k) \/ \E kind : ReadFails(p, kind, k)
           \/ \E f, m, t : ToCompile(p, f, m, t)
    BY <1>8 DEF Assemble
  <2> QED BY <1>2, <1>3, <1>c, <2>1
<1>9. CASE Validate(p)
  <2> DEFINE t == FromSourceFiles(call[p].files \o work[p].assets)
  <2>1. pc[p] = "validate"
        /\ \/ \E f, k : Refuse(p, f, k)
           \/ \E f, m, u : ToCompile(p, f, m, u)
           \/ Goto(p, "store") /\ work' = [work EXCEPT ![p].template = t] /\ call' = call
    BY <1>9 DEF Validate
  <2>2. CASE Goto(p, "store") /\ work' = [work EXCEPT ![p].template = t] /\ call' = call
    <3> HIDE DEF t
    <3>1. work'[p].pages = work[p].pages /\ DOMAIN work'[p] = DOMAIN NoWork
      BY <1>a, <2>2 DEF Handled
    <3>2. work[p].pages = <<>> /\ "store" \in PlacesOf(call[p].op) /\ call[p].op # "render"
      BY <1>a, <1>d, <2>1 DEF Handled, PagesWanted, PlacesOf, Operations
    <3> QED BY <1>b, <2>1, <2>2, <3>1, <3>2 DEF Places
  <2> QED BY <1>2, <1>c, <2>1, <2>2
<1>10. CASE WorkerFails(p) BY <1>2, <1>10 DEF WorkerFails
<1>11. CASE DocumentFails(p) BY <1>1, <1>11 DEF DocumentFails
<1>12. CASE Compiles(p)
  <2> DEFINE wanted == IF call[p].op = "render" THEN PagesOf(call[p].request) ELSE <<>>
  <2>1. pc[p] = "compile"
        /\ \/ \E s, k : Answer(p, s, k)
           \/ Goto(p, "store") /\ work' = [work EXCEPT ![p].pages = wanted] /\ call' = call
    BY <1>12 DEF Compiles
  <2>2. CASE Goto(p, "store") /\ work' = [work EXCEPT ![p].pages = wanted] /\ call' = call
    <3>1. work'[p].pages = wanted /\ DOMAIN work'[p] = DOMAIN NoWork
      BY <1>a, <2>2 DEF Handled
    <3>2. "store" \in PlacesOf(call[p].op)
      BY <1>a, <1>d, <2>1 DEF Handled, PlacesOf, Operations
    <3> QED BY <1>b, <2>1, <2>2, <3>1, <3>2 DEF Places
  <2> QED BY <1>4, <2>1, <2>2
<1>13. CASE Store(p)
  <2>1. pc[p] = "store"
        /\ \/ \E f, k : Refuse(p, f, k)
           \/ \E s, k : Answer(p, s, k)
           \/ \E k : Goto(p, "preview") /\ work' = [work EXCEPT ![p].doc = k, ![p].at = 1]
                     /\ call' = call /\ work[p].pages # <<>>
    BY <1>13 DEF Store, Put
  <2>2. ASSUME NEW k, Goto(p, "preview"), work' = [work EXCEPT ![p].doc = k, ![p].at = 1],
               call' = call, work[p].pages # <<>>
        PROVE  Handled(p)' /\ pc'[p] \in Places
    <3>1. work'[p].pages = work[p].pages /\ DOMAIN work'[p] = DOMAIN NoWork
      BY <1>a, <2>2 DEF Handled
    <3>2. call[p].op = "render" /\ work[p].pages = PagesOf(call[p].request)
      BY <1>a, <2>1, <2>2 DEF Handled, PagesWanted
    <3>3. "preview" \in PlacesOf(call[p].op) BY <3>2 DEF PlacesOf
    <3> QED BY <1>b, <2>1, <2>2, <3>1, <3>2, <3>3 DEF Places
  <2> QED BY <1>2, <1>4, <2>1, <2>2
<1>14. CASE Preview(p)
  <2>1. pc[p] = "preview"
        /\ \/ \E f, k : Refuse(p, f, k)
           \/ \E s, k : Answer(p, s, k)
           \/ \E at : UNCHANGED <<pc, call>> /\ work' = [work EXCEPT ![p].at = at]
    BY <1>14 DEF Preview, PreviewRefused
  <2>2. ASSUME NEW at, UNCHANGED <<pc, call>>, work' = [work EXCEPT ![p].at = at]
        PROVE  Handled(p)' /\ pc'[p] \in Places
    <3>1. work'[p].pages = work[p].pages /\ DOMAIN work'[p] = DOMAIN NoWork
      BY <1>a, <2>2 DEF Handled
    <3> QED BY <1>a, <2>1, <2>2, <3>1 DEF Handled, PagesWanted, Places
  <2> QED BY <1>2, <1>4, <2>1, <2>2
<1>15. CASE List(p)
  <2>1. PICK ids : work' = [work EXCEPT ![p].ids = ids] BY <1>15 DEF List
  <2>2. pc[p] = "list" /\ pc' = [pc EXCEPT ![p] = "reading"] /\ call' = call BY <1>15 DEF List
  <2>3. work'[p].pages = work[p].pages /\ DOMAIN work'[p] = DOMAIN NoWork
    BY <1>a, <2>1 DEF Handled
  <2>4. work[p].pages = <<>> /\ "reading" \in PlacesOf(call[p].op)
    BY <1>a, <2>2 DEF Handled, PagesWanted, PlacesOf
  <2> QED BY <1>b, <2>2, <2>3, <2>4 DEF Places
<1>16. CASE Reading(p)
  <2>1. pc[p] = "reading"
        /\ \/ \E f, k : Refuse(p, f, k)
           \/ \E kind, k : ReadFails(p, kind, k)
           \/ \E a : Reply(p, a)
           \/ \E k : UNCHANGED <<pc, call>>
                     /\ work' = [work EXCEPT ![p].ids = @ \ {k}, ![p].listed = @ \cup {k}]
    BY <1>16 DEF Reading, Listing
  <2>2. ASSUME NEW k, UNCHANGED <<pc, call>>,
               work' = [work EXCEPT ![p].ids = @ \ {k}, ![p].listed = @ \cup {k}]
        PROVE  Handled(p)' /\ pc'[p] \in Places
    <3>1. work'[p].pages = work[p].pages /\ DOMAIN work'[p] = DOMAIN NoWork
      BY <1>a, <2>2 DEF Handled
    <3> QED BY <1>a, <2>1, <2>2, <3>1 DEF Handled, PagesWanted, Places
  <2> QED BY <1>1, <1>2, <1>3, <2>1, <2>2
<1>17. CASE Assets(p) BY <1>1, <1>17 DEF Assets, Listing
<1>18. CASE Schema(p) BY <1>2, <1>3, <1>4, <1>18 DEF Schema
<1>19. CASE Link(p) BY <1>2, <1>4, <1>19 DEF Link
<1>20. CASE Delete(p)
  <2>1. pc[p] = "delete"
        /\ \/ \E f, k : Refuse(p, f, k)
           \/ Goto(p, "removing") /\ UNCHANGED <<call, work>>
    BY <1>20 DEF Delete
  <2>2. CASE Goto(p, "removing") /\ UNCHANGED <<call, work>>
    <3>1. work[p].pages = <<>> /\ "removing" \in PlacesOf(call[p].op)
          /\ DOMAIN work[p] = DOMAIN NoWork
      BY <1>a, <1>d, <2>1 DEF Handled, PagesWanted, PlacesOf, Operations
    <3> QED BY <1>b, <2>1, <2>2, <3>1 DEF Places
  <2> QED BY <1>2, <2>1, <2>2
<1>21. CASE Removing(p) BY <1>4, <1>21 DEF Removing
<1> QED BY <1>5, <1>6, <1>7, <1>8, <1>9, <1>10, <1>11, <1>12, <1>13, <1>14, <1>15, <1>16,
           <1>17, <1>18, <1>19, <1>20, <1>21 DEF HandlerStep

(* How a handler comes to remove a template, to read what it lists, and to *)
(* store previews.                                                         *)
Lists(p) ==
  /\ NoStore /\ call' = call
  /\ \/ List(p)
     \/ /\ pc[p] = "reading"
        /\ \E k : work' = [work EXCEPT ![p].ids = @ \ {k}, ![p].listed = @ \cup {k}]
Begun(p) ==
  /\ Puts(p) /\ work[p].pages # <<>> /\ call' = call
  /\ \E k \in Keys \ minted : /\ KindOf[k] = KindStored(call[p]) /\ minted' = minted \cup {k}
                              /\ blob' = Holding(k, Payload(p))
                              /\ work' = [work EXCEPT ![p].doc = k, ![p].at = 1]
Continued(p) ==
  /\ Adds(p) /\ work[p].at # Len(work[p].pages)
  /\ work' = [work EXCEPT ![p].at = work[p].at + 1]
Arrival(p) ==
  /\ pc'[p] = "removing" => Dooms(p)
  /\ pc'[p] = "reading" => Lists(p)
  /\ pc'[p] = "preview" => Begun(p) \/ Continued(p)
(* What is true of a handler wherever its step took it.                    *)
LEMMA Arrivals ==
  ASSUME TypeOK, AllHandled, NEW p \in Handlers, HandlerStep(p)
  PROVE  Arrival(p)
<1> USE DEF Goto
<1>a. /\ Handled(p) /\ DOMAIN work = Handlers /\ DOMAIN call = Handlers
      /\ pc \in [Handlers -> Places]
  BY DEF AllHandled, TypeOK
<1>1. ASSUME NEW a, Reply(p, a) PROVE Arrival(p) BY <1>1, ReplyEnds DEF Arrival
<1>2. ASSUME NEW f, NEW k, Refuse(p, f, k) PROVE Arrival(p) BY <1>1, <1>2 DEF Refuse, Answer
<1>3. ASSUME NEW kind, NEW k, ReadFails(p, kind, k) PROVE Arrival(p) BY <1>2, <1>3 DEF ReadFails
<1>4. ASSUME NEW s, NEW k, Answer(p, s, k) PROVE Arrival(p) BY <1>1, <1>4 DEF Answer
<1>b. ASSUME pc'[p] \notin {"removing", "reading", "preview"} PROVE Arrival(p) BY <1>b DEF Arrival
<1>5. CASE Begin(p)
  <2>1. ASSUME NEW c \in Calls[p], FirstFault(c) = "ok", Goto(p, FirstStep(c)) PROVE Arrival(p)
    <3>1. pc'[p] = FirstStep(c) BY <1>a, <2>1
    <3> QED BY <1>b, <2>1, <3>1, OperationsKnown DEF FirstStep, AfterAssets, Operations
  <2> QED BY <1>2, <1>5, <2>1 DEF Begin
<1>6. CASE Preflight(p)
  <2>1. (\E f, k : Refuse(p, f, k)) \/ pc'[p] \in {"preflight", "fetch"}
    BY <1>a, <1>6 DEF Preflight
  <2> QED BY <1>2, <1>b, <2>1
<1>7. CASE Fetch(p)
  <2>1. (\E f, k : Refuse(p, f, k)) \/ (\E kind, k : ReadFails(p, kind, k))
          \/ pc'[p] \in {"assemble", "validate", "fetch"}
    BY <1>a, <1>7 DEF Fetch, AfterAssets
  <2> QED BY <1>2, <1>3, <1>b, <2>1
<1>8. CASE Assemble(p)
  <2>1. (\E f, k : Refuse(p, f, k)) \/ (\E kind, k : ReadFails(p, kind, k)) \/ pc'[p] = "compile"
    BY <1>a, <1>8 DEF Assemble, ToCompile
  <2> QED BY <1>2, <1>3, <1>b, <2>1
<1>9. CASE Validate(p)
  <2>1. (\E f, k : Refuse(p, f, k)) \/ pc'[p] \in {"store", "compile"}
    BY <1>a, <1>9 DEF Validate, ToCompile
  <2> QED BY <1>2, <1>b, <2>1
<1>10. CASE WorkerFails(p) BY <1>2, <1>10 DEF WorkerFails
<1>11. CASE DocumentFails(p) BY <1>1, <1>11 DEF DocumentFails
<1>12. CASE Compiles(p)
  <2>1. (\E s, k : Answer(p, s, k)) \/ pc'[p] = "store" BY <1>a, <1>12 DEF Compiles
  <2> QED BY <1>4, <1>b, <2>1
<1>13. CASE Store(p)
  <2>1. CASE (\E f, k : Refuse(p, f, k)) \/ (\E s, k : Answer(p, s, k)) BY <1>2, <1>4, <2>1
  <2>2. CASE ~((\E f, k : Refuse(p, f, k)) \/ (\E s, k : Answer(p, s, k)))
    <3>1. PICK k \in Keys \ minted :
            /\ TenantOf[k] = call[p].tenant /\ KindOf[k] = KindStored(call[p])
            /\ ObjectsStore!HasRoom(k, PayloadBytes(p)) /\ Put(p, k)
      BY <1>13, <2>2 DEF Store
    <3>2. Puts(p) BY <1>13, <3>1 DEF Puts, Store
    <3>3. /\ work[p].pages # <<>> /\ work' = [work EXCEPT ![p].doc = k, ![p].at = 1]
          /\ pc' = [pc EXCEPT ![p] = "preview"] /\ call' = call
          /\ minted' = minted \cup {k} /\ blob' = Holding(k, Payload(p))
      BY <2>2, <3>1 DEF Put
    <3>4. Begun(p) BY <3>1, <3>2, <3>3 DEF Begun
    <3> QED BY <1>a, <3>3, <3>4 DEF Arrival
  <2> QED BY <2>1, <2>2
<1>14. CASE Preview(p)
  <2>1. CASE (\E f, k : Refuse(p, f, k)) \/ (\E s, k : Answer(p, s, k)) BY <1>2, <1>4, <2>1
  <2>2. CASE ~((\E f, k : Refuse(p, f, k)) \/ (\E s, k : Answer(p, s, k)))
    <3>1. /\ PreviewFits(work[p].doc) /\ pc[p] = "preview" /\ pc' = pc
          /\ objects' = ObjectsStore!Grown(work[p].doc, PreviewBytes)
          /\ UNCHANGED <<doomed, minted, now>>
          /\ blob' = IF work[p].doc \in Stored
                     THEN [blob EXCEPT ![work[p].doc].previews =
                             @ \cup {work[p].pages[work[p].at]}]
                     ELSE Holding(work[p].doc,
                            [document |-> FALSE, previews |-> {work[p].pages[work[p].at]}])
          /\ work[p].at # Len(work[p].pages)
          /\ work' = [work EXCEPT ![p].at = work[p].at + 1]
      BY <1>14, <2>2 DEF Preview, PreviewRefused
    <3>2. Adds(p) BY <1>14, <3>1 DEF Adds
    <3>3. Continued(p) BY <3>1, <3>2 DEF Continued
    <3> QED BY <1>a, <3>1, <3>3 DEF Arrival
  <2> QED BY <2>1, <2>2
<1>15. CASE List(p)
  <2>1. Lists(p) BY <1>15 DEF List, Lists
  <2>2. pc'[p] = "reading" BY <1>a, <1>15 DEF List
  <2> QED BY <2>1, <2>2 DEF Arrival
<1>16. CASE Reading(p)
  <2>1. \/ \E f, k : Refuse(p, f, k)
        \/ \E kind, k : ReadFails(p, kind, k)
        \/ \E a : Reply(p, a)
        \/ Lists(p) /\ pc' = pc /\ pc[p] = "reading"
    BY <1>16 DEF Reading, Listing, Lists
  <2> QED BY <1>1, <1>2, <1>3, <2>1 DEF Arrival
<1>17. CASE Assets(p) BY <1>1, <1>17 DEF Assets, Listing
<1>18. CASE Schema(p) BY <1>2, <1>3, <1>4, <1>18 DEF Schema
<1>19. CASE Link(p) BY <1>2, <1>4, <1>19 DEF Link
<1>20. CASE Delete(p)
  <2>1. (\E f, k : Refuse(p, f, k)) \/ (Dooms(p) /\ pc'[p] = "removing")
    BY <1>a, <1>20 DEF Delete, Dooms
  <2> QED BY <1>2, <2>1 DEF Arrival
<1>21. CASE Removing(p) BY <1>4, <1>21 DEF Removing
<1> QED BY <1>5, <1>6, <1>7, <1>8, <1>9, <1>10, <1>11, <1>12, <1>13, <1>14, <1>15, <1>16,
           <1>17, <1>18, <1>19, <1>20, <1>21 DEF HandlerStep

-----------------------------------------------------------------------------
(* The invariant is kept.                                                  *)

LEMMA TypesKept ==
  ASSUME IInv, Next
  PROVE  TypeOK' /\ AllHandled'
<1> USE Steps DEF IInv
<1>1. CASE StoreStep
  <2>1. Fine BY <1>1, StoreSpares
  <2>2. UNCHANGED <<pc, call, work>> /\ answer' = NoAnswers BY <1>1, StoreMovesNobody
  <2>3. \A q \in Handlers : Handled(q)' <=> Handled(q) BY <2>2 DEF Handled, PagesWanted
  <2> QED BY <2>1, <2>2, <2>3 DEF TypeOK, AllHandled, NoAnswers, Track, LiveIds, Stored, Fine
<1>2. ASSUME NEW p \in Handlers, HandlerStep(p) PROVE TypeOK' /\ AllHandled'
  <2>1. Fine BY <1>2, WhatIsSpared
  <2>2. Frame(p) BY <1>2, OthersUnmoved
  <2>3. Handled(p)' /\ pc'[p] \in Places BY <1>2, HandlerMoves
  <2>4. \A q \in Handlers \ {p} : Handled(q)' <=> Handled(q)
    BY <2>2 DEF Handled, PagesWanted, Frame
  <2>5. pc' \in [Handlers -> Places] BY <2>2, <2>3 DEF TypeOK, Frame
  <2>6. TypeOK' BY <2>1, <2>2, <2>5 DEF TypeOK, Track, LiveIds, Stored, Fine, Frame
  <2>7. AllHandled' BY <2>3, <2>4 DEF AllHandled
  <2> QED BY <2>6, <2>7
<1> QED BY <1>1, <1>2

(* A template being removed stays doomed until its remover is done.        *)
LEMMA RemovalsKept ==
  ASSUME IInv, Next
  PROVE  Removals'
<1> USE Steps DEF IInv
<1>1. CASE StoreStep
  <2>1. Fine BY <1>1, StoreSpares
  <2>2. UNCHANGED <<pc, call, work>> BY <1>1, StoreMovesNobody
  <2>3. ASSUME NEW q \in Handlers, pc[q] = "removing" PROVE call[q].key \in doomed'
    <3>1. call[q].key \in doomed BY <2>3 DEF Removals
    <3>2. \A k \in doomed \ doomed' : Removers(k) = {}
      BY <1>1 DEF StoreStep, Evict, ObjectsStore!Evict, Reaped, Reap, ObjectsStore!Doom, Tick,
                  ObjectsStore!Tick
    <3>3. q \in Removers(call[q].key) BY <2>3 DEF Removers
    <3> QED BY <3>1, <3>2, <3>3
  <2> QED BY <2>1, <2>2, <2>3 DEF Removals, Fine
<1>2. ASSUME NEW p \in Handlers, HandlerStep(p) PROVE Removals'
  <2>1. Fine BY <1>2, WhatIsSpared
  <2>2. Frame(p) BY <1>2, OthersUnmoved
  <2>3. Arrival(p) BY <1>2, Arrivals
  <2>4. \A k \in doomed \ doomed' : Removers(k) = {p}
    <3>1. CASE Removing(p) BY <3>1 DEF Removing
    <3>2. CASE NoStore \/ Puts(p) \/ Adds(p) \/ Dooms(p)
      <4>1. doomed \subseteq doomed'
        BY <3>2, PutSpares, AddSpares DEF NoStore, storeVars, Dooms
      <4> QED BY <4>1
    <3> QED BY <1>2, <3>1, <3>2, HandlersTouch
  <2>5. ASSUME NEW q \in Handlers \ {p}, pc'[q] = "removing" PROVE call'[q].key \in doomed'
    <3>1. pc[q] = "removing" /\ call'[q] = call[q] BY <2>2, <2>5 DEF Frame
    <3>2. call[q].key \in doomed /\ q \in Removers(call[q].key) BY <3>1 DEF Removals, Removers
    <3> QED BY <2>4, <3>1, <3>2
  <2>6. ASSUME pc'[p] = "removing" PROVE call'[p].key \in doomed'
    BY <2>3, <2>6 DEF Arrival, Dooms
  <2> QED BY <2>1, <2>5, <2>6 DEF Removals, Fine
<1> QED BY <1>1, <1>2

(* What a listing found, and what it still has to read, stay what was live.*)
LEMMA ListingsKept ==
  ASSUME IInv, Next
  PROVE  Watches' /\ Listings'
<1> USE Steps DEF IInv
<1>1. /\ Watches' /\ watch' \in [Handlers -> SUBSET LiveIds']
      /\ \A q \in Handlers : pc[q] # "idle" => watch'[q] \subseteq watch[q]
  BY DEF Track, Watches
<1>2. ASSUME NEW q \in Handlers, pc'[q] = "reading", call'[q].stored, pc[q] = pc'[q],
             call'[q] = call[q], work'[q] = work[q]
      PROVE  {k \in watch'[q] : TenantOf[k] = call'[q].tenant /\ KindOf[k] = "tpl"}
               \subseteq work'[q].ids \cup work'[q].listed
  BY <1>1, <1>2 DEF Listings
<1>3. CASE StoreStep
  <2>1. UNCHANGED <<pc, call, work>> BY <1>3, StoreMovesNobody
  <2> QED BY <1>1, <1>2, <2>1 DEF Listings
<1>4. ASSUME NEW p \in Handlers, HandlerStep(p) PROVE Listings'
  <2>1. Frame(p) BY <1>4, OthersUnmoved
  <2>2. Arrival(p) BY <1>4, Arrivals
  <2>3. ASSUME pc'[p] = "reading", call'[p].stored
        PROVE  {k \in watch'[p] : TenantOf[k] = call'[p].tenant /\ KindOf[k] = "tpl"}
                 \subseteq work'[p].ids \cup work'[p].listed
    <3>1. Lists(p) BY <2>2, <2>3 DEF Arrival
    <3>2. DOMAIN work = Handlers /\ DOMAIN work[p] = DOMAIN NoWork
      BY DEF TypeOK, AllHandled, Handled
    <3>3. CASE List(p)
      <4>1. work'[p].ids = {k \in Stored : Lookup(call[p].tenant, "tpl", k) = "ok"}
        BY <2>3, <3>1, <3>2, <3>3, Fields DEF List, Lists
      <4>2. LiveIds' = LiveIds
        BY <3>1 DEF Lists, NoStore, storeVars, LiveIds, Stored, ObjectsStore!IsLive,
                    ObjectsStore!Stored, ObjectsStore!Expired
      <4>3. \A k \in LiveIds : TenantOf[k] = call[p].tenant /\ KindOf[k] = "tpl" =>
              k \in Stored /\ Lookup(call[p].tenant, "tpl", k) = "ok"
        BY SameStore DEF LiveIds, Lookup
      <4> QED BY <1>1, <3>1, <4>1, <4>2, <4>3 DEF Lists
    <3>4. CASE pc[p] = "reading" /\ \E k : work' = [work EXCEPT ![p].ids = @ \ {k},
                                                              ![p].listed = @ \cup {k}]
      <4>1. PICK k : work' = [work EXCEPT ![p].ids = @ \ {k}, ![p].listed = @ \cup {k}]
        BY <3>4
      <4>2. work'[p].ids = work[p].ids \ {k} /\ work'[p].listed = work[p].listed \cup {k}
        BY <3>2, <4>1, Fields
      <4> QED BY <1>1, <2>3, <3>1, <3>4, <4>2 DEF Listings, Lists
    <3> QED BY <3>1, <3>3, <3>4 DEF Lists
  <2>4. ASSUME NEW q \in Handlers \ {p}, pc'[q] = "reading", call'[q].stored
        PROVE  {k \in watch'[q] : TenantOf[k] = call'[q].tenant /\ KindOf[k] = "tpl"}
                 \subseteq work'[q].ids \cup work'[q].listed
    BY <1>2, <2>1, <2>4 DEF Frame
  <2> QED BY <2>3, <2>4 DEF Listings
<1> QED BY <1>1, <1>3, <1>4

(* One handler's document, as Documents says of it.                        *)
Document(p) ==
  LET k == work[p].doc IN
  /\ k \in minted /\ KindOf[k] = "out" /\ work[p].at \in 1..Len(work[p].pages)
  /\ k \in Stored =>
       /\ blob[k] = [document |-> blob[k].document, previews |-> blob[k].previews]
       /\ blob[k].document => blob[k].previews = SoFar(p)
(* A step that spares the document keeps what its previews say of it.      *)
LEMMA DocumentUntouched ==
  ASSUME TypeOK, Documents, Fine, NEW q \in Handlers, pc[q] = "preview",
         work'[q] = work[q], Spared(work[q].doc)
  PROVE  Document(q)'
<1>1. Document(q) BY DEF Documents, Document
<1> QED BY <1>1 DEF Document, SoFar, Fine, Spared, Stored

(* The pages wanted of a render are a list.                                *)
LEMMA PagesAreList ==
  ASSUME AllHandled, NEW p \in Handlers, pc[p] \in {"store", "preview"}, work[p].pages # <<>>
  PROVE  /\ call[p].op = "render" /\ work[p].pages = PagesOf(call[p].request)
         /\ IsList(work[p].pages) /\ Len(work[p].pages) \in Nat \ {0}
<1>1. Handled(p) BY DEF AllHandled
<1>2. call[p].op = "render" /\ work[p].pages = PagesOf(call[p].request) /\ IsCall(call[p])
  BY <1>1, CallsAssumption DEF Handled, PagesWanted
<1>3. IsList(work[p].pages) BY <1>2 DEF IsCall
<1>4. work[p].pages \in Seq(Elements(work[p].pages)) BY <1>3 DEF IsList
<1> QED BY <1>2, <1>3, <1>4

(* A render that stored its document starts with no preview and a new key. *)
LEMMA BegunDocument ==
  ASSUME IInv, NEW p \in Handlers, Begun(p)
  PROVE  Document(p)' /\ work'[p].doc \notin minted
<1> USE DEF IInv
<1>1. PICK k \in Keys \ minted :
        /\ KindOf[k] = KindStored(call[p]) /\ minted' = minted \cup {k}
        /\ blob' = Holding(k, Payload(p)) /\ work' = [work EXCEPT ![p].doc = k, ![p].at = 1]
  BY DEF Begun
<1>2. pc[p] = "store" /\ work[p].pages # <<>> BY DEF Begun, Puts
<1>3. call[p].op = "render" /\ Len(work[p].pages) \in Nat \ {0} BY <1>2, PagesAreList
<1>4. DOMAIN work = Handlers /\ DOMAIN work[p] = DOMAIN NoWork
  BY DEF TypeOK, AllHandled, Handled
<1>5. work'[p].doc = k /\ work'[p].at = 1 /\ work'[p].pages = work[p].pages
  BY <1>1, <1>4, Fields
<1>6. Payload(p) = [document |-> TRUE, previews |-> {}] /\ KindStored(call[p]) = "out"
  BY <1>3 DEF Payload, KindStored
<1>7. blob'[k] = [document |-> TRUE, previews |-> {}] BY <1>1, <1>6 DEF Holding
<1>8. SoFar(p)' = {} BY <1>5 DEF SoFar
<1>9. k \in minted' /\ KindOf[k] = "out" /\ 1 \in 1..Len(work[p].pages)
  BY <1>1, <1>3, <1>6
<1>10. blob'[k].document /\ blob'[k].previews = {}
       /\ blob'[k] = [document |-> blob'[k].document, previews |-> blob'[k].previews]
  BY <1>7
<1> QED BY <1>5, <1>8, <1>9, <1>10, <1>1 DEF Document

(* Each preview adds the page that was next, and no other.                 *)
LEMMA ContinuedDocument ==
  ASSUME IInv, NEW p \in Handlers, Continued(p)
  PROVE  Document(p)' /\ work'[p].doc = work[p].doc
<1> USE DEF IInv
<1> DEFINE k == work[p].doc  page == work[p].pages[work[p].at]
<1>1. /\ pc[p] = "preview" /\ minted' = minted
      /\ work' = [work EXCEPT ![p].at = work[p].at + 1] /\ work[p].at # Len(work[p].pages)
      /\ blob' = IF k \in Stored THEN [blob EXCEPT ![k].previews = @ \cup {page}]
                 ELSE Holding(k, [document |-> FALSE, previews |-> {page}])
  BY DEF Continued, Adds
<1>2. DOMAIN work = Handlers /\ DOMAIN work[p] = DOMAIN NoWork /\ DOMAIN blob = Stored
  BY DEF TypeOK, AllHandled, Handled
<1>3. work'[p].doc = k /\ work'[p].at = work[p].at + 1 /\ work'[p].pages = work[p].pages
  BY <1>1, <1>2, Fields
<1>4. Document(p) BY <1>1 DEF Documents, Document
<1>5. work[p].at \in 1..Len(work[p].pages) BY <1>4 DEF Document
<1>6. Len(work[p].pages) \in Nat
  <2>1. work[p].pages # <<>>
    <3>1. SUFFICES ASSUME work[p].pages = <<>> PROVE FALSE OBVIOUS
    <3> QED BY <1>5, <3>1
  <2> QED BY <1>1, <2>1, PagesAreList
<1>7. work'[p].at \in 1..Len(work'[p].pages) BY <1>1, <1>3, <1>5, <1>6
<1>8. SoFar(p)' = SoFar(p) \cup {page}
  <2>1. 1..(work'[p].at - 1) = 1..(work[p].at - 1) \cup {work[p].at} BY <1>3, <1>5, <1>6
  <2> QED BY <1>3, <2>1 DEF SoFar
<1>9. blob'[k] = IF k \in Stored
                 THEN [document |-> blob[k].document, previews |-> blob[k].previews \cup {page}]
                 ELSE [document |-> FALSE, previews |-> {page}]
  <2>1. CASE k \in Stored
    <3>1. blob'[k] = [blob[k] EXCEPT !.previews = @ \cup {page}] BY <1>1, <1>2, <2>1
    <3>2. blob[k] = [document |-> blob[k].document, previews |-> blob[k].previews]
      BY <1>4, <2>1 DEF Document
    <3> HIDE DEF k, page
    <3> QED BY <2>1, <3>1, <3>2
  <2>2. CASE k \notin Stored BY <1>1, <2>2 DEF Holding
  <2> QED BY <2>1, <2>2
<1> HIDE DEF k, page
<1>10. k \in minted /\ KindOf[k] = "out"
       /\ (k \in Stored /\ blob[k].document => blob[k].previews = SoFar(p))
  BY <1>4 DEF Document, k
<1>11. blob'[k] = [document |-> blob'[k].document, previews |-> blob'[k].previews]
       /\ (blob'[k].document => blob'[k].previews = SoFar(p)')
  <2>1. CASE k \in Stored
    <3>1. /\ blob'[k].document = blob[k].document
          /\ blob'[k].previews = blob[k].previews \cup {page}
          /\ blob'[k] = [document |-> blob'[k].document, previews |-> blob'[k].previews]
      BY <1>9, <2>1
    <3> QED BY <1>8, <1>10, <2>1, <3>1
  <2>2. CASE k \notin Stored
    <3>1. blob'[k].document = FALSE
          /\ blob'[k] = [document |-> blob'[k].document, previews |-> blob'[k].previews]
      BY <1>9, <2>2
    <3> QED BY <3>1
  <2> QED BY <2>1, <2>2
<1>12. work'[p].doc = k /\ k \in minted' BY <1>1, <1>3, <1>10
<1> QED BY <1>7, <1>10, <1>11, <1>12, <1>3 DEF Document, k

(* The renders' documents hold the previews stored so far.                 *)
LEMMA DocumentsKept ==
  ASSUME IInv, Next
  PROVE  Documents'
<1> USE Steps DEF IInv
<1>1. CASE StoreStep
  <2>1. Fine /\ \A k : Spared(k) BY <1>1, StoreSpares
  <2>2. UNCHANGED <<pc, call, work>> BY <1>1, StoreMovesNobody
  <2>3. \A q \in Handlers : pc'[q] = "preview" => Document(q)' BY <2>1, <2>2, DocumentUntouched
  <2> QED BY <2>2, <2>3 DEF Documents, Document
<1>2. ASSUME NEW p \in Handlers, HandlerStep(p) PROVE Documents'
  <2>1. Fine /\ \A k \in minted : Spared(k) \/ (pc[p] = "preview" /\ k = work[p].doc)
    BY <1>2, WhatIsSpared
  <2>2. Frame(p) BY <1>2, OthersUnmoved
  <2>3. Arrival(p) BY <1>2, Arrivals
  <2>4. ASSUME NEW q \in Handlers \ {p}, pc'[q] = "preview"
        PROVE  Document(q)' /\ pc[q] = "preview" /\ work'[q] = work[q] /\ work[q].doc \in minted
    <3>1. pc[q] = "preview" /\ work'[q] = work[q] BY <2>2, <2>4 DEF Frame
    <3>2. work[q].doc \in minted BY <3>1 DEF Documents
    <3>3. Spared(work[q].doc) BY <2>1, <3>1, <3>2 DEF Documents
    <3> QED BY <2>1, <3>1, <3>2, <3>3, DocumentUntouched
  <2>5. ASSUME pc'[p] = "preview"
        PROVE  /\ Document(p)'
               /\ work'[p].doc \notin minted \/ (pc[p] = "preview" /\ work'[p].doc = work[p].doc)
    BY <2>3, <2>5, BegunDocument, ContinuedDocument DEF Arrival, Continued, Adds
  <2>6. \A q \in Handlers : pc'[q] = "preview" => Document(q)' BY <2>4, <2>5
  <2>7. ASSUME NEW q \in Handlers \ {p}, pc'[q] = "preview", pc'[p] = "preview",
               work'[q].doc = work'[p].doc
        PROVE  FALSE
    BY <2>4, <2>5, <2>7 DEF Documents
  <2>8. ASSUME NEW q \in Handlers, NEW r \in Handlers, pc'[q] = "preview", pc'[r] = "preview",
               work'[q].doc = work'[r].doc
        PROVE  q = r
    <3>1. CASE q # p /\ r # p
      <4>1. pc[q] = "preview" /\ pc[r] = "preview" /\ work[q].doc = work[r].doc
        BY <2>4, <2>8, <3>1
      <4> QED BY <4>1 DEF Documents
    <3> QED BY <2>7, <2>8, <3>1
  <2> QED BY <2>6, <2>8 DEF Documents, Document
<1> QED BY <1>1, <1>2

(* The first inductive invariant: it holds at first,                       *)
LEMMA InitialStates == Init => IInv
<1> SUFFICES ASSUME Init PROVE IInv OBVIOUS
<1>1. pc = [p \in Handlers |-> "idle"] /\ work = [p \in Handlers |-> NoWork] BY DEF Init
<1>2. Stored = {} /\ minted = {} /\ doomed = {} /\ DOMAIN blob = {}
  BY DEF Init, Stored, ObjectsStore!Init
<1> QED BY <1>1, <1>2 DEF Init, IInv, TypeOK, AllHandled, Handled, Removals, Watches, Listings,
                        Documents, Places, NoAnswers

(* every step keeps it,                                                    *)
LEMMA InductiveStep == IInv /\ [Next]_vars => IInv'
<1> SUFFICES ASSUME IInv, Next \/ UNCHANGED vars PROVE IInv' OBVIOUS
<1>1. CASE Next
  BY <1>1, TypesKept, RemovalsKept, ListingsKept, DocumentsKept DEF IInv
<1>2. CASE UNCHANGED vars
  <2> USE DEF IInv, vars, storeVars, handlerVars
  <2>1. TypeOK' BY <1>2 DEF TypeOK, Stored
  <2>2. AllHandled' BY <1>2 DEF AllHandled, Handled, PagesWanted
  <2>3. Removals' BY <1>2 DEF Removals
  <2>4. Watches' BY <1>2 DEF Watches, LiveIds, Stored, ObjectsStore!IsLive,
                            ObjectsStore!Stored, ObjectsStore!Expired
  <2>5. Listings' BY <1>2 DEF Listings
  <2>6. Documents' BY <1>2 DEF Documents, SoFar, Stored
  <2> QED BY <2>1, <2>2, <2>3, <2>4, <2>5, <2>6
<1> QED BY <1>1, <1>2

(* and so it always holds.                                                 *)
LEMMA Invariance == Spec => []IInv
<1> QED BY InitialStates, InductiveStep, PTL DEF Spec

-----------------------------------------------------------------------------
(* What follows from it.                                                   *)

(* Where handlers are, and that what is stored under an id is kept exactly *)
(* as long as its entry.                                                   *)
THEOREM TypeCorrect == Spec => []TypeOK
<1>1. IInv => TypeOK BY DEF IInv
<1> QED BY <1>1, Invariance, PTL

(* No refusal says that all is well.                                       *)
LEMMA RefusalsAreNot200 == \A fault : StatusOf(fault) \notin {"200", "204"}
BY DEF StatusOf

(* What a step of one handler answers, nobody else is answered in.         *)
AnsweredWell(p) ==
  Answered(p) /\ call[p].op = "render" /\ answer'[p].status = "200" =>
    Complete(answer'[p].key, PagesOf(call[p].request))

(* When a render is answered that all went well, all its previews are      *)
(* there: it asked for none, or the last one was just stored.              *)
LEMMA AnswersComplete ==
  ASSUME IInv, NEW p \in Handlers, HandlerStep(p), TypeOK'
  PROVE  AnsweredWell(p)
<1> USE DEF IInv
<1>a. /\ DOMAIN answer = Handlers /\ DOMAIN work = Handlers /\ pc \in [Handlers -> Places]
      /\ DOMAIN blob = Stored /\ DOMAIN blob' \subseteq Keys
  BY DEF TypeOK
<1>b. pc[p] # "idle" => Handled(p) BY DEF AllHandled
<1>c. pc[p] # "idle" /\ call[p].op = "render" =>
        pc[p] \in {"preflight", "fetch", "assemble", "compile", "store", "preview"}
  BY <1>b DEF Handled, PlacesOf
<1>1. ASSUME NEW a, Reply(p, a), a.status # "200" PROVE AnsweredWell(p)
  BY <1>1, ReplyEnds DEF AnsweredWell
<1>2. ASSUME NEW f, NEW k, Refuse(p, f, k) PROVE AnsweredWell(p)
  BY <1>1, <1>2, RefusalsAreNot200 DEF Refuse, Answer, NoAnswer
<1>3. ASSUME NEW kind, NEW k, ReadFails(p, kind, k) PROVE AnsweredWell(p)
  BY <1>2, <1>3 DEF ReadFails
<1>4. ASSUME NEW k, Answer(p, "200", k) PROVE answer'[p].key = k
  <2> DEFINE a == [NoAnswer EXCEPT !.status = "200", !.key = k]
  <2>1. a.key = k BY DEF NoAnswer
  <2>2. Reply(p, a) BY <1>4 DEF Answer
  <2> HIDE DEF a
  <2> QED BY <2>1, <2>2, ReplyEnds
<1>5. ASSUME pc'[p] # "idle" PROVE AnsweredWell(p) BY <1>5 DEF AnsweredWell, Answered
<1>6. ASSUME pc[p] \notin {"compile", "store", "preview"}, ~(\E f, k : Refuse(p, f, k)),
             ~(\E kind, k : ReadFails(p, kind, k))
      PROVE  AnsweredWell(p)
  <2>1. SUFFICES ASSUME Answered(p), call[p].op = "render" PROVE FALSE
    BY DEF AnsweredWell
  <2>2. pc[p] \in {"preflight", "fetch", "assemble"} BY <1>6, <1>c, <2>1 DEF Answered
  <2>3. Preflight(p) \/ Fetch(p) \/ Assemble(p)
    BY <2>2 DEF HandlerStep, Begin, Validate, WorkerFails, DocumentFails, Compiles, Store,
                Preview, List, Reading, Assets, Schema, Link, Delete, Removing
  <2>4. pc'[p] # "idle"
    BY <1>6, <1>a, <2>2, <2>3 DEF Preflight, Fetch, Assemble, ToCompile, Goto, AfterAssets
  <2> QED BY <2>1, <2>4 DEF Answered
<1>7. CASE pc[p] = "compile"
  <2>1. WorkerFails(p) \/ DocumentFails(p) \/ Compiles(p)
    BY <1>7 DEF HandlerStep, Begin, Preflight, Fetch, Assemble, Validate, Store,
                Preview, List, Reading, Assets, Schema, Link, Delete, Removing
  <2>2. CASE WorkerFails(p) BY <1>2, <2>2 DEF WorkerFails
  <2>3. CASE DocumentFails(p) BY <1>1, <2>3 DEF DocumentFails, NoAnswer
  <2>4. CASE Compiles(p)
    <3>1. \/ \E f : Answer(p, StatusOf(f), NoKey)
          \/ Answer(p, "200", NoKey)
          \/ pc'[p] = "store"
      BY <1>a, <2>4 DEF Compiles, Goto
    <3>2. ASSUME NEW f, Answer(p, StatusOf(f), NoKey) PROVE AnsweredWell(p)
      BY <1>1, <3>2, RefusalsAreNot200 DEF Answer, NoAnswer
    <3>3. ASSUME Answer(p, "200", NoKey) PROVE AnsweredWell(p)
      BY <1>4, <1>a, <3>3, BoundsAssumption DEF AnsweredWell, Complete
    <3> QED BY <1>5, <3>1, <3>2, <3>3
  <2> QED BY <2>1, <2>2, <2>3, <2>4
<1>8. CASE pc[p] = "store"
  <2>1. Store(p)
    BY <1>8 DEF HandlerStep, Begin, Preflight, Fetch, Assemble, Validate, WorkerFails,
                DocumentFails, Compiles, Preview, List, Reading, Assets, Schema, Link, Delete,
                Removing
  <2>2. CASE \E f, k : Refuse(p, f, k) BY <1>2, <2>2
  <2>3. CASE ~\E f, k : Refuse(p, f, k)
    <3>1. PICK k \in Keys \ minted : Put(p, k) BY <2>1, <2>3 DEF Store
    <3>2. CASE work[p].pages = <<>>
      <4>1. SUFFICES ASSUME call[p].op = "render" PROVE AnsweredWell(p) BY DEF AnsweredWell
      <4>2. PagesOf(call[p].request) = <<>>
        BY <1>8, <1>b, <3>2, <4>1 DEF Handled, PagesWanted
      <4>3. blob'[k].previews = {} BY <3>1, <4>1 DEF Put, Holding, Payload
      <4>4. Elements(<<>>) = {} BY DEF Elements
      <4>5. answer'[p].key = k BY <1>4, <3>1, <3>2 DEF Put
      <4> QED BY <4>2, <4>3, <4>4, <4>5 DEF AnsweredWell, Complete
    <3>3. CASE work[p].pages # <<>> BY <1>5, <1>a, <3>1, <3>3 DEF Put, Goto
    <3> QED BY <3>2, <3>3
  <2> QED BY <2>2, <2>3
<1>9. CASE pc[p] = "preview"
  <2>1. Preview(p)
    BY <1>9 DEF HandlerStep, Begin, Preflight, Fetch, Assemble, Validate, WorkerFails,
                DocumentFails, Compiles, Store, List, Reading, Assets, Schema, Link, Delete,
                Removing
  <2>2. CASE \E f, k : Refuse(p, f, k) BY <1>2, <2>2
  <2>3. CASE pc'[p] # "idle" BY <1>5, <2>3
  <2>4. CASE ~(\E f, k : Refuse(p, f, k)) /\ pc'[p] = "idle"
    <3> DEFINE k == work[p].doc  s == work[p].pages  page == s[work[p].at]
    <3>1. /\ Answer(p, "200", k) /\ work[p].at = Len(s)
          /\ blob' = IF k \in Stored THEN [blob EXCEPT ![k].previews = @ \cup {page}]
                     ELSE Holding(k, [document |-> FALSE, previews |-> {page}])
      BY <1>9, <2>1, <2>4 DEF Preview, PreviewRefused
    <3>2. Document(p) BY <1>9 DEF Documents, Document
    <3>3. s # <<>>
      <4>1. SUFFICES ASSUME s = <<>> PROVE FALSE OBVIOUS
      <4> QED BY <3>2, <4>1 DEF Document
    <3>4. s = PagesOf(call[p].request) /\ s \in Seq(Elements(s)) /\ Len(s) \in Nat \ {0}
      BY <1>9, <3>3, PagesAreList DEF IsList
    <3>5. SoFar(p) \cup {page} = Elements(s)
      <4>1. DOMAIN s = 1..Len(s) /\ Len(s) \in Nat \ {0} BY <3>4
      <4>2. 1..Len(s) = 1..(Len(s) - 1) \cup {Len(s)} BY ONLY <4>1, SMT
      <4>3. DOMAIN s = 1..(work[p].at - 1) \cup {work[p].at} BY ONLY <4>1, <4>2, <3>1
      <4> QED BY <4>3 DEF SoFar, Elements
    <3>6. ASSUME blob'[k].document PROVE blob'[k].previews = Elements(s)
      <4>1. CASE k \in Stored
        <5>1. blob'[k] = [blob[k] EXCEPT !.previews = @ \cup {page}] BY <1>a, <3>1, <4>1
        <5>2. blob[k] = [document |-> blob[k].document, previews |-> blob[k].previews]
              /\ (blob[k].document => blob[k].previews = SoFar(p))
          BY <3>2, <4>1 DEF Document
        <5> HIDE DEF k, page, s
        <5>3. blob'[k].document = blob[k].document
              /\ blob'[k].previews = blob[k].previews \cup {page}
          BY <5>1, <5>2
        <5> QED BY <3>5, <3>6, <5>2, <5>3
      <4>2. CASE k \notin Stored
        <5>1. blob'[k].document = FALSE BY <3>1, <4>2 DEF Holding
        <5> QED BY <3>6, <5>1
      <4> QED BY <4>1, <4>2
    <3>7. answer'[p].key = k BY <1>4, <3>1
    <3> HIDE DEF k, page, s
    <3> QED BY <3>4, <3>6, <3>7 DEF AnsweredWell, Complete
  <2> QED BY <2>2, <2>3, <2>4
<1>10. CASE \E f, k : Refuse(p, f, k) BY <1>2, <1>10
<1>11. CASE \E kind, k : ReadFails(p, kind, k) BY <1>3, <1>11
<1> QED BY <1>6, <1>7, <1>8, <1>9, <1>10, <1>11

(* A render that is answered that all went well has all its previews, if   *)
(* its document is still there, whatever was evicted, reaped or stored     *)
(* meanwhile (store_result).                                               *)
THEOREM SuccessesComplete == Spec => SuccessIsComplete
<1>1. IInv /\ IInv' /\ (Next \/ UNCHANGED vars) => \A p \in Handlers : AnsweredWell(p)
  <2> SUFFICES ASSUME IInv, IInv', Next \/ UNCHANGED vars, NEW p \in Handlers, Answered(p)
               PROVE  AnsweredWell(p)
    BY DEF AnsweredWell
  <2>1. Next BY DEF Answered, vars, handlerVars
  <2>2. HandlerStep(p)
    <3>1. ~StoreStep BY StoreMovesNobody DEF Answered
    <3>2. PICK q \in Handlers : HandlerStep(q) BY <2>1, <3>1, Steps
    <3>3. q = p BY <3>2, OthersUnmoved DEF Answered, Frame, IInv
    <3> QED BY <3>2, <3>3
  <2> QED BY <2>2, AnswersComplete DEF IInv
<1>2. (\A p \in Handlers : AnsweredWell(p)) =>
        \A p \in Handlers :
          Answered(p) /\ call[p].op = "render" /\ answer'[p].status = "200" =>
            Complete(answer'[p].key, PagesOf(call[p].request))
  BY DEF AnsweredWell
<1> QED BY <1>1, <1>2, Invariance, PTL DEF Spec, SuccessIsComplete

-----------------------------------------------------------------------------
(* Lists of files.                                                         *)

LEMMA ListsJoin ==
  ASSUME NEW a, NEW b, IsList(a), IsList(b)
  PROVE  IsList(a \o b) /\ Elements(a \o b) = Elements(a) \cup Elements(b)
<1> DEFINE A == Elements(a)  B == Elements(b)  c == a \o b
<1>1. a \in Seq(A) /\ b \in Seq(B) BY DEF IsList
<1>2. a \in Seq(A \cup B) /\ b \in Seq(A \cup B) BY <1>1
<1>3. /\ c \in Seq(A \cup B) /\ DOMAIN c = 1..(Len(a) + Len(b))
      /\ DOMAIN a = 1..Len(a) /\ DOMAIN b = 1..Len(b) /\ Len(a) \in Nat /\ Len(b) \in Nat
      /\ \A i \in 1..Len(a) : c[i] = a[i]
      /\ \A i \in 1..Len(b) : c[Len(a) + i] = b[i]
  <2> HIDE DEF A, B
  <2> QED BY <1>2
<1>4. \A i \in DOMAIN c : c[i] \in A \cup B
  <2> HIDE DEF A, B, c
  <2> QED BY <1>3
<1>5. \A x \in A \cup B : \E i \in DOMAIN c : c[i] = x
  <2> SUFFICES ASSUME NEW x \in A \cup B PROVE \E i \in DOMAIN c : c[i] = x OBVIOUS
  <2>1. CASE x \in A
    <3>1. PICK i \in DOMAIN a : a[i] = x BY <2>1 DEF Elements
    <3>2. c[i] = x /\ i \in DOMAIN c
      <4> HIDE DEF c
      <4> QED BY <1>3, <3>1
    <3> QED BY <3>2
  <2>2. CASE x \in B
    <3>1. PICK i \in DOMAIN b : b[i] = x BY <2>2 DEF Elements
    <3>2. c[Len(a) + i] = x /\ Len(a) + i \in DOMAIN c
      <4> HIDE DEF c
      <4> QED BY <1>3, <3>1
    <3> QED BY <3>2
  <2> QED BY <2>1, <2>2
<1> HIDE DEF A, B, c
<1>6. Elements(c) = A \cup B BY <1>4, <1>5 DEF Elements
<1>7. IsList(c) BY <1>3, <1>6 DEF IsList
<1> QED BY <1>6, <1>7 DEF A, B, c

(* The empty list, and the list of one.                                    *)
LEMMA ShortLists ==
  /\ IsList(<<>>) /\ Elements(<<>>) = {}
  /\ \A x : IsList(<<x>>) /\ Elements(<<x>>) = {x}
<1>1. IsList(<<>>) /\ Elements(<<>>) = {} BY DEF IsList, Elements
<1>2. ASSUME NEW x PROVE IsList(<<x>>) /\ Elements(<<x>>) = {x}
  <2>1. DOMAIN <<x>> = {1} OBVIOUS
  <2>2. <<x>>[1] = x OBVIOUS
  <2>3. Elements(<<x>>) = {x} BY <2>1, <2>2 DEF Elements
  <2> QED BY <2>3 DEF IsList
<1> QED BY <1>1, <1>2

(* A list with one more at its end.                                        *)
LEMMA ListsGrow ==
  ASSUME NEW a, IsList(a), NEW x
  PROVE  /\ IsList(Append(a, x)) /\ Elements(Append(a, x)) = Elements(a) \cup {x}
         /\ Len(Append(a, x)) = Len(a) + 1 /\ DOMAIN a = 1..Len(a) /\ Len(a) \in Nat
         /\ \A i \in DOMAIN a : Append(a, x)[i] = a[i]
         /\ Append(a, x)[Len(a) + 1] = x
<1>1. a \in Seq(Elements(a)) BY DEF IsList
<1>2. a \in Seq(Elements(a) \cup {x}) BY <1>1
<1> DEFINE c == Append(a, x)
<1>3. /\ c \in Seq(Elements(a) \cup {x}) /\ DOMAIN c = 1..(Len(a) + 1) /\ Len(c) = Len(a) + 1
      /\ DOMAIN a = 1..Len(a) /\ Len(a) \in Nat
      /\ (\A i \in DOMAIN a : c[i] = a[i]) /\ c[Len(a) + 1] = x
  BY <1>2
<1> HIDE DEF c
<1>4. Elements(c) = Elements(a) \cup {x} BY <1>3 DEF Elements
<1> QED BY <1>3, <1>4 DEF c, IsList

(* The files of a list are finitely many.                                  *)
LEMMA ElementsFinite ==
  ASSUME NEW a, IsList(a)
  PROVE  IsFiniteSet(Elements(a)) /\ Cardinality(Elements(a)) <= Len(a)
<1>1. a \in Seq(Elements(a)) BY DEF IsList
<1>2. DOMAIN a = 1..Len(a) /\ Len(a) \in Nat /\ a \in [1..Len(a) -> Elements(a)] BY <1>1
<1>3. a \in Surjection(1..Len(a), Elements(a)) BY <1>2 DEF Surjection, Elements
<1>4. IsFiniteSet(1..Len(a)) /\ Cardinality(1..Len(a)) = Len(a) BY <1>2, FS_Interval
<1> QED BY <1>3, <1>4, FS_Surjection

(* A finite set as a list has each element in one place.                   *)
LEMMA ListedRight ==
  ASSUME NEW S, IsFiniteSet(S)
  PROVE  /\ IsList(Listed(S)) /\ Elements(Listed(S)) = S /\ Len(Listed(S)) = Cardinality(S)
         /\ \A i, j \in DOMAIN Listed(S) : Listed(S)[i] = Listed(S)[j] => i = j
<1> DEFINE n == Cardinality(S)  l == Listed(S)
<1>1. n \in Nat /\ ExistsBijection(1..n, S) BY FS_CardinalityType
<1>2. \E f \in [1..n -> S] : IsInjective(f)
  BY <1>1 DEF ExistsBijection, Bijection, Injection
<1>3. l \in [1..n -> S] /\ IsInjective(l) BY <1>2 DEF Listed, SetToSeq
<1> HIDE DEF l, n
<1>4. l \in Injection(1..n, S) BY <1>3 DEF Injection
<1>5. Cardinality(1..n) = n BY <1>1, FS_Interval
<1>6. l \in Surjection(1..n, S) BY <1>4, <1>5, FS_Injection DEF n
<1>7. Elements(l) = S BY <1>3, <1>6 DEF Elements, Surjection
<1>8. l \in Seq(S) /\ Len(l) = n BY <1>1, <1>3
<1> QED BY <1>3, <1>7, <1>8 DEF l, n, IsList, IsInjective

-----------------------------------------------------------------------------
(* What checks let through, and what they say.                             *)

(* None of the checks of files refuses for a reason that is about ids.     *)
AboutIds == {"not_found", "expired", "unknown_template"}
(* No check of a path, a bundle, a source or an archive says "not_found".  *)
LEMMA ReasonsOfChecks ==
  /\ \A path : PathFault(path) \notin AboutIds
  /\ \A main, files, max : BundleFault(main, files, max) \notin AboutIds
  /\ \A files, max : SourceFault(files, max) \notin AboutIds
  /\ \A members, max : ArchiveFault(members, max) \notin AboutIds
  /\ \A t, data, body, extra, overrides, max :
       UseFault(t, data, body, extra, overrides, max) \notin AboutIds
<1> USE DEF AboutIds
<1>1. ASSUME NEW path PROVE PathFault(path) \notin AboutIds
  <2>1. \A seg : SegmentFault(seg) \notin AboutIds BY DEF SegmentFault
  <2> QED BY <2>1 DEF PathFault
<1>2. ASSUME NEW main, NEW files, NEW max PROVE BundleFault(main, files, max) \notin AboutIds
  BY <1>1 DEF BundleFault
<1>3. \A manifest, files, meta : AssembleFault(manifest, files, meta) \notin AboutIds
  BY DEF AssembleFault
<1>4. ASSUME NEW files, NEW max PROVE SourceFault(files, max) \notin AboutIds
  BY <1>2, <1>3 DEF SourceFault
<1>5. \A members, i, max : MemberFault(members, i, max) \notin AboutIds
  BY <1>1 DEF MemberFault
<1>6. ASSUME NEW members, NEW max PROVE ArchiveFault(members, max) \notin AboutIds
  BY <1>4, <1>5 DEF ArchiveFault
<1>7. \A t, o : OverrideFault(t, o) \notin AboutIds BY <1>1 DEF OverrideFault
<1>8. \A t, data : ArgumentsFault(t, data) \notin AboutIds BY DEF ArgumentsFault
<1>9. ASSUME NEW t, NEW data, NEW body, NEW extra, NEW overrides, NEW max
      PROVE  UseFault(t, data, body, extra, overrides, max) \notin AboutIds
  BY <1>2, <1>7, <1>8 DEF UseFault
<1> QED BY <1>1, <1>2, <1>4, <1>6, <1>9

(* Bundle::new lets through what it should, and nothing else.              *)
Sound(main, files, max) ==
  /\ ~(Len(files) > MaxFiles) /\ ~(TotalBytes(files) > max) /\ PathFault(main) = "ok"
  /\ \A i \in DOMAIN files : PathFault(files[i].path) = "ok"
  /\ \A i \in DOMAIN files : \A j \in 1..(i - 1) : files[j].path # files[i].path
  /\ main \in PathsOf(files)
(* CompileBundle::validate accepts exactly the bundles with no fault.      *)
LEMMA BundlesSound ==
  ASSUME NEW main, NEW files, NEW max
  PROVE  BundleFault(main, files, max) = "ok" <=> Sound(main, files, max)
<1> DEFINE Faulty == {i \in DOMAIN files : \/ PathFault(files[i].path) # "ok"
                                           \/ \E j \in 1..(i - 1) : files[j].path = files[i].path}
           Last1 == IF PathFault(files[Min(Faulty)].path) # "ok"
                    THEN PathFault(files[Min(Faulty)].path) ELSE "duplicate"
<1>1. BundleFault(main, files, max) =
        IF Len(files) > MaxFiles THEN "too_many_files"
        ELSE IF TotalBytes(files) > max THEN "too_large"
        ELSE IF PathFault(main) # "ok" THEN PathFault(main)
        ELSE IF Faulty # {} THEN Last1
        ELSE IF main \notin PathsOf(files) THEN "missing_main" ELSE "ok"
  BY Zenon DEF BundleFault
<1>2. Last1 # "ok" OBVIOUS
<1>3. Faulty = {} <=>
        /\ \A i \in DOMAIN files : PathFault(files[i].path) = "ok"
        /\ \A i \in DOMAIN files : \A j \in 1..(i - 1) : files[j].path # files[i].path
  OBVIOUS
<1> HIDE DEF Faulty, Last1
<1> QED BY <1>1, <1>2, <1>3 DEF Sound

(* Of a list that was let through, no two files share a path.              *)
LEMMA PathsDiffer ==
  ASSUME NEW main, NEW files, NEW max, IsList(files), Sound(main, files, max)
  PROVE  \A i, j \in DOMAIN files : files[i].path = files[j].path => i = j
<1>1. files \in Seq(Elements(files)) BY DEF IsList
<1>2. DOMAIN files \subseteq Int BY <1>1
<1>3. SUFFICES ASSUME NEW i \in DOMAIN files, NEW j \in DOMAIN files,
                      files[i].path = files[j].path
               PROVE  i = j
  OBVIOUS
<1>4. i \in Int /\ j \in Int /\ i >= 1 /\ j >= 1 BY <1>1
<1>5. ~(i < j)
  <2>1. SUFFICES ASSUME i < j PROVE FALSE OBVIOUS
  <2>2. i \in 1..(j - 1) BY <1>4, <2>1
  <2> QED BY <1>3, <2>2 DEF Sound
<1>6. ~(j < i)
  <2>1. SUFFICES ASSUME j < i PROVE FALSE OBVIOUS
  <2>2. j \in 1..(i - 1) BY <1>4, <2>1
  <2> QED BY <1>3, <2>2 DEF Sound
<1> QED BY <1>4, <1>5, <1>6

(* A path that is let through never leaves the root.                       *)
LEMMA PathsStay ==
  ASSUME NEW path, IsPath(path), PathFault(path) = "ok"
  PROVE  StaysBelowRoot(path)
<1>1. \A seg : SegmentFault(seg) # "ok" BY DEF SegmentFault
<1>2. \A seg \in Elements(path) : ~BadSegment(seg) BY <1>1 DEF PathFault
<1>3. \A i \in DOMAIN path : path[i] \notin {"", ".", ".."}
  BY <1>2 DEF Elements, BadSegment
<1>4. Len(path) \in Nat \ {0} /\ DOMAIN path = 1..Len(path)
  <2>1. path \in Seq(Elements(path)) /\ path # <<>> BY DEF IsPath, IsList
  <2> QED BY <2>1
<1>5. ASSUME NEW n \in 1..Len(path) PROVE DepthAfter(path, n) = n
  <2>1. 1..n \subseteq DOMAIN path BY <1>4
  <2> DEFINE down == {i \in 1..n : path[i] \notin {"", ".", ".."}}
             up == {i \in 1..n : path[i] = ".."}
  <2>2. down = 1..n /\ up = {} BY <1>3, <2>1
  <2>3. n \in Nat /\ n >= 1 BY <1>4
  <2>4. Cardinality(1..n) = n BY <2>3, FS_Interval
  <2>5. DepthAfter(path, n) = Cardinality(down) - Cardinality(up) BY DEF DepthAfter
  <2> HIDE DEF down, up
  <2> QED BY <2>2, <2>3, <2>4, <2>5, FS_EmptySet
<1> QED BY <1>4, <1>5 DEF StaysBelowRoot

(* What a bundle is meant to be, it is.                                    *)
LEMMA SoundBundles ==
  ASSUME NEW main, NEW files, NEW max, IsList(files), Sound(main, files, max), max \in Nat,
         \A f \in Elements(files) : IsPath(f.path) /\ f.bytes \in Nat
  PROVE  WellFormedBundle(main, files, max)
<1>1. /\ files \in Seq(Elements(files)) /\ DOMAIN files = 1..Len(files) /\ Len(files) \in Nat
      /\ \A i \in DOMAIN files : files[i] \in Elements(files)
  BY DEF IsList, Elements
<1>2. IsFiniteSet(DOMAIN files) /\ Cardinality(DOMAIN files) = Len(files)
  <2>1. \A n \in Nat : IsFiniteSet(1..n) /\ Cardinality(1..n) = n BY FS_Interval
  <2> QED BY <1>1, <2>1
<1>3. Cardinality(PathsOf(files)) = Len(files)
  <2> DEFINE f == [i \in DOMAIN files |-> files[i].path]
  <2>1. f \in Surjection(DOMAIN files, PathsOf(files)) BY DEF Surjection, PathsOf
  <2>2. f \in Injection(DOMAIN files, PathsOf(files))
    BY <2>1, PathsDiffer DEF Injection, IsInjective, Surjection
  <2> HIDE DEF f
  <2> QED BY <1>2, <2>1, <2>2, FS_Surjection
<1>4. TotalBytes(files) \in Nat
  <2>1. \A i \in DOMAIN files : files[i].bytes \in Nat BY <1>1
  <2>2. BytesIn(files, DOMAIN files) \in Nat BY <1>2, <2>1, SumType
  <2> QED BY <2>2 DEF TotalBytes, BytesIn
<1>5. \A p \in PathsOf(files) : StaysBelowRoot(p) BY <1>1, PathsStay DEF PathsOf, Sound
<1> QED BY <1>1, <1>3, <1>4, <1>5, MaxFilesAssumption DEF WellFormedBundle, Sound

-----------------------------------------------------------------------------
(* Templates and the bundles made of them.                                 *)

IsTemplate(t) == IsFiniteSet(t.files) /\ \A f \in t.files : IsFile(f)
(* What uploading accepts.                                                 *)
Accepted(files) == IsFiles(files) /\ SourceFault(files, MaxBundleBytes) = "ok"
(* A file as it is read back from an archive.                              *)
ReadBack(f) ==
  [path |-> f.path, bytes |-> f.bytes, utf8 |-> f.utf8,
   text |-> f.utf8 /\ IsText(f.path), content |-> f.content]

(* from_source_files puts every file in one of its parts, and adds none.   *)
LEMMA SourceFilesOf == \A files : SourceFiles(FromSourceFiles(files)) = Elements(files)
BY DEF SourceFiles, FromSourceFiles, Built

(* An archive holds the files of its template, and gives them back.        *)
LEMMA ArchiveHolds ==
  ASSUME NEW t, IsFiniteSet(SourceFiles(t))
  PROVE  LET S == SourceFiles(t)  members == ToArchive(t) IN
         /\ IsList(Listed(S)) /\ Elements(Listed(S)) = S
         /\ DOMAIN members = DOMAIN Listed(S) /\ IsList(members) /\ IsList(Decoded(members))
         /\ Len(members) = Cardinality(S) /\ Len(Decoded(members)) = Cardinality(S)
         /\ \A i \in DOMAIN members : /\ members[i] = Member(Listed(S)[i])
                                      /\ Decoded(members)[i] = ReadBack(Listed(S)[i])
         /\ Elements(members) = {Member(f) : f \in S}
         /\ Elements(Decoded(members)) = {ReadBack(f) : f \in S}
<1> DEFINE S == SourceFiles(t)  members == ToArchive(t)  l == Listed(S)  d == Decoded(members)
<1>1. /\ IsList(l) /\ Elements(l) = S /\ Len(l) = Cardinality(S) BY ListedRight
<1>2. DOMAIN l = 1..Len(l) /\ Len(l) \in Nat
  <2>1. l \in Seq(Elements(l)) BY <1>1 DEF IsList
  <2> HIDE DEF l
  <2> QED BY <2>1
<1>3. members = [i \in DOMAIN l |-> Member(l[i])] BY DEF ToArchive
<1>4. d = [i \in DOMAIN l |-> ReadBack(l[i])]
  <2>1. DOMAIN members = DOMAIN l /\ \A i \in DOMAIN l : members[i] = Member(l[i]) BY <1>3
  <2> HIDE DEF members, l
  <2>2. d = [i \in DOMAIN l |->
     [path |-> members[i].path, bytes |-> members[i].bytes, utf8 |-> members[i].utf8,
      text |-> members[i].utf8 /\ IsText(members[i].path), content |-> members[i].content]]
    BY <2>1 DEF Decoded
  <2>3. \A i \in DOMAIN l : /\ members[i].path = l[i].path /\ members[i].bytes = l[i].bytes
                            /\ members[i].utf8 = l[i].utf8 /\ members[i].content = l[i].content
    BY <2>1 DEF Member
  <2> QED BY <2>2, <2>3 DEF ReadBack
<1> HIDE DEF members, l, d
<1>5. Elements(members) = {Member(f) : f \in S}
  <2>1. Elements(members) = {Member(l[i]) : i \in DOMAIN l} BY <1>3 DEF Elements
  <2> QED BY <1>1, <2>1 DEF Elements
<1>6. Elements(d) = {ReadBack(f) : f \in S}
  <2>1. Elements(d) = {ReadBack(l[i]) : i \in DOMAIN l} BY <1>4 DEF Elements
  <2> QED BY <1>1, <2>1 DEF Elements
<1>7. /\ members \in Seq(Elements(members)) /\ Len(members) = Len(l)
      /\ d \in Seq(Elements(d)) /\ Len(d) = Len(l)
  <2>1. members \in [1..Len(l) -> Elements(members)] BY <1>2, <1>3 DEF Elements
  <2>2. d \in [1..Len(l) -> Elements(d)] BY <1>2, <1>4 DEF Elements
  <2> QED BY <1>2, <2>1, <2>2
<1> USE DEF IsList
<1> QED BY <1>1, <1>3, <1>4, <1>5, <1>6, <1>7 DEF members, l, d

(* A template uploaded as files is read back as a template.                *)
LEMMA FilesReadBack ==
  ASSUME NEW files, IsFiles(files)
  PROVE  IsTemplate(FromArchive(ToArchive(FromSourceFiles(files))))
<1> DEFINE t == FromSourceFiles(files)  d == Decoded(ToArchive(t))
<1>1. IsFiniteSet(SourceFiles(t)) /\ SourceFiles(t) = Elements(files)
  BY SourceFilesOf, ElementsFinite DEF IsFiles
<1>2. Elements(d) = {ReadBack(f) : f \in Elements(files)} /\ IsList(d)
  <2> HIDE DEF t
  <2> QED BY <1>1, ArchiveHolds
<1>3. \A f \in Elements(files) : IsFile(ReadBack(f)) BY DEF IsFiles, IsFile, ReadBack, IsText
<1>4. IsFiniteSet(Elements(d)) /\ \A f \in Elements(d) : IsFile(f)
  <2> HIDE DEF d
  <2> QED BY <1>2, <1>3, ElementsFinite
<1> HIDE DEF d
<1>5. Built(Elements(d)).files \subseteq Elements(d) BY DEF Built
<1>6. IsTemplate(FromSourceFiles(d)) BY <1>4, <1>5, FS_Subset DEF IsTemplate, FromSourceFiles
<1> QED BY <1>6 DEF d, FromArchive

(* So is one that comes with the server.                                   *)
LEMMA BakedFiles ==
  ASSUME NEW name \in DOMAIN BakedTemplates
  PROVE  IsTemplate(BakedTemplates[name])
<1> DEFINE loaded == {Load(dir) : dir \in {d \in Baked : HasFile(d, ManifestPath)}}
<1>1. BakedTemplates = [n \in {t.manifest.name : t \in loaded} |->
                          CHOOSE t \in loaded : t.manifest.name = n]
  BY DEF BakedTemplates, LoadSet
<1>2. BakedTemplates[name] \in loaded
  <2> HIDE DEF loaded
  <2> QED BY <1>1
<1>3. PICK dir \in Baked : BakedTemplates[name] = Load(dir) BY <1>2
<1>4. IsFiniteSet(dir) /\ \A f \in dir : IsFile(f) BY BakedAssumption
<1> DEFINE C == Collected(dir)
           typed == {Typed(f) : f \in C}
           meta == {f \in dir : f.path \in MetadataPaths}
<1>5. C \subseteq dir /\ meta \subseteq dir BY DEF Collected
<1>6. IsFiniteSet(typed \cup meta)
  <2> DEFINE h == [f \in C |-> Typed(f)]
  <2>1. h \in Surjection(C, typed) BY DEF Surjection
  <2>2. IsFiniteSet(C) /\ IsFiniteSet(meta) BY <1>4, <1>5, FS_Subset
  <2> HIDE DEF C, h, typed, meta
  <2> QED BY <2>1, <2>2, FS_Surjection, FS_Union
<1>7. \A f \in dir : IsFile(Typed(f)) BY <1>4 DEF IsFile, Typed, IsText
<1>8. \A f \in typed \cup meta : IsFile(f) BY <1>4, <1>5, <1>7
<1>9. Load(dir) = Built(typed \cup meta) BY DEF Load
<1> HIDE DEF typed, meta
<1>10. Built(typed \cup meta).files \subseteq typed \cup meta BY DEF Built
<1> QED BY <1>3, <1>6, <1>8, <1>9, <1>10, FS_Subset DEF IsTemplate

IsEntry(f) == IsPath(f.path) /\ f.bytes \in Nat
(* A bundle as it is compiled: sound, no value of the caller's in its      *)
(* generated file but for mapped identifiers, and the body where it is     *)
(* looked for.                                                             *)
GoodBundle(main, files, t) ==
  /\ IsList(files) /\ Sound(main, files, MaxBundleBytes)
  /\ \A f \in Elements(files) : IsEntry(f)
  /\ \A f \in {g \in Elements(files) : g.content.what = "main"} :
       \A id \in f.content.idents : id \in Identifiers /\ IsMappedTo(t, id)
  /\ t # Absent /\ t.manifest.kind = "wrapper" =>
       \E f \in Elements(files) : f.path = GeneratedBody /\ f.content.what = "body"

(* What becomes code was mapped to by the template.                        *)
LEMMA IdentifiersMapped ==
  ASSUME NEW t, NEW data, ArgumentsFault(t, data) = "ok", NEW id \in IdentifiersIn(t, data)
  PROVE  id \in Identifiers /\ IsMappedTo(t, id)
<1>1. PICK a \in DOMAIN t.manifest.args :
        /\ Given(data, a) /\ t.manifest.args[a].kind = "ident"
        /\ id = Emitted(t.manifest.args[a], data[a])
  BY DEF IdentifiersIn
<1>2. Converts(t.manifest.args[a], data[a]) /\ id \in Identifiers
  BY <1>1 DEF ArgumentsFault
<1>3. data[a].is \in DOMAIN t.manifest.args[a].map /\ t.manifest.args[a].map[data[a].is] = id
  BY <1>1, <1>2 DEF Converts, Emitted
<1> QED BY <1>2, <1>3 DEF IsMappedTo

(* What is refused last of a use is its bundle.                            *)
LEMMA UsesRefused ==
  ASSUME NEW t, NEW data, NEW body, NEW extra, NEW overrides, IsList(overrides),
         UseFault(t, data, body, extra, overrides, MaxBundleBytes) = "ok"
  PROVE  /\ (t.manifest.kind = "data") <=> (body.what = "absent")
         /\ ArgumentsFault(t, data) = "ok"
         /\ Sound(GeneratedMain, AssembledFiles(t, data, body, extra, overrides), MaxBundleBytes)
<1> DEFINE files == AssembledFiles(t, data, body, extra, overrides)
           bad == {i \in DOMAIN overrides : OverrideFault(t, overrides[i]) # "ok"}
<1>1. UseFault(t, data, body, extra, overrides, MaxBundleBytes) =
        IF ~Validates(t, data) THEN "schema_violation"
        ELSE IF (t.manifest.kind = "data") # (body.what = "absent") THEN "wrong_kind"
        ELSE IF bad # {} THEN OverrideFault(t, overrides[Min(bad)])
        ELSE IF ArgumentsFault(t, data) # "ok" THEN ArgumentsFault(t, data)
        ELSE BundleFault(GeneratedMain, files, MaxBundleBytes)
  BY DEF UseFault
<1>2. bad # {} => OverrideFault(t, overrides[Min(bad)]) # "ok"
  <2>1. overrides \in Seq(Elements(overrides)) BY DEF IsList
  <2>2. bad \subseteq Nat BY <2>1
  <2>3. bad # {} => Min(bad) \in bad
    <3> HIDE DEF bad
    <3> QED BY <2>2, LeastNatural
  <2> QED BY <2>3
<1> HIDE DEF bad, files
<1> QED BY <1>1, <1>2, BundlesSound DEF files

(* The generated files have paths.                                         *)
LEMMA GeneratedPaths ==
  \A path \in {GeneratedMain, GeneratedBody, DataPath} : IsPath(path)
<1>1. Len(<<>>) = 0 /\ \A x : Len(<<x>>) = 1 OBVIOUS
<1>2. \A x : IsPath(<<x>>) BY <1>1, ShortLists DEF IsPath
<1> QED BY <1>2 DEF GeneratedMain, GeneratedBody, DataPath

(* A template render that passed its checks compiles what it should.       *)
LEMMA AssembledRight ==
  ASSUME NEW t, NEW data, NEW body, NEW extra, NEW overrides,
         IsTemplate(t), IsFiles(extra), IsFiles(overrides),
         body.what = "absent" \/ body.bytes \in Nat,
         UseFault(t, data, body, extra, overrides, MaxBundleBytes) = "ok"
  PROVE  GoodBundle(GeneratedMain, AssembledFiles(t, data, body, extra, overrides), t)
<1> DEFINE files == AssembledFiles(t, data, body, extra, overrides)
           O == Overridden(t, overrides)
           main == SourceFile(GeneratedMain, GeneratedBytes,
                     [what |-> "main", idents |-> IdentifiersIn(t, data)])
           bodies == IF body.what = "absent" THEN <<>> ELSE <<BodyFile(body)>>
           dataFile == SourceFile(DataPath, 1, [what |-> "data"])
<1>1. /\ (t.manifest.kind = "data") <=> (body.what = "absent")
      /\ ArgumentsFault(t, data) = "ok" /\ Sound(GeneratedMain, files, MaxBundleBytes)
  BY UsesRefused DEF IsFiles
<1>2. IsFiniteSet(O) /\ \A f \in O : IsFile(f)
  <2>1. O \subseteq t.files \cup Elements(overrides) BY DEF Overridden, Elements
  <2>2. IsFiniteSet(t.files \cup Elements(overrides))
    BY ElementsFinite, FS_Union DEF IsTemplate, IsFiles
  <2> QED BY <2>1, <2>2, FS_Subset DEF IsTemplate, IsFiles
<1>3. IsList(files)
      /\ Elements(files) = (((O \cup Elements(extra)) \cup {main}) \cup Elements(bodies))
                             \cup {dataFile}
  <2>1. files = (((Listed(O) \o extra) \o <<main>>) \o bodies) \o <<dataFile>>
    BY DEF AssembledFiles
  <2>2. IsList(Listed(O)) /\ Elements(Listed(O)) = O BY <1>2, ListedRight
  <2>3. IsList(extra) /\ IsList(bodies) BY ShortLists DEF IsFiles
  <2> HIDE DEF files, O, main, bodies, dataFile
  <2> DEFINE l1 == Listed(O) \o extra  l2 == l1 \o <<main>>  l3 == l2 \o bodies
             l4 == l3 \o <<dataFile>>
  <2>4. IsList(l1) /\ Elements(l1) = O \cup Elements(extra) BY <2>2, <2>3, ListsJoin
  <2> HIDE DEF l1
  <2>5. IsList(l2) /\ Elements(l2) = Elements(l1) \cup {main} BY <2>4, ShortLists, ListsJoin
  <2> HIDE DEF l2
  <2>6. IsList(l3) /\ Elements(l3) = Elements(l2) \cup Elements(bodies)
    BY <2>3, <2>5, ListsJoin
  <2> HIDE DEF l3
  <2>7. IsList(l4) /\ Elements(l4) = Elements(l3) \cup {dataFile} BY <2>6, ShortLists, ListsJoin
  <2>8. files = l4 BY <2>1 DEF l1, l2, l3
  <2> QED BY <2>4, <2>5, <2>6, <2>7, <2>8
<1>4. /\ main.path = GeneratedMain /\ main.bytes = GeneratedBytes
      /\ main.content.what = "main" /\ main.content.idents = IdentifiersIn(t, data)
      /\ dataFile.path = DataPath /\ dataFile.bytes = 1 /\ dataFile.content.what = "data"
  BY DEF SourceFile
<1>5. ASSUME NEW f \in Elements(bodies)
      PROVE  /\ f.path = GeneratedBody /\ f.bytes \in Nat /\ f.content.what = "body"
             /\ body.what # "absent"
  <2>1. body.what # "absent" BY <1>5, ShortLists
  <2>2. f = BodyFile(body) BY <1>5, <2>1, ShortLists
  <2> QED BY <2>1, <2>2 DEF BodyFile, SourceFile
<1>6. body.what # "absent" =>
        \E f \in Elements(bodies) : f.path = GeneratedBody /\ f.content.what = "body"
  <2>1. SUFFICES ASSUME body.what # "absent"
                 PROVE  \E f \in Elements(bodies) : f.path = GeneratedBody
                                                    /\ f.content.what = "body"
    OBVIOUS
  <2>2. BodyFile(body) \in Elements(bodies) BY <2>1, ShortLists
  <2> QED BY <1>5, <2>2
<1> HIDE DEF files, O, main, bodies, dataFile
<1>7. \A f \in O \cup Elements(extra) : IsFile(f) BY <1>2 DEF IsFiles
<1>8. GeneratedBytes \in Nat /\ \A path \in {GeneratedMain, GeneratedBody, DataPath} :
                                  IsPath(path)
  BY OverheadAssumption, GeneratedPaths
<1>9. \A f \in Elements(files) : IsEntry(f)
  BY <1>3, <1>4, <1>5, <1>7, <1>8 DEF IsEntry, IsFile
<1>10. \A f \in {g \in Elements(files) : g.content.what = "main"} :
         \A id \in f.content.idents : id \in Identifiers /\ IsMappedTo(t, id)
  <2>1. \A f \in Elements(files) : f.content.what = "main" => f = main
    BY <1>3, <1>4, <1>5, <1>7 DEF IsFile
  <2> QED BY <1>1, <1>4, <2>1, IdentifiersMapped
<1>11. t.manifest.kind = "wrapper" =>
         \E f \in Elements(files) : f.path = GeneratedBody /\ f.content.what = "body"
  BY <1>1, <1>3, <1>6
<1> QED BY <1>1, <1>3, <1>9, <1>10, <1>11 DEF GoodBundle, files

(* So does a render of inline source.                                      *)
LEMMA InlineRight ==
  ASSUME NEW r, NEW assets, IsFiles(r.source), IsFiles(r.files), IsFiles(assets),
         BundleFault(r.main, InlineFiles(r, assets), MaxBundleBytes) = "ok"
  PROVE  GoodBundle(r.main, InlineFiles(r, assets), Absent)
<1> DEFINE files == InlineFiles(r, assets)
           dataFile == SourceFile(DataPath, 1, [what |-> "data"])
           last == IF r.data = NoData THEN <<>> ELSE <<dataFile>>
<1>1. Sound(r.main, files, MaxBundleBytes) BY BundlesSound
<1>2. IsList(files)
      /\ Elements(files) = ((Elements(assets) \cup Elements(r.source)) \cup Elements(r.files))
                             \cup Elements(last)
  <2>1. files = ((assets \o r.source) \o r.files) \o last BY DEF InlineFiles
  <2>2. IsList(assets) /\ IsList(r.source) /\ IsList(r.files) /\ IsList(last)
    BY ShortLists DEF IsFiles
  <2> HIDE DEF files, last
  <2> DEFINE l1 == assets \o r.source  l2 == l1 \o r.files  l3 == l2 \o last
  <2>3. IsList(l1) /\ Elements(l1) = Elements(assets) \cup Elements(r.source)
    BY <2>2, ListsJoin
  <2> HIDE DEF l1
  <2>4. IsList(l2) /\ Elements(l2) = Elements(l1) \cup Elements(r.files) BY <2>2, <2>3, ListsJoin
  <2> HIDE DEF l2
  <2>5. IsList(l3) /\ Elements(l3) = Elements(l2) \cup Elements(last) BY <2>2, <2>4, ListsJoin
  <2>6. files = l3 BY <2>1 DEF l1, l2
  <2> QED BY <2>3, <2>4, <2>5, <2>6
<1>3. \A f \in Elements(last) : IsEntry(f) /\ f.content.what = "data"
  <2>1. \A f \in Elements(last) : f = dataFile BY ShortLists
  <2>2. IsPath(DataPath) BY GeneratedPaths
  <2> QED BY <2>1, <2>2 DEF IsEntry, SourceFile
<1> HIDE DEF files, last
<1>4. \A f \in Elements(files) : IsEntry(f) /\ f.content.what # "main"
  BY <1>2, <1>3 DEF IsFiles, IsFile, IsEntry
<1> QED BY <1>1, <1>2, <1>4 DEF GoodBundle, files

-----------------------------------------------------------------------------
(* The inductive invariant, continued: what is stored, and what handlers   *)
(* hold of it.                                                             *)

(* What is stored under an id is what was put there: an asset with its     *)
(* size, a template that was accepted.                                     *)
Blobs ==
  \A k \in Stored :
    /\ KindOf[k] = "assets" => IsFile(blob[k]) /\ objects[k].bytes = blob[k].bytes
    /\ KindOf[k] = "tpl" =>
         \E files : Accepted(files) /\ blob[k] = ToArchive(FromSourceFiles(files))

(* What is loaded so far is a list of files within the budget.  During the *)
(* preflight it is only their sizes.                                       *)
Loaded(p) ==
  LET got == work[p].assets IN
  /\ IsList(got) /\ TotalBytes(got) <= MaxBundleBytes
  /\ \A f \in Elements(got) : f.bytes \in Nat
  /\ pc[p] # "preflight" => IsFiles(got)
(* An asset whose size was looked at keeps it while it is there.           *)
Passed(k, bytes) ==
  k \in minted /\ KindOf[k] = "assets" /\ (k \in Stored => objects[k].bytes = bytes)
(* The sizes the preflight saw.  They are within the budget, and what is   *)
(* fetched has them.                                                       *)
Foreseen(p, size) ==
  LET ids == AssetsOf(call[p])  got == work[p].assets IN
  /\ IsList(size) /\ Len(size) = Len(ids) /\ TotalBytes(size) <= MaxBundleBytes
  /\ \A i \in DOMAIN size : size[i].bytes \in Nat /\ Passed(ids[i], size[i].bytes)
  /\ \A i \in DOMAIN got : got[i].bytes = size[i].bytes
Walking(p) ==
  LET ids == AssetsOf(call[p])  got == work[p].assets IN
  /\ pc[p] \in {"preflight", "fetch"} =>
       IsList(ids) /\ work[p].at \in 1..Len(ids) /\ Len(got) = work[p].at - 1
  /\ pc[p] = "preflight" => \A i \in DOMAIN got : Passed(ids[i], got[i].bytes)
  /\ pc[p] = "fetch" => \E size : Foreseen(p, size)
(* Listings read templates only.                                           *)
Reads(p) == pc[p] = "reading" => \A k \in work[p].ids : KindOf[k] = "tpl"
(* A template that is on its way to the store was accepted.                *)
Uploads(p) ==
  pc[p] \in {"compile", "store"} /\ call[p].op = "template" =>
    \E files : Accepted(files) /\ work[p].template = FromSourceFiles(files)
Bundled(p) == pc[p] = "compile" => GoodBundle(work[p].main, work[p].files, work[p].template)

Holds(p) == Loaded(p) /\ Walking(p) /\ Reads(p) /\ Uploads(p) /\ Bundled(p)
Contents == IsFiniteSet(Stored) /\ Blobs /\ \A p \in Handlers : Holds(p)

(* The store grows by an object at a time.                                 *)
LEMMA StaysFinite ==
  ASSUME IInv, Contents, Next
  PROVE  IsFiniteSet(Stored')
<1>1. \E k : Stored' \subseteq Stored \cup {k}
  <2> USE DEF Stored
  <2>1. CASE UNCHANGED objects BY <2>1
  <2>2. CASE \E k, s : objects' = ObjectsStore!Grown(k, s)
    BY <2>2 DEF ObjectsStore!Grown, ObjectsStore!Stored
  <2>3. CASE \E k : objects' = ObjectsStore!Remaining({k})
    BY <2>3 DEF ObjectsStore!Remaining, ObjectsStore!Stored
  <2>4. CASE StoreStep
    BY <2>1, <2>3, <2>4 DEF StoreStep, Evict, ObjectsStore!Evict, Reaped, Drop, Reap,
                            ObjectsStore!Doom, Tick, ObjectsStore!Tick
  <2>5. ASSUME NEW p \in Handlers, HandlerStep(p) PROVE \E k : Stored' \subseteq Stored \cup {k}
    <3>1. NoStore \/ Puts(p) \/ Adds(p) \/ Dooms(p) \/ Removing(p) BY <2>5, HandlersTouch
    <3>2. UNCHANGED objects \/ (\E k, s : objects' = ObjectsStore!Grown(k, s))
            \/ \E k : objects' = ObjectsStore!Remaining({k})
      BY <3>1 DEF NoStore, storeVars, Puts, Put, Adds, Dooms, Removing, Drop
    <3> QED BY <2>1, <2>2, <2>3, <3>2
  <2> QED BY <2>4, <2>5, Steps
<1>2. PICK k : Stored' \subseteq Stored \cup {k} BY <1>1
<1>3. IsFiniteSet(Stored \cup {k}) BY FS_AddElement DEF Contents
<1> QED BY <1>2, <1>3, FS_Subset

(* Only documents change once they are stored.                             *)
LEMMA SparedOrOut ==
  ASSUME IInv, NEW p \in Handlers, HandlerStep(p)
  PROVE  Fine /\ \A k \in minted : Spared(k) \/ KindOf[k] = "out"
<1>1. TypeOK /\ Removals /\ Documents BY DEF IInv
<1>2. Fine /\ \A k \in minted : Spared(k) \/ (pc[p] = "preview" /\ k = work[p].doc)
  BY <1>1, WhatIsSpared
<1>3. pc[p] = "preview" => KindOf[work[p].doc] = "out" BY <1>1 DEF Documents
<1> QED BY <1>2, <1>3

(* What is stored stays what was accepted when it was stored.              *)
LEMMA BlobsKept ==
  ASSUME IInv, Contents, Next
  PROVE  Blobs'
<1> USE Steps DEF IInv
<1>1. ASSUME NEW k \in Stored', Fine, Spared(k) \/ KindOf[k] = "out"
      PROVE  /\ KindOf[k] = "assets" => IsFile(blob'[k]) /\ objects'[k].bytes = blob'[k].bytes
             /\ KindOf[k] = "tpl" =>
                  \E files : Accepted(files) /\ blob'[k] = ToArchive(FromSourceFiles(files))
  BY <1>1 DEF Contents, Blobs, Spared
<1>2. CASE StoreStep BY <1>1, <1>2, StoreSpares DEF Blobs
<1>3. ASSUME NEW p \in Handlers, HandlerStep(p) PROVE Blobs'
  <2>1. Fine /\ \A k \in minted : Spared(k) \/ KindOf[k] = "out" BY <1>3, SparedOrOut
  <2>2. ASSUME NEW k \in Stored' \ minted
        PROVE  /\ KindOf[k] = "assets" =>
                    IsFile(blob'[k]) /\ objects'[k].bytes = blob'[k].bytes
               /\ KindOf[k] = "tpl" =>
                    \E files : Accepted(files) /\ blob'[k] = ToArchive(FromSourceFiles(files))
    <3>1. Puts(p)
      <4>1. Stored \subseteq minted BY DEF TypeOK
      <4>2. ~NoStore /\ ~Dooms(p) BY <4>1 DEF NoStore, storeVars, Dooms, Stored
      <4>3. ~Adds(p) /\ ~Removing(p)
        BY <2>1 DEF Adds, Removing, Drop, Fine
      <4> QED BY <1>3, <4>2, <4>3, HandlersTouch
    <3>2. PICK l \in Keys \ minted : KindOf[l] = KindStored(call[p]) /\ Put(p, l)
      BY <3>1 DEF Puts
    <3>3. k = l BY <2>1, <3>2 DEF Put, Fine
    <3>4. k \notin Stored BY DEF TypeOK
    <3>5. blob'[k] = Payload(p) /\ objects'[k].bytes = PayloadBytes(p) + 0
      BY <3>2, <3>3, <3>4 DEF Put, Holding, ObjectsStore!Grown, ObjectsStore!Stored, Stored
    <3>6. pc[p] = "store" BY <3>1 DEF Puts
    <3>7. call[p] \in Calls[p] /\ FirstFault(call[p]) = "ok" /\ "store" \in PlacesOf(call[p].op)
      BY <3>6 DEF AllHandled, Handled
    <3>8. call[p].op \in {"render", "template", "asset"}
      BY <3>7, OperationsKnown DEF Operations, PlacesOf
    <3>9. CASE call[p].op = "asset"
      <4>1. IsFile(call[p].file) BY <3>7, <3>9, CallsAssumption DEF IsCall
      <4>2. blob'[k] = call[p].file /\ objects'[k].bytes = call[p].file.bytes + 0
            /\ KindOf[k] = "assets"
        BY <3>2, <3>3, <3>5, <3>9 DEF Payload, PayloadBytes, KindStored
      <4> QED BY <4>1, <4>2 DEF IsFile
    <3>10. CASE call[p].op = "template"
      <4>1. PICK files : Accepted(files) /\ work[p].template = FromSourceFiles(files)
        BY <3>6, <3>10 DEF Contents, Holds, Uploads
      <4>2. blob'[k] = ToArchive(work[p].template) /\ KindOf[k] = "tpl"
        BY <3>2, <3>3, <3>5, <3>10 DEF Payload, KindStored
      <4> QED BY <4>1, <4>2
    <3>11. CASE call[p].op = "render" BY <3>2, <3>3, <3>11 DEF KindStored
    <3> QED BY <3>8, <3>9, <3>10, <3>11
  <2>3. \A k \in Stored' : Spared(k) \/ KindOf[k] = "out" \/ k \notin minted BY <2>1
  <2> QED BY <1>1, <2>1, <2>2, <2>3 DEF Blobs
<1> QED BY <1>2, <1>3

(* A handler that does nothing loses nothing it holds.                     *)
LEMMA HoldsUntouched ==
  ASSUME NEW q \in Handlers, Holds(q), pc'[q] = pc[q], call'[q] = call[q], work'[q] = work[q],
         minted \subseteq minted', \A k \in minted : Spared(k) \/ KindOf[k] = "out"
  PROVE  Holds(q)'
<1>1. ASSUME NEW k, NEW bytes, Passed(k, bytes) PROVE Passed(k, bytes)'
  <2>1. k \in minted /\ Spared(k) BY <1>1 DEF Passed
  <2> QED BY <1>1, <2>1 DEF Passed, Spared
<1>2. \A size : Foreseen(q, size) => Foreseen(q, size)' BY <1>1 DEF Foreseen
<1>3. Walking(q)' BY <1>1, <1>2 DEF Holds, Walking
<1>4. Loaded(q)' BY DEF Holds, Loaded
<1>5. Reads(q)' BY DEF Holds, Reads
<1>6. Uploads(q)' BY DEF Holds, Uploads
<1>7. Bundled(q)' BY DEF Holds, Bundled
<1> QED BY <1>3, <1>4, <1>5, <1>6, <1>7 DEF Holds

(* One that has nothing holds what it should.                              *)
LEMMA TotalOfNone == TotalBytes(<<>>) = 0
<1>1. BytesIn(<<>>, {}) = 0 BY SumEmpty
<1>2. DOMAIN <<>> = {} OBVIOUS
<1> QED BY <1>1, <1>2 DEF TotalBytes, BytesIn

(* A handler that has loaded nothing yet has nothing wrong.                *)
LEMMA HoldsNothing ==
  ASSUME NEW p \in Handlers, work[p].assets = <<>>, pc[p] \notin {"preflight", "fetch", "compile"},
         pc[p] = "store" => call[p].op # "template", pc[p] = "reading" => work[p].ids = {}
  PROVE  Holds(p)
<1>1. Loaded(p)
  BY TotalOfNone, ShortLists, BoundsAssumption DEF Loaded, IsFiles
<1> QED BY <1>1 DEF Holds, Walking, Reads, Uploads, Bundled

(* Moving on with what is loaded, to where nothing else is asked of it.    *)
LEMMA HoldsOn ==
  ASSUME IInv, NEW p \in Handlers, Holds(p), pc[p] # "preflight", work'[p].assets = work[p].assets,
         pc'[p] \notin {"preflight", "fetch", "compile", "reading"},
         pc'[p] = "store" /\ call'[p].op = "template" =>
           \E files : Accepted(files) /\ work'[p].template = FromSourceFiles(files)
  PROVE  Holds(p)'
<1>1. Loaded(p)' BY DEF Holds, Loaded
<1> QED BY <1>1 DEF Holds, Walking, Reads, Uploads, Bundled

(* A checked bundle is what the compile step is handed.                    *)
LEMMA HoldsBundle ==
  ASSUME IInv, NEW p \in Handlers, Holds(p), pc[p] \in {"assemble", "validate"},
         NEW f, NEW m, NEW t, ToCompile(p, f, m, t), GoodBundle(m, f, t),
         call[p].op = "template" => \E files : Accepted(files) /\ t = FromSourceFiles(files)
  PROVE  Holds(p)'
<1>1. /\ DOMAIN work = Handlers /\ DOMAIN work[p] = DOMAIN NoWork /\ pc \in [Handlers -> Places]
  BY DEF IInv, TypeOK, AllHandled, Handled
<1>2. /\ work'[p].files = f /\ work'[p].main = m /\ work'[p].template = t
      /\ work'[p].assets = work[p].assets /\ pc'[p] = "compile" /\ call' = call
  BY <1>1, Fields DEF ToCompile, Goto
<1>3. Loaded(p)' BY <1>2 DEF Holds, Loaded
<1> QED BY <1>2, <1>3 DEF Holds, Walking, Reads, Uploads, Bundled

(* Preflight and reads.                                                    *)
LEMMA PreflightKeeps ==
  ASSUME IInv, Contents, NEW p \in Handlers, Preflight(p), ~\E f, k : Refuse(p, f, k)
  PROVE  Holds(p)'
<1> USE DEF IInv
<1> DEFINE ids == AssetsOf(call[p])  i == work[p].at  got == work[p].assets  k == ids[i]
           size == Append(got, [bytes |-> objects[k].bytes])
<1>1. /\ DOMAIN work = Handlers /\ DOMAIN work[p] = DOMAIN NoWork /\ pc \in [Handlers -> Places]
      /\ pc[p] = "preflight" /\ Loaded(p) /\ Walking(p)
  BY DEF TypeOK, AllHandled, Handled, Contents, Holds, Preflight
<1>2. /\ PreflightFault(call[p].tenant, ids, i, TotalBytes(got)) = "ok" /\ call' = call /\ NoStore
      /\ IF i = Len(ids) THEN Goto(p, "fetch") /\ work' = [work EXCEPT ![p] = NoWork]
         ELSE pc' = pc /\ work' = [work EXCEPT ![p].at = i + 1,
                            ![p].assets = Append(@, [bytes |-> objects[k].bytes])]
  BY DEF Preflight
<1>3. Lookup(call[p].tenant, "assets", k) = "ok"
      /\ ~(TotalBytes(got) + objects[k].bytes > MaxBundleBytes)
  <2>1. Lookup(call[p].tenant, "assets", k) = "ok"
    BY <1>2 DEF PreflightFault, Lookup
  <2> QED BY <1>2, <2>1 DEF PreflightFault
<1>4. k \in Stored /\ KindOf[k] = "assets" /\ objects[k].bytes \in Nat /\ k \in minted
  <2>1. k \in Stored /\ KindOf[k] = "assets" BY <1>3 DEF Lookup
  <2> QED BY <2>1 DEF Contents, Blobs, IsFile, TypeOK
<1>5. /\ IsList(got) /\ \A f \in Elements(got) : f.bytes \in Nat
      /\ IsList(ids) /\ i \in 1..Len(ids) /\ Len(got) = i - 1
      /\ \A j \in DOMAIN got : Passed(ids[j], got[j].bytes)
      /\ \A j \in DOMAIN got : got[j].bytes \in Nat
  BY <1>1 DEF Loaded, Walking, Elements
<1>6. /\ IsList(size) /\ Elements(size) = Elements(got) \cup {[bytes |-> objects[k].bytes]}
      /\ Len(size) = i /\ DOMAIN got = 1..(i - 1) /\ i \in Nat /\ DOMAIN size = 1..i
      /\ \A j \in DOMAIN got : size[j] = got[j]
      /\ size[i] = [bytes |-> objects[k].bytes]
  <2>1. Len(got) + 1 = i /\ i \in Nat BY <1>5, ListsGrow
  <2>2. IsList(size) BY <1>5, ListsGrow
  <2>3. size \in Seq(Elements(size)) BY <2>2 DEF IsList
  <2> DEFINE x == [bytes |-> objects[k].bytes]
  <2> HIDE DEF got, i, x
  <2>4. /\ Elements(size) = Elements(got) \cup {x} /\ Len(size) = Len(got) + 1
        /\ DOMAIN got = 1..Len(got) /\ \A j \in DOMAIN got : size[j] = got[j]
        /\ size[Len(got) + 1] = x
    BY <1>5, ListsGrow DEF x
  <2> HIDE DEF size
  <2>5. DOMAIN size = 1..Len(size) BY <2>3
  <2>6. Len(got) = i - 1 BY <1>5
  <2> QED BY <2>1, <2>2, <2>4, <2>5, <2>6 DEF x
<1>7. TotalBytes(size) <= MaxBundleBytes
  <2>1. [bytes |-> objects[k].bytes].bytes \in Nat BY <1>4
  <2>2. got \in Seq(Elements(got)) BY <1>5 DEF IsList
  <2> HIDE DEF got, k
  <2>3. BytesIn(size, DOMAIN size) = BytesIn(got, DOMAIN got) + objects[k].bytes
    BY <1>5, <2>1, <2>2, SumAppend
  <2>4. IsFiniteSet(DOMAIN got) BY <2>2, FS_Interval
  <2>5. BytesIn(got, DOMAIN got) \in Nat BY <1>5, <2>4, SumType
  <2> HIDE DEF size
  <2> QED BY <1>3, <1>4, <2>3, <2>5, BoundsAssumption DEF TotalBytes, BytesIn
<1>8. \A j \in DOMAIN size : size[j].bytes \in Nat /\ Passed(ids[j], size[j].bytes)
  <2> HIDE DEF size, ids, got, i
  <2>1. size[i].bytes \in Nat /\ Passed(ids[i], size[i].bytes)
    <3>1. size[i].bytes = objects[k].bytes BY <1>6
    <3> HIDE DEF k
    <3>2. Passed(k, objects[k].bytes) BY <1>4 DEF Passed
    <3> QED BY <1>4, <3>1, <3>2 DEF k
  <2>2. \A j \in DOMAIN size : j = i \/ j \in DOMAIN got BY <1>6
  <2> QED BY <1>5, <1>6, <2>1, <2>2
<1>9. \A l, bytes : Passed(l, bytes)' <=> Passed(l, bytes)
  BY <1>2 DEF Passed, NoStore, storeVars, Stored
<1>10. CASE i = Len(ids)
  <2>1. work'[p] = NoWork /\ pc'[p] = "fetch" BY <1>1, <1>2, <1>10 DEF Goto
  <2>2. work'[p].assets = <<>> /\ work'[p].at = 1 BY <2>1 DEF NoWork
  <2>3. Loaded(p)' BY <2>2, TotalOfNone, ShortLists, BoundsAssumption DEF Loaded, IsFiles
  <2> HIDE DEF size, ids, got, k, i
  <2>4. \E s : Foreseen(p, s)'
    <3>1. PICK s : s = size OBVIOUS
    <3>2. /\ IsList(s) /\ Len(s) = Len(ids) /\ TotalBytes(s) <= MaxBundleBytes
          /\ \A j \in DOMAIN s : s[j].bytes \in Nat /\ Passed(ids[j], s[j].bytes)
      BY <1>6, <1>7, <1>8, <1>10, <3>1
    <3>3. Foreseen(p, s)' BY <1>2, <1>9, <2>2, <3>2 DEF Foreseen, ids
    <3> QED BY <3>3
  <2>5. 1 \in 1..Len(ids) BY <1>5, <1>6
  <2>6. Walking(p)' BY <1>2, <1>5, <2>1, <2>2, <2>4, <2>5 DEF Walking, ids
  <2> QED BY <2>1, <2>3, <2>6 DEF Holds, Reads, Uploads, Bundled
<1>11. CASE i # Len(ids)
  <2>1. pc'[p] = "preflight" /\ work'[p].at = i + 1 /\ work'[p].assets = size
    BY <1>1, <1>2, <1>11, Fields
  <2> HIDE DEF size, ids, got, k, i
  <2>2. \A f \in Elements(size) : f.bytes \in Nat
    <3>1. [bytes |-> objects[k].bytes].bytes \in Nat BY <1>4
    <3> QED BY <1>5, <1>6, <3>1
  <2>3. Loaded(p)' BY <1>6, <1>7, <2>1, <2>2 DEF Loaded
  <2>4. i + 1 \in 1..Len(ids) /\ Len(size) = (i + 1) - 1
    <3>1. ids \in Seq(Elements(ids)) BY <1>5 DEF IsList
    <3>2. Len(ids) \in Nat BY <3>1
    <3> QED BY <1>5, <1>6, <1>11, <3>2
  <2>5. Walking(p)' BY <1>2, <1>5, <1>8, <1>9, <2>1, <2>4 DEF Walking, ids
  <2> QED BY <2>1, <2>3, <2>5 DEF Holds, Reads, Uploads, Bundled
<1> QED BY <1>10, <1>11

(* Reading: each asset weighs what the preflight saw.                      *)
LEMMA FetchKeeps ==
  ASSUME IInv, Contents, NEW p \in Handlers, Fetch(p), ~\E f, k : Refuse(p, f, k),
         ~\E kind, k : ReadFails(p, kind, k)
  PROVE  Holds(p)'
<1> USE DEF IInv
<1> DEFINE ids == AssetsOf(call[p])  i == work[p].at  got == work[p].assets  k == ids[i]
           now1 == Append(got, blob[k])
<1>1. /\ DOMAIN work = Handlers /\ DOMAIN work[p] = DOMAIN NoWork /\ pc \in [Handlers -> Places]
      /\ pc[p] = "fetch" /\ Loaded(p) /\ Walking(p)
  BY DEF TypeOK, AllHandled, Handled, Contents, Holds, Fetch
<1>2. /\ Lookup(call[p].tenant, "assets", k) = "ok" /\ call' = call /\ NoStore
      /\ work' = [work EXCEPT ![p].at = i + 1, ![p].assets = Append(@, blob[k])]
      /\ pc' = [pc EXCEPT ![p] = IF i = Len(ids) THEN AfterAssets(call[p]) ELSE "fetch"]
  BY DEF Fetch, Goto
<1>3. /\ k \in Stored /\ KindOf[k] = "assets" /\ IsFile(blob[k])
      /\ objects[k].bytes = blob[k].bytes
  <2>1. k \in Stored /\ KindOf[k] = "assets" BY <1>2 DEF Lookup
  <2> QED BY <2>1 DEF Contents, Blobs
<1>4. PICK size : Foreseen(p, size) BY <1>1 DEF Walking
<1>5. /\ IsList(got) /\ IsFiles(got)
      /\ IsList(ids) /\ i \in 1..Len(ids) /\ Len(got) = i - 1
      /\ IsList(size) /\ Len(size) = Len(ids) /\ TotalBytes(size) <= MaxBundleBytes
      /\ \A j \in DOMAIN size : size[j].bytes \in Nat /\ Passed(ids[j], size[j].bytes)
      /\ \A j \in DOMAIN got : got[j].bytes = size[j].bytes
  BY <1>1, <1>4 DEF Loaded, Walking, Foreseen
<1>6. /\ IsList(now1) /\ Elements(now1) = Elements(got) \cup {blob[k]}
      /\ Len(now1) = i /\ DOMAIN got = 1..(i - 1) /\ i \in Nat /\ DOMAIN now1 = 1..i
      /\ \A j \in DOMAIN got : now1[j] = got[j]
      /\ now1[i] = blob[k]
  <2>1. Len(got) + 1 = i /\ i \in Nat BY <1>5, ListsGrow
  <2>2. IsList(now1) BY <1>5, ListsGrow
  <2>3. now1 \in Seq(Elements(now1)) BY <2>2 DEF IsList
  <2> QED BY <1>5, <2>1, <2>2, <2>3, ListsGrow
<1>7. DOMAIN size = 1..Len(ids) /\ Len(ids) \in Nat /\ i \in DOMAIN size
  <2>1. size \in Seq(Elements(size)) BY <1>5 DEF IsList
  <2> HIDE DEF ids, i
  <2> QED BY <1>5, <2>1
<1>8. IsFiles(now1) BY <1>3, <1>5, <1>6 DEF IsFiles
<1>9. \A j \in DOMAIN now1 : now1[j].bytes = size[j].bytes
  <2>1. size[i].bytes = blob[k].bytes BY <1>3, <1>5, <1>7 DEF Passed
  <2>2. \A j \in DOMAIN now1 : j = i \/ j \in DOMAIN got BY <1>6
  <2> HIDE DEF now1, k, i, got
  <2> QED BY <1>5, <1>6, <2>1, <2>2
<1> HIDE DEF now1, ids, got, k, i
<1>10. TotalBytes(now1) <= MaxBundleBytes
  <2> DEFINE D == DOMAIN now1  E == DOMAIN size
  <2>1. IsFiniteSet(D) /\ IsFiniteSet(E) /\ D \in SUBSET E
    <3>1. 1..i \subseteq 1..Len(ids) BY <1>5, <1>6, <1>7
    <3>2. IsFiniteSet(1..Len(ids)) BY <1>7, FS_Interval
    <3> QED BY <1>6, <1>7, <3>1, <3>2, FS_Subset
  <2>2. (\A j \in E : size[j].bytes \in Nat) /\ \A j \in D : now1[j].bytes = size[j].bytes
    BY <1>5, <1>9
  <2> HIDE DEF D, E
  <2>3. BytesIn(now1, D) = BytesIn(size, D) BY <2>1, <2>2, SumSame
  <2>4. BytesIn(size, D) <= BytesIn(size, E) BY <2>1, <2>2, SumSubset
  <2>5. TotalBytes(now1) = BytesIn(now1, D) /\ TotalBytes(size) = BytesIn(size, E)
    BY DEF TotalBytes, BytesIn, D, E
  <2>6. BytesIn(size, D) \in Nat /\ BytesIn(size, E) \in Nat
    <3>1. \A j \in D : size[j].bytes \in Nat BY <2>1, <2>2
    <3> QED BY <2>1, <2>2, <3>1, SumType
  <2> QED BY <1>5, <2>3, <2>4, <2>5, <2>6, BoundsAssumption
<1>11. work'[p].assets = now1 /\ work'[p].at = i + 1
  BY <1>1, <1>2, Fields DEF now1, got
<1>12. Loaded(p)' BY <1>6, <1>8, <1>10, <1>11 DEF Loaded, IsFiles, IsFile
<1>13. pc'[p] = IF i = Len(ids) THEN AfterAssets(call[p]) ELSE "fetch" BY <1>1, <1>2
<1>14. CASE i = Len(ids)
  <2>1. pc'[p] \in {"assemble", "validate"} BY <1>13, <1>14 DEF AfterAssets
  <2> QED BY <1>12, <2>1 DEF Holds, Walking, Reads, Uploads, Bundled
<1>15. CASE i # Len(ids)
  <2>1. pc'[p] = "fetch" BY <1>13, <1>15
  <2>2. \A l, bytes : Passed(l, bytes)' <=> Passed(l, bytes)
    BY <1>2 DEF Passed, NoStore, storeVars, Stored
  <2>3. Foreseen(p, size)' BY <1>2, <1>5, <1>9, <1>11, <2>2 DEF Foreseen, ids
  <2>4. i + 1 \in 1..Len(ids) /\ Len(now1) = (i + 1) - 1 BY <1>5, <1>6, <1>7, <1>15
  <2>5. Walking(p)' BY <1>2, <1>5, <1>11, <2>1, <2>3, <2>4 DEF Walking, ids
  <2> QED BY <1>12, <2>1, <2>5 DEF Holds, Reads, Uploads, Bundled
<1> QED BY <1>14, <1>15

(* Putting bundles together.                                               *)
LEMMA TemplatesFound ==
  ASSUME Contents, NEW tenant, NEW ref, TemplateFault(tenant, ref) = "ok"
  PROVE  IsTemplate(TemplateAt(ref))
<1>1. CASE ref \in DOMAIN BakedTemplates BY <1>1, BakedFiles DEF TemplateAt
<1>2. CASE ref \notin DOMAIN BakedTemplates
  <2>1. Lookup(tenant, "tpl", ref) = "ok" BY <1>2 DEF TemplateFault
  <2>2. ref \in Stored /\ KindOf[ref] = "tpl" BY <2>1 DEF Lookup
  <2>3. PICK files : Accepted(files) /\ blob[ref] = ToArchive(FromSourceFiles(files))
    BY <2>2 DEF Contents, Blobs
  <2> QED BY <1>2, <2>3, FilesReadBack DEF Accepted, TemplateAt
<1> QED BY <1>1, <1>2

(* Assembling a render.                                                    *)
LEMMA AssembleKeeps ==
  ASSUME IInv, Contents, NEW p \in Handlers, Assemble(p), ~\E f, k : Refuse(p, f, k),
         ~\E kind, k : ReadFails(p, kind, k)
  PROVE  Holds(p)'
<1> USE DEF IInv
<1> DEFINE r == call[p].request  assets == work[p].assets
<1>1. pc[p] = "assemble" /\ Holds(p) /\ Handled(p)
  BY DEF Assemble, Contents, AllHandled
<1>2. call[p] \in Calls[p] /\ FirstFault(call[p]) = "ok" /\ call[p].op = "render"
  BY <1>1, OperationsKnown DEF Handled, PlacesOf, Operations
<1>3. /\ IsFiles(r.source) /\ IsFiles(r.files) /\ IsFiles(r.overrides)
      /\ r.body.what = "absent" \/ r.body.bytes \in Nat
  BY <1>2, CallsAssumption DEF IsCall
<1>4. IsFiles(assets) BY <1>1 DEF Holds, Loaded
<1>5. CASE r.template = NoKey
  <2> DEFINE files == InlineFiles(r, assets)
  <2>1. BundleFault(r.main, files, MaxBundleBytes) = "ok" /\ ToCompile(p, files, r.main, Absent)
    BY <1>5 DEF Assemble
  <2>2. GoodBundle(r.main, files, Absent) BY <1>3, <1>4, <2>1, InlineRight
  <2> HIDE DEF files, r
  <2> QED BY <1>1, <1>2, <2>1, <2>2, HoldsBundle
<1>6. CASE r.template # NoKey
  <2> DEFINE t == TemplateAt(r.template)  body == BodyFor(r, t)
             files == AssembledFiles(t, r.data, body, assets, r.overrides)
  <2>1. /\ TemplateFault(call[p].tenant, r.template) = "ok"
        /\ UseFault(t, r.data, body, assets, r.overrides, MaxBundleBytes) = "ok"
        /\ ToCompile(p, files, GeneratedMain, t)
    BY <1>6 DEF Assemble
  <2>2. IsTemplate(t) BY <2>1, TemplatesFound
  <2>3. body.what = "absent" \/ body.bytes \in Nat BY <1>3 DEF BodyFor, Absent
  <2> HIDE DEF t, body
  <2>4. GoodBundle(GeneratedMain, files, t) BY <1>3, <1>4, <2>1, <2>2, <2>3, AssembledRight
  <2> HIDE DEF files, r
  <2> QED BY <1>1, <1>2, <2>1, <2>4, HoldsBundle
<1> QED BY <1>5, <1>6

(* What was uploaded is a template, with a body if it has one.             *)
LEMMA UploadsTyped ==
  ASSUME NEW files, IsFiles(files)
  PROVE  LET t == FromSourceFiles(files) IN
         IsTemplate(t) /\ (FixtureBody(t).what = "absent" \/ FixtureBody(t).bytes \in Nat)
<1> DEFINE all == Elements(files)  t == Built(all)
           meta == {f \in all : f.path \in MetadataPaths}
<1>1. IsFiniteSet(all) /\ \A f \in all : IsFile(f) BY ElementsFinite DEF IsFiles
<1>2. t.files = all \ meta /\ t.body = ContentAt(meta, <<"fixture.body.typ">>) BY DEF Built
<1>3. IsTemplate(t)
  <2>1. t.files \subseteq all BY <1>2
  <2> HIDE DEF all, t
  <2> QED BY <1>1, <2>1, FS_Subset DEF IsTemplate
<1>4. t.body.what = "absent" \/ t.body.bytes \in Nat
  <2>1. CASE HasFile(meta, <<"fixture.body.typ">>)
    <3> DEFINE f == CHOOSE g \in meta : g.path = <<"fixture.body.typ">>
    <3>1. f \in meta /\ f.path = <<"fixture.body.typ">> BY <2>1 DEF HasFile
    <3>2. IsFile(f) BY <1>1, <3>1
    <3>3. t.body = f.content BY <1>2, <2>1 DEF ContentAt
    <3> HIDE DEF f, t
    <3> QED BY <3>1, <3>2, <3>3 DEF IsFile
  <2>2. CASE ~HasFile(meta, <<"fixture.body.typ">>)
    <3> HIDE DEF t, meta
    <3> QED BY <1>2, <2>2 DEF ContentAt, Absent
  <2> QED BY <2>1, <2>2
<1> HIDE DEF t, all
<1>5. FixtureBody(t).what = "absent" \/ FixtureBody(t).bytes \in Nat
  BY <1>4 DEF FixtureBody, Absent
<1> QED BY <1>3, <1>5 DEF t, all, FromSourceFiles

(* Validating an upload, with the template's own fixture.                  *)
LEMMA ValidateKeeps ==
  ASSUME IInv, Contents, NEW p \in Handlers, Validate(p), ~\E f, k : Refuse(p, f, k)
  PROVE  Holds(p)'
<1> USE DEF IInv
<1> DEFINE files == call[p].files \o work[p].assets  t == FromSourceFiles(files)
           body == FixtureBody(t)
           bundle == AssembledFiles(t, FixtureData(t), body, <<>>, <<>>)
<1>1. /\ pc[p] = "validate" /\ Holds(p) /\ Handled(p) /\ DOMAIN work = Handlers
      /\ pc \in [Handlers -> Places]
  BY DEF Validate, Contents, AllHandled, TypeOK
<1>2. call[p] \in Calls[p] /\ FirstFault(call[p]) = "ok" /\ call[p].op = "template"
  BY <1>1, OperationsKnown DEF Handled, PlacesOf, Operations
<1>3. IsFiles(call[p].files) /\ IsFiles(work[p].assets)
  BY <1>1, <1>2, CallsAssumption DEF IsCall, Holds, Loaded
<1>4. IsFiles(files) BY <1>3, ListsJoin DEF IsFiles
<1>5. /\ SourceFault(files, MaxBundleBytes) = "ok"
      /\ \/ /\ Goto(p, "store") /\ work' = [work EXCEPT ![p].template = t] /\ call' = call
         \/ /\ UseFault(t, FixtureData(t), body, <<>>, <<>>, MaxBundleBytes) = "ok"
            /\ ToCompile(p, bundle, GeneratedMain, t)
  BY DEF Validate
<1>6. Accepted(files) BY <1>4, <1>5 DEF Accepted
<1>7. IsTemplate(t) /\ (body.what = "absent" \/ body.bytes \in Nat)
  <2> HIDE DEF files
  <2> QED BY <1>4, UploadsTyped
<1>8. \E fs : Accepted(fs) /\ t = FromSourceFiles(fs) BY <1>6
<1> HIDE DEF t, body
<1>9. CASE Goto(p, "store") /\ work' = [work EXCEPT ![p].template = t] /\ call' = call
  <2>1. work'[p].assets = work[p].assets /\ work'[p].template = t /\ pc'[p] = "store"
    BY <1>1, <1>9, Fields DEF Handled, Goto
  <2> QED BY <1>1, <1>8, <2>1, HoldsOn
<1>10. CASE /\ UseFault(t, FixtureData(t), body, <<>>, <<>>, MaxBundleBytes) = "ok"
            /\ ToCompile(p, bundle, GeneratedMain, t)
  <2>1. IsFiles(<<>>) BY ShortLists DEF IsFiles
  <2>2. GoodBundle(GeneratedMain, bundle, t) BY <1>7, <1>10, <2>1, AssembledRight
  <2> HIDE DEF bundle
  <2> QED BY <1>1, <1>8, <1>10, <2>2, HoldsBundle
<1> QED BY <1>5, <1>9, <1>10
(* Every step of a handler leaves it holding what it should.               *)
LEMMA HolderKeeps ==
  ASSUME IInv, Contents, NEW p \in Handlers, HandlerStep(p)
  PROVE  Holds(p)'
<1> USE DEF IInv
<1>a. /\ Handled(p) /\ DOMAIN work = Handlers /\ DOMAIN work[p] = DOMAIN NoWork
      /\ DOMAIN call = Handlers /\ pc \in [Handlers -> Places] /\ Holds(p)
  BY DEF AllHandled, TypeOK, Handled, Contents
<1>b. ASSUME work'[p].assets = <<>>, pc'[p] \notin {"preflight", "fetch", "compile", "reading"},
             pc'[p] = "store" => call'[p].op # "template"
      PROVE  Holds(p)'
  <2>1. Loaded(p)' BY <1>b, TotalOfNone, ShortLists, BoundsAssumption DEF Loaded, IsFiles
  <2> QED BY <1>b, <2>1 DEF Holds, Walking, Reads, Uploads, Bundled
<1>1. ASSUME NEW a, Reply(p, a) PROVE Holds(p)'
  <2>1. pc'[p] = "idle" /\ work'[p] = NoWork BY <1>1, ReplyEnds
  <2> QED BY <1>b, <2>1 DEF NoWork
<1>2. ASSUME NEW f, NEW k, Refuse(p, f, k) PROVE Holds(p)' BY <1>1, <1>2 DEF Refuse, Answer
<1>3. ASSUME NEW kind, NEW k, ReadFails(p, kind, k) PROVE Holds(p)' BY <1>2, <1>3 DEF ReadFails
<1>4. ASSUME NEW s, NEW k, Answer(p, s, k) PROVE Holds(p)' BY <1>1, <1>4 DEF Answer
<1>5. CASE Begin(p)
  <2>1. CASE \E f, k : Refuse(p, f, k) BY <1>2, <2>1
  <2>2. CASE ~\E f, k : Refuse(p, f, k)
    <3>1. PICK c \in Calls[p] : /\ FirstFault(c) = "ok" /\ call' = [call EXCEPT ![p] = c]
                                /\ pc' = [pc EXCEPT ![p] = FirstStep(c)] /\ work' = work
                                /\ pc[p] = "idle"
      BY <1>5, <2>2 DEF Begin, Goto
    <3>2. work'[p] = NoWork /\ pc'[p] = FirstStep(c) /\ call'[p] = c
      BY <1>a, <3>1 DEF Handled
    <3>3. work'[p].assets = <<>> /\ work'[p].at = 1 BY <3>2 DEF NoWork
    <3>4. c.op \in Operations /\ IsCall(c) BY <3>1, OperationsKnown, CallsAssumption
    <3>5. CASE FirstStep(c) = "preflight"
      <4>1. c.op \in {"render", "template"} /\ AssetsOf(c) # <<>>
        BY <3>4, <3>5 DEF FirstStep, Operations, AfterAssets
      <4>2. IsList(AssetsOf(c)) BY <3>4, <4>1 DEF IsCall, AssetsOf
      <4>3. AssetsOf(c) \in Seq(Elements(AssetsOf(c))) BY <4>2 DEF IsList
      <4>4. 1 \in 1..Len(AssetsOf(c)) BY <4>1, <4>3
      <4>5. Len(<<>>) = 1 - 1 /\ DOMAIN <<>> = {} OBVIOUS
      <4>6. Walking(p)' BY <3>2, <3>3, <3>5, <4>2, <4>4, <4>5 DEF Walking
      <4>7. Loaded(p)' BY <3>3, TotalOfNone, ShortLists, BoundsAssumption DEF Loaded, IsFiles
      <4> QED BY <3>2, <3>5, <4>6, <4>7 DEF Holds, Reads, Uploads, Bundled
    <3>6. CASE FirstStep(c) # "preflight"
      <4>1. FirstStep(c) \notin {"preflight", "fetch", "compile", "reading"}
            /\ (FirstStep(c) = "store" => c.op # "template")
        BY <3>4, <3>6 DEF FirstStep, AfterAssets, Operations
      <4> QED BY <1>b, <3>2, <3>3, <4>1
    <3> QED BY <3>5, <3>6
  <2> QED BY <2>1, <2>2
<1>6. CASE Preflight(p) BY <1>2, <1>6, PreflightKeeps
<1>7. CASE Fetch(p) BY <1>2, <1>3, <1>7, FetchKeeps
<1>8. CASE Assemble(p) BY <1>2, <1>3, <1>8, AssembleKeeps
<1>9. CASE Validate(p) BY <1>2, <1>9, ValidateKeeps
<1>10. CASE WorkerFails(p) BY <1>2, <1>10 DEF WorkerFails
<1>11. CASE DocumentFails(p) BY <1>1, <1>11 DEF DocumentFails
<1>12. CASE Compiles(p)
  <2> DEFINE wanted == IF call[p].op = "render" THEN PagesOf(call[p].request) ELSE <<>>
  <2>1. pc[p] = "compile"
        /\ \/ \E s, k : Answer(p, s, k)
           \/ Goto(p, "store") /\ work' = [work EXCEPT ![p].pages = wanted] /\ call' = call
    BY <1>12 DEF Compiles
  <2>2. CASE Goto(p, "store") /\ work' = [work EXCEPT ![p].pages = wanted] /\ call' = call
    <3> HIDE DEF wanted
    <3>1. /\ work'[p].assets = work[p].assets /\ work'[p].template = work[p].template
          /\ pc'[p] = "store"
      BY <1>a, <2>2, Fields DEF Goto
    <3> QED BY <1>a, <2>1, <2>2, <3>1, HoldsOn DEF Holds, Uploads
  <2> QED BY <1>4, <2>1, <2>2
<1>c. ASSUME pc[p] # "preflight", work'[p].assets = work[p].assets,
             pc'[p] \in {"preview", "removing"}
      PROVE  Holds(p)'
  BY <1>a, <1>c, HoldsOn
<1>13. CASE Store(p)
  <2>1. pc[p] = "store"
        /\ \/ \E f, k : Refuse(p, f, k)
           \/ \E s, k : Answer(p, s, k)
           \/ \E k : Goto(p, "preview") /\ work' = [work EXCEPT ![p].doc = k, ![p].at = 1]
    BY <1>13 DEF Store, Put
  <2>2. ASSUME NEW k, Goto(p, "preview"), work' = [work EXCEPT ![p].doc = k, ![p].at = 1]
        PROVE  Holds(p)'
    <3>1. pc'[p] = "preview" /\ work'[p].assets = work[p].assets
      BY <1>a, <2>2, Fields DEF Goto
    <3> QED BY <1>c, <2>1, <3>1
  <2> QED BY <1>2, <1>4, <2>1, <2>2
<1>14. CASE Preview(p)
  <2>1. pc[p] = "preview"
        /\ \/ \E f, k : Refuse(p, f, k)
           \/ \E s, k : Answer(p, s, k)
           \/ \E at : pc' = pc /\ work' = [work EXCEPT ![p].at = at]
    BY <1>14 DEF Preview, PreviewRefused
  <2>2. ASSUME NEW at, pc' = pc, work' = [work EXCEPT ![p].at = at] PROVE Holds(p)'
    <3>1. work'[p].assets = work[p].assets BY <1>a, <2>2, Fields
    <3> QED BY <1>c, <2>1, <2>2, <3>1
  <2> QED BY <1>2, <1>4, <2>1, <2>2
<1>d. ASSUME pc[p] # "preflight", work'[p].assets = work[p].assets, pc'[p] = "reading",
             \A k \in work'[p].ids : KindOf[k] = "tpl"
      PROVE  Holds(p)'
  <2>1. Loaded(p)' BY <1>a, <1>d DEF Holds, Loaded
  <2> QED BY <1>d, <2>1 DEF Holds, Walking, Reads, Uploads, Bundled
<1>15. CASE List(p)
  <2> DEFINE ids == IF call[p].stored
                    THEN {k \in Stored : Lookup(call[p].tenant, "tpl", k) = "ok"} ELSE {}
  <2>1. pc[p] = "list" /\ Goto(p, "reading") /\ work' = [work EXCEPT ![p].ids = ids]
    BY <1>15 DEF List
  <2>2. \A k \in ids : KindOf[k] = "tpl" BY DEF Lookup
  <2> HIDE DEF ids
  <2>3. work'[p].assets = work[p].assets /\ work'[p].ids = ids /\ pc'[p] = "reading"
    BY <1>a, <2>1, Fields DEF Goto
  <2> QED BY <1>d, <2>1, <2>2, <2>3
<1>16. CASE Reading(p)
  <2>1. pc[p] = "reading"
        /\ \/ \E f, k : Refuse(p, f, k)
           \/ \E kind, k : ReadFails(p, kind, k)
           \/ \E a : Reply(p, a)
           \/ \E k : pc' = pc /\ work' = [work EXCEPT ![p].ids = @ \ {k}, ![p].listed = @ \cup {k}]
    BY <1>16 DEF Reading, Listing
  <2>2. ASSUME NEW k, pc' = pc,
               work' = [work EXCEPT ![p].ids = @ \ {k}, ![p].listed = @ \cup {k}]
        PROVE  Holds(p)'
    <3>1. work'[p].assets = work[p].assets /\ work'[p].ids = work[p].ids \ {k}
      BY <1>a, <2>2, Fields
    <3>2. \A l \in work[p].ids : KindOf[l] = "tpl" BY <1>a, <2>1 DEF Holds, Reads
    <3> QED BY <1>d, <2>1, <2>2, <3>1, <3>2
  <2> QED BY <1>1, <1>2, <1>3, <2>1, <2>2
<1>17. CASE Assets(p) BY <1>1, <1>17 DEF Assets, Listing
<1>18. CASE Schema(p) BY <1>2, <1>3, <1>4, <1>18 DEF Schema
<1>19. CASE Link(p) BY <1>2, <1>4, <1>19 DEF Link
<1>20. CASE Delete(p)
  <2>1. pc[p] = "delete"
        /\ \/ \E f, k : Refuse(p, f, k)
           \/ Goto(p, "removing") /\ UNCHANGED work
    BY <1>20 DEF Delete
  <2>2. CASE Goto(p, "removing") /\ UNCHANGED work BY <1>a, <1>c, <2>1, <2>2 DEF Goto
  <2> QED BY <1>2, <2>1, <2>2
<1>21. CASE Removing(p) BY <1>4, <1>21 DEF Removing
<1> QED BY <1>5, <1>6, <1>7, <1>8, <1>9, <1>10, <1>11, <1>12, <1>13, <1>14, <1>15, <1>16,
           <1>17, <1>18, <1>19, <1>20, <1>21 DEF HandlerStep

(* The second inductive invariant: every step keeps it,                    *)
LEMMA ContentsKept ==
  ASSUME IInv, Contents, Next
  PROVE  Contents'
<1> USE Steps, StaysFinite, BlobsKept
<1>1. CASE StoreStep
  <2>1. Fine /\ \A k : Spared(k) BY <1>1, StoreSpares DEF IInv
  <2>2. UNCHANGED <<pc, call, work>> BY <1>1, StoreMovesNobody
  <2>3. \A q \in Handlers : Holds(q)'
    BY <2>1, <2>2, HoldsUntouched DEF Contents, Fine
  <2> QED BY <2>3 DEF Contents
<1>2. ASSUME NEW p \in Handlers, HandlerStep(p) PROVE Contents'
  <2>1. Fine /\ \A k \in minted : Spared(k) \/ KindOf[k] = "out" BY <1>2, SparedOrOut
  <2>2. Frame(p) BY <1>2, OthersUnmoved DEF IInv
  <2>3. ASSUME NEW q \in Handlers \ {p} PROVE Holds(q)'
    BY <2>1, <2>2, HoldsUntouched DEF Contents, Fine, Frame
  <2>4. Holds(p)' BY <1>2, HolderKeeps
  <2> QED BY <2>3, <2>4 DEF Contents
<1> QED BY <1>1, <1>2

(* Both parts of the invariant hold together.                              *)
FullInv == IInv /\ Contents
(* and with the first it always holds.                                     *)
LEMMA FullInvariance == Spec => []FullInv
<1>1. Init => FullInv
  <2> SUFFICES ASSUME Init PROVE Contents BY InitialStates DEF FullInv
  <2>1. /\ pc = [p \in Handlers |-> "idle"] /\ work = [p \in Handlers |-> NoWork]
        /\ Stored = {}
    BY DEF Init, Stored, ObjectsStore!Init
  <2>2. ASSUME NEW p \in Handlers PROVE Holds(p)
    <3>1. pc[p] = "idle" /\ work[p].assets = <<>> BY <2>1 DEF NoWork
    <3> QED BY <3>1, HoldsNothing
  <2> QED BY <2>1, <2>2, FS_EmptySet DEF Contents, Blobs
<1>2. FullInv /\ (Next \/ UNCHANGED vars) => FullInv'
  <2> SUFFICES ASSUME FullInv, Next \/ UNCHANGED vars PROVE FullInv' OBVIOUS
  <2>1. IInv' BY InductiveStep DEF FullInv
  <2>2. CASE Next BY <2>1, <2>2, ContentsKept DEF FullInv
  <2>3. CASE UNCHANGED vars
    <3> USE DEF vars, storeVars, handlerVars, FullInv
    <3>1. Stored' = Stored /\ Blobs' BY <2>3 DEF Contents, Blobs, Stored
    <3>2. \A k : Spared(k) BY <2>3 DEF Spared, Stored
    <3>3. \A q \in Handlers : Holds(q)' BY <2>3, <3>2, HoldsUntouched DEF Contents
    <3> QED BY <2>1, <3>1, <3>3 DEF Contents
  <2> QED BY <2>2, <2>3
<1> QED BY <1>1, <1>2, PTL DEF Spec

(* No list of ids, repeated ones included, makes load_assets hold more     *)
(* than a bundle may: the sizes it looked at first are those it reads.     *)
THEOREM LoadsStayWithinBudget == Spec => []LoadedWithinBudget
<1>1. FullInv => LoadedWithinBudget
  BY DEF FullInv, Contents, Holds, Loaded, LoadedWithinBudget
<1> QED BY <1>1, FullInvariance, PTL

(* What is compiled is a bundle, and no value of a caller's became code    *)
(* in it (render.rs assemble, templates.rs assemble_with_overrides).       *)
THEOREM BundlesCompiledAreSound == Spec => []BundlesWellFormed
<1>1. FullInv => BundlesWellFormed
  <2> SUFFICES ASSUME FullInv, NEW p \in Handlers, pc[p] = "compile"
               PROVE  /\ WellFormedBundle(work[p].main, work[p].files, MaxBundleBytes)
                      /\ \A f \in {g \in Elements(work[p].files) : g.content.what = "main"} :
                           \A id \in f.content.idents :
                             id \in Identifiers /\ IsMappedTo(work[p].template, id)
    BY DEF BundlesWellFormed
  <2>1. GoodBundle(work[p].main, work[p].files, work[p].template)
    BY DEF FullInv, Contents, Holds, Bundled
  <2>2. WellFormedBundle(work[p].main, work[p].files, MaxBundleBytes)
    BY <2>1, SoundBundles, BoundsAssumption DEF GoodBundle, IsEntry
  <2> QED BY <2>1, <2>2 DEF GoodBundle
<1> QED BY <1>1, FullInvariance, PTL
-----------------------------------------------------------------------------
(* What callers are answered.                                              *)

(* Only a document that does not compile is answered with a diagnostic.    *)
LEMMA Replied ==
  ASSUME NEW p \in Handlers, HandlerStep(p)
  PROVE  \/ Quiet \/ (\E s, k : Answer(p, s, k)) \/ (\E ids : Listing(p, ids))
         \/ DocumentFails(p)
<1> DEFINE Done == \/ Quiet \/ (\E s, k : Answer(p, s, k)) \/ (\E ids : Listing(p, ids))
                   \/ DocumentFails(p)
<1> USE DEF ToCompile
<1>2. ASSUME NEW f, NEW k, Refuse(p, f, k) PROVE Done BY <1>2 DEF Refuse
<1>3. ASSUME NEW kind, NEW k, ReadFails(p, kind, k) PROVE Done BY <1>2, <1>3 DEF ReadFails
<1>5. CASE Begin(p) BY <1>2, <1>5 DEF Begin
<1>6. CASE Preflight(p) BY <1>2, <1>6 DEF Preflight
<1>7. CASE Fetch(p) BY <1>2, <1>3, <1>7 DEF Fetch
<1>8. CASE Assemble(p) BY <1>2, <1>3, <1>8 DEF Assemble
<1>9. CASE Validate(p) BY <1>2, <1>9 DEF Validate
<1>10. CASE WorkerFails(p) BY <1>2, <1>10 DEF WorkerFails
<1>12. CASE Compiles(p) BY <1>12 DEF Compiles
<1>13. CASE Store(p) BY <1>2, <1>13 DEF Store, Put
<1>14. CASE Preview(p) BY <1>2, <1>14 DEF Preview, PreviewRefused
<1>15. CASE List(p) BY <1>15 DEF List
<1>16. CASE Reading(p) BY <1>2, <1>3, <1>16 DEF Reading
<1>17. CASE Assets(p) BY <1>17 DEF Assets
<1>18. CASE Schema(p) BY <1>2, <1>3, <1>18 DEF Schema
<1>19. CASE Link(p) BY <1>2, <1>19 DEF Link
<1>20. CASE Delete(p) BY <1>2, <1>20 DEF Delete
<1>21. CASE Removing(p) BY <1>21 DEF Removing
<1> QED BY <1>5, <1>6, <1>7, <1>8, <1>9, <1>10, <1>12, <1>13, <1>14, <1>15, <1>16,
           <1>17, <1>18, <1>19, <1>20, <1>21 DEF HandlerStep

(* The larger of two numbers.                                              *)
LEMMA MaxOfTwo ==
  \A a, b \in Int : Max({a, b}) = IF a >= b THEN a ELSE b
<1> SUFFICES ASSUME NEW a \in Int, NEW b \in Int
             PROVE  Max({a, b}) = IF a >= b THEN a ELSE b
  OBVIOUS
<1>1. \E x \in {a, b} : \A y \in {a, b} : x >= y OBVIOUS
<1>2. Max({a, b}) \in {a, b} /\ \A y \in {a, b} : Max({a, b}) >= y BY <1>1 DEF Max
<1> QED BY <1>2

(* A diagnostic in the body is about a line the caller wrote: no other     *)
(* file of the bundle has the body's path.                                 *)
LEMMA DiagnosticsLocate ==
  ASSUME NEW w, GoodBundle(w.main, w.files, w.template), NEW i \in DOMAIN w.files,
         NEW line \in 1..LinesOf(w.files[i])
  PROVE  Locates(CallersDiagnostic(w, [file |-> w.files[i].path, line |-> line]), w)
<1> DEFINE d == [file |-> w.files[i].path, line |-> line]  f == w.files[i]
           e == CallersDiagnostic(w, d)
<1>1. IsEntry(f) /\ f \in Elements(w.files) BY DEF GoodBundle, Elements
<1>2. LinesOf(f) \in Nat BY <1>1, BoundsAssumption DEF LinesOf, IsEntry
<1>3. line \in Int /\ 1 <= line /\ line <= LinesOf(f) BY <1>2
<1>4. CASE HasBody(w) /\ f.path = GeneratedBody
  <2>1. e = [file |-> <<"body.typ">>, line |-> Max({line - 1, 1})]
    BY <1>4 DEF CallersDiagnostic, Mapped, PreludeLines
  <2>2. e.file = <<"body.typ">> /\ e.line = Max({line - 1, 1})
    <3>1. PICK n : n = Max({line - 1, 1}) OBVIOUS
    <3>2. e = [file |-> <<"body.typ">>, line |-> n] BY <2>1, <3>1
    <3> HIDE DEF e
    <3> QED BY <3>1, <3>2
  <2>3. PICK g \in Elements(w.files) : g.path = GeneratedBody /\ g.content.what = "body"
    BY <1>4 DEF HasBody, GoodBundle
  <2>4. g = f BY <1>4, <2>3, PathsDiffer DEF GoodBundle, Elements
  <2>5. f.bytes \in Nat /\ line <= f.bytes BY <1>1, <1>3, <2>3, <2>4 DEF LinesOf, IsEntry
  <2> HIDE DEF f, e
  <2>6. Max({line - 1, 1}) >= 1 /\ Max({line - 1, 1}) <= Max({f.bytes - 1, 1})
    <3>1. line - 1 \in Int /\ f.bytes - 1 \in Int BY <1>3, <2>5
    <3>2. /\ Max({line - 1, 1}) = IF line - 1 >= 1 THEN line - 1 ELSE 1
          /\ Max({f.bytes - 1, 1}) = IF f.bytes - 1 >= 1 THEN f.bytes - 1 ELSE 1
      BY <3>1, MaxOfTwo
    <3> QED BY <1>3, <2>5, <3>2
  <2>7. <<"body.typ">> # GeneratedBody
    <3>1. <<"body.typ">>[1] = "body.typ" /\ GeneratedBody[1] = "__body.typ"
      BY DEF GeneratedBody
    <3> QED BY <3>1
  <2> QED BY <2>2, <2>3, <2>4, <2>6, <2>7 DEF Locates, e, d, f
<1>5. CASE ~(HasBody(w) /\ f.path = GeneratedBody)
  <2>1. e = d BY <1>5 DEF CallersDiagnostic, Mapped
  <2>2. e.file = f.path /\ e.line = line BY <2>1
  <2>3. e.file \in PathsOf(w.files) BY <2>2 DEF PathsOf
  <2> QED BY <1>3, <1>5, <2>2, <2>3 DEF Locates, e, d
<1> QED BY <1>4, <1>5

(* A compile error in the body of a wrapper points into what the caller    *)
(* wrote, and never at the generated file (SourceMap::apply).              *)
THEOREM DiagnosticsAreTheCallers == Spec => DiagnosticsInCallersTerms
<1>1. FullInv /\ (Next \/ UNCHANGED vars) =>
        (\A p \in Handlers : answer'[p].diag # NoDiagnostic => Locates(answer'[p].diag, work[p]))
          \/ UNCHANGED vars
  <2> SUFFICES ASSUME FullInv, Next, NEW p \in Handlers, answer'[p].diag # NoDiagnostic
               PROVE  Locates(answer'[p].diag, work[p])
    OBVIOUS
  <2> USE DEF FullInv, IInv
  <2>1. NoAnswer.diag = NoDiagnostic BY DEF NoAnswer
  <2>2. ~StoreStep BY <2>1, StoreMovesNobody DEF NoAnswers
  <2>3. PICK q \in Handlers : HandlerStep(q) BY <2>2, Steps
  <2>4. q = p
    <3>1. Frame(q) BY <2>3, OthersUnmoved
    <3> QED BY <2>1, <3>1 DEF Frame
  <2>5. DocumentFails(p)
    <3>1. ~Quiet BY <2>1 DEF Quiet, NoAnswers
    <3>2. ASSUME NEW a, Reply(p, a) PROVE answer'[p] = a BY <3>2, ReplyEnds
    <3>3. ASSUME NEW s, NEW k, Answer(p, s, k) PROVE FALSE
      <4>1. answer'[p] = [NoAnswer EXCEPT !.status = s, !.key = k] BY <3>2, <3>3 DEF Answer
      <4> QED BY <4>1 DEF NoAnswer
    <3>4. ASSUME NEW ids, Listing(p, ids) PROVE FALSE
      <4>1. answer'[p] = [NoAnswer EXCEPT !.status = "200", !.listed = ids]
        BY <3>2, <3>4 DEF Listing
      <4> QED BY <4>1 DEF NoAnswer
    <3> QED BY <2>3, <2>4, <3>1, <3>3, <3>4, Replied
  <2>6. PICK i \in DOMAIN work[p].files : \E line \in 1..LinesOf(work[p].files[i]) :
          Reply(p, [NoAnswer EXCEPT !.status = "422", !.diag =
            CallersDiagnostic(work[p], [file |-> work[p].files[i].path, line |-> line])])
    BY <2>5 DEF DocumentFails
  <2>7. PICK line \in 1..LinesOf(work[p].files[i]) :
          Reply(p, [NoAnswer EXCEPT !.status = "422", !.diag =
            CallersDiagnostic(work[p], [file |-> work[p].files[i].path, line |-> line])])
    BY <2>6
  <2> DEFINE d == CallersDiagnostic(work[p], [file |-> work[p].files[i].path, line |-> line])
  <2>8. answer'[p].diag = d
    <3>1. PICK e : e = d OBVIOUS
    <3>2. Reply(p, [NoAnswer EXCEPT !.status = "422", !.diag = e]) BY <2>7, <3>1
    <3>3. answer'[p] = [NoAnswer EXCEPT !.status = "422", !.diag = e] BY <3>2, ReplyEnds
    <3>4. answer'[p].diag = e BY <3>3 DEF NoAnswer
    <3> QED BY <3>1, <3>4
  <2>9. GoodBundle(work[p].main, work[p].files, work[p].template)
    BY <2>5 DEF DocumentFails, Contents, Holds, Bundled
  <2>10. Locates(d, work[p]) BY <2>9, DiagnosticsLocate
  <2> QED BY <2>8, <2>10
<1> QED BY <1>1, FullInvariance, PTL DEF Spec, DiagnosticsInCallersTerms
(* Only what is about ids is answered by 404 or 410.                       *)
LEMMA RefusalsAboutIds == \A f : StatusOf(f) \in {"404", "410"} => f \in AboutIds
BY DEF StatusOf, AboutIds

(* An id that is live is refused for what it is an id of, if at all.       *)
LEMMA LiveIdsFound ==
  ASSUME TypeOK, NEW k \in LiveIds, NEW t
  PROVE  /\ \A kind : Lookup(t, kind, k) \in AboutIds => TenantOf[k] # t \/ KindOf[k] # kind
         /\ TemplateFault(t, k) \in AboutIds => TenantOf[k] # t \/ KindOf[k] # "tpl"
<1>1. k \in Stored /\ k \in Keys /\ ~ObjectsStore!Expired(k)
  BY SameStore DEF TypeOK, LiveIds
<1>2. ASSUME NEW kind, Lookup(t, kind, k) \in AboutIds
      PROVE  TenantOf[k] # t \/ KindOf[k] # kind
  BY <1>1, <1>2 DEF Lookup, AboutIds
<1>3. TemplateFault(t, k) \in AboutIds => Lookup(t, "tpl", k) \in AboutIds
  BY <1>1, ReasonsOfChecks DEF TemplateFault, AboutIds
<1> QED BY <1>2, <1>3

(* Of what there is to list, as many are listed as asked for, or all.      *)
LEMMA ListsAll ==
  ASSUME NEW all, IsFiniteSet(all), NEW shown \in SUBSET all, NEW limit \in Nat,
         Cardinality(shown) = Min({limit, Cardinality(all)})
  PROVE  shown = all \/ Cardinality(shown) = limit
<1>1. Cardinality(all) \in Nat BY FS_CardinalityType
<1>2. Min({limit, Cardinality(all)}) \in {limit, Cardinality(all)} BY <1>1, LeastNatural
<1> QED BY <1>2, FS_Subset

(* Every refusal has the reason it names.                                  *)
LEMMA AnswersJustified ==
  ASSUME FullInv, NEW p \in Handlers, HandlerStep(p), Answered(p)
  PROVE  Justified(p, answer'[p], call[p])
<1> DEFINE c == call[p]  tenant == c.tenant
<1> USE DEF FullInv, IInv
<1>a. /\ Handled(p) /\ watch[p] \subseteq LiveIds /\ NoKey \notin watch[p]
      /\ pc \in [Handlers -> Places] /\ DOMAIN answer = Handlers /\ Holds(p)
  BY BoundsAssumption DEF AllHandled, Watches, TypeOK, Contents
<1>b. /\ c \in Calls[p] /\ FirstFault(c) = "ok" /\ pc[p] \in PlacesOf(c.op) /\ pc[p] # "idle"
      /\ c.op \in Operations /\ IsCall(c)
  BY <1>a, OperationsKnown, CallsAssumption DEF Handled, Answered
<1>c. pc'[p] = "idle" BY DEF Answered
<1>1. ASSUME NEW s, NEW k, Answer(p, s, k)
      PROVE  answer'[p].status = s /\ answer'[p].key = k
  <2>1. answer'[p] = [NoAnswer EXCEPT !.status = s, !.key = k] BY <1>1, ReplyEnds DEF Answer
  <2> QED BY <2>1 DEF NoAnswer
(* Refused: for no reason about ids, or for a good one.                    *)
<1>2. ASSUME NEW f, NEW k, Refuse(p, f, k),
             f \in AboutIds /\ k \in watch[p] => TenantOf[k] # tenant \/ ~TakenForWhatItIs(c, k)
      PROVE  Justified(p, answer'[p], c)
  <2>1. answer'[p].status = StatusOf(f) /\ answer'[p].key = k BY <1>1, <1>2 DEF Refuse
  <2> QED BY <1>2, <2>1, RefusalsAboutIds, RefusalsAreNot200 DEF Justified
<1>3. ASSUME NEW kind, NEW k, ReadFails(p, kind, k) PROVE Justified(p, answer'[p], c)
  <2>1. PICK f : Refuse(p, f, k) /\ (f \in AboutIds => k \in doomed)
    BY <1>3 DEF ReadFails, AboutIds
  <2>2. f \in AboutIds => k \notin watch[p] BY <1>a, <2>1 DEF LiveIds
  <2> QED BY <1>2, <2>1, <2>2
(* Answered well, where nothing is listed.                                 *)
<1>4. ASSUME NEW s, NEW k, Answer(p, s, k), s \notin {"404", "410"},
             c.op \notin {"list", "assets"}
      PROVE  Justified(p, answer'[p], c)
  <2>1. Due(p, c) = {} BY <1>4 DEF Due
  <2> QED BY <1>1, <1>4, <2>1 DEF Justified
<1>5. ASSUME Begin(p) PROVE FALSE BY <1>5, <1>b DEF Begin
<1>d. ASSUME pc[p] \in {"preflight", "fetch"}
      PROVE  /\ AssetsOf(c)[work[p].at] \in Elements(AssetsOf(c))
             /\ c.op \in {"render", "template"}
  <2>1. IsList(AssetsOf(c)) /\ work[p].at \in 1..Len(AssetsOf(c))
    BY <1>a, <1>d DEF Holds, Walking
  <2>2. AssetsOf(c) \in Seq(Elements(AssetsOf(c))) BY <2>1 DEF IsList
  <2>3. work[p].at \in DOMAIN AssetsOf(c) BY <2>1, <2>2
  <2>4. c.op \in {"render", "template"} BY <1>b, <1>d DEF PlacesOf, Operations
  <2> QED BY <2>3, <2>4 DEF Elements
<1>6. CASE Preflight(p)
  <2> DEFINE ids == AssetsOf(c)  i == work[p].at
             fault == PreflightFault(tenant, ids, i, TotalBytes(work[p].assets))
  <2>1. pc[p] = "preflight" /\ Refuse(p, fault, ids[i])
    <3>1. pc[p] = "preflight" /\ (Refuse(p, fault, ids[i]) \/ pc'[p] \in {"preflight", "fetch"})
      BY <1>6, <1>a DEF Preflight, Goto
    <3> QED BY <1>c, <3>1
  <2>2. fault \in AboutIds => Lookup(tenant, "assets", ids[i]) \in AboutIds
    BY DEF PreflightFault, AboutIds
  <2>3. ids[i] \in Elements(ids) /\ c.op \in {"render", "template"} BY <1>d, <2>1
  <2> HIDE DEF ids, i, fault
  <2>4. fault \in AboutIds /\ ids[i] \in watch[p] =>
          TenantOf[ids[i]] # tenant \/ KindOf[ids[i]] # "assets"
    BY <1>a, <2>2, LiveIdsFound
  <2> QED BY <1>2, <2>1, <2>3, <2>4 DEF TakenForWhatItIs, ids
<1>7. CASE Fetch(p)
  <2> DEFINE ids == AssetsOf(c)  i == work[p].at  fault == Lookup(tenant, "assets", ids[i])
  <2>1. pc[p] = "fetch" /\ (Refuse(p, fault, ids[i]) \/ \E kind, k : ReadFails(p, kind, k))
    <3>1. pc[p] = "fetch" /\ \/ Refuse(p, fault, ids[i])
                             \/ \E kind, k : ReadFails(p, kind, k)
                             \/ pc'[p] \in {"fetch", "assemble", "validate"}
      BY <1>7, <1>a DEF Fetch, Goto, AfterAssets
    <3> QED BY <1>c, <3>1
  <2>3. ids[i] \in Elements(ids) /\ c.op \in {"render", "template"} BY <1>d, <2>1
  <2> HIDE DEF ids, i
  <2>4. fault \in AboutIds /\ ids[i] \in watch[p] =>
          TenantOf[ids[i]] # tenant \/ KindOf[ids[i]] # "assets"
    BY <1>a, LiveIdsFound
  <2> HIDE DEF fault
  <2>5. fault \in AboutIds /\ ids[i] \in watch[p] =>
          TenantOf[ids[i]] # tenant \/ ~TakenForWhatItIs(c, ids[i])
    BY <2>3, <2>4 DEF TakenForWhatItIs, ids
  <2>6. CASE Refuse(p, fault, ids[i]) BY <1>2, <2>5, <2>6
  <2> QED BY <1>3, <2>1, <2>6
<1>8. CASE Assemble(p)
  <2> DEFINE r == c.request
  <2>1. pc[p] = "assemble"
        /\ \/ \E f : Refuse(p, f, NoKey)
           \/ \E kind, k : ReadFails(p, kind, k)
           \/ /\ r.template # NoKey
              /\ \E f : /\ f = TemplateFault(tenant, r.template) \/ f \notin AboutIds
                        /\ Refuse(p, f, r.template)
           \/ pc'[p] = "compile"
    BY <1>8, <1>a, ReasonsOfChecks DEF Assemble, ToCompile, Goto
  <2>2. c.op = "render" BY <1>b, <2>1 DEF PlacesOf, Operations
  <2>3. ASSUME NEW f, f = TemplateFault(tenant, r.template) \/ f \notin AboutIds,
               Refuse(p, f, r.template), r.template # NoKey
        PROVE  Justified(p, answer'[p], c)
    <3>1. f \in AboutIds /\ r.template \in watch[p] =>
            TenantOf[r.template] # tenant \/ KindOf[r.template] # "tpl"
      BY <1>a, <2>3, LiveIdsFound
    <3> QED BY <1>2, <2>2, <2>3, <3>1 DEF TakenForWhatItIs
  <2>4. ASSUME NEW f, Refuse(p, f, NoKey) PROVE Justified(p, answer'[p], c)
    BY <1>2, <1>a, <2>4
  <2> QED BY <1>3, <1>c, <2>1, <2>3, <2>4
<1>e. ASSUME NEW f, Refuse(p, f, NoKey) PROVE Justified(p, answer'[p], c)
  BY <1>2, <1>a, <1>e
<1>9. CASE Validate(p)
  <2>1. (\E f : Refuse(p, f, NoKey)) \/ pc'[p] \in {"store", "compile"}
    BY <1>9, <1>a DEF Validate, ToCompile, Goto
  <2> QED BY <1>c, <1>e, <2>1
<1>10. CASE WorkerFails(p) BY <1>e, <1>10 DEF WorkerFails
<1>f. pc[p] \in {"compile", "store", "preview"} => c.op \notin {"list", "assets"}
  BY <1>b DEF PlacesOf, Operations
<1>11. CASE DocumentFails(p)
  <2>1. PICK d : Reply(p, [NoAnswer EXCEPT !.status = "422", !.diag = d])
    BY <1>11 DEF DocumentFails
  <2>2. answer'[p] = [NoAnswer EXCEPT !.status = "422", !.diag = d] BY <2>1, ReplyEnds
  <2>3. answer'[p].status = "422" BY <2>2 DEF NoAnswer
  <2> QED BY <2>3 DEF Justified
<1>12. CASE Compiles(p)
  <2>1. pc[p] = "compile"
        /\ \/ \E f : /\ f \notin AboutIds /\ Answer(p, StatusOf(f), NoKey)
           \/ Answer(p, "200", NoKey)
           \/ pc'[p] = "store"
    BY <1>12, <1>a DEF Compiles, Goto, PagesFault, AboutIds
  <2>2. ASSUME NEW f, f \notin AboutIds, Answer(p, StatusOf(f), NoKey)
        PROVE  Justified(p, answer'[p], c)
    <3>1. StatusOf(f) \notin {"404", "410"} BY <2>2, RefusalsAboutIds
    <3> QED BY <1>4, <1>f, <2>1, <2>2, <3>1
  <2> QED BY <1>4, <1>c, <1>f, <2>1, <2>2
<1>13. CASE Store(p)
  <2>1. pc[p] = "store"
        /\ \/ \E f : Refuse(p, f, NoKey)
           \/ \E k : Answer(p, "200", k)
           \/ pc'[p] = "preview"
    BY <1>13, <1>a DEF Store, Put, Goto
  <2> QED BY <1>4, <1>c, <1>e, <1>f, <2>1
<1>14. CASE Preview(p)
  <2>1. pc[p] = "preview"
        /\ \/ \E f : Refuse(p, f, NoKey)
           \/ \E k : Answer(p, "200", k)
           \/ pc' = pc
    BY <1>14 DEF Preview, PreviewRefused
  <2> QED BY <1>4, <1>c, <1>e, <1>f, <2>1
<1>15. ASSUME List(p) PROVE FALSE BY <1>15, <1>a, <1>c DEF List, Goto
<1>g. ASSUME NEW ids, Listing(p, ids), Due(p, c) \subseteq ids
               \/ (c.op = "assets" /\ Cardinality(ids) = c.limit)
      PROVE  Justified(p, answer'[p], c)
  <2>1. answer'[p] = [NoAnswer EXCEPT !.status = "200", !.listed = ids]
    BY <1>g, ReplyEnds DEF Listing
  <2>2. answer'[p].status = "200" /\ answer'[p].listed = ids BY <2>1 DEF NoAnswer
  <2> QED BY <1>g, <2>2 DEF Justified
<1>16. CASE Reading(p)
  <2>1. pc[p] = "reading"
        /\ \/ work[p].ids = {} /\ Listing(p, work[p].listed)
           \/ \E kind, k : ReadFails(p, kind, k)
           \/ \E k \in work[p].ids : Refuse(p, TemplateFault(tenant, k), k)
           \/ pc' = pc
    BY <1>16 DEF Reading
  <2>2. c.op = "list" BY <1>b, <2>1 DEF PlacesOf, Operations
  <2>3. ASSUME work[p].ids = {}, Listing(p, work[p].listed)
        PROVE  Justified(p, answer'[p], c)
    <3>1. CASE c.stored
      <4>1. {k \in watch[p] : TenantOf[k] = tenant /\ KindOf[k] = "tpl"} \subseteq work[p].listed
        BY <2>1, <2>3, <3>1 DEF Listings
      <4>2. Due(p, c) = {k \in {l \in watch[p] \cap LiveIds' : TenantOf[l] = tenant} :
                           KindOf[k] = "tpl"}
        BY <2>2, <3>1 DEF Due
      <4> QED BY <1>g, <2>3, <4>1, <4>2
    <3>2. CASE ~c.stored
      <4>1. Due(p, c) = {} BY <2>2, <3>2 DEF Due
      <4> QED BY <1>g, <2>3, <4>1
    <3> QED BY <3>1, <3>2
  <2>4. ASSUME NEW k \in work[p].ids, Refuse(p, TemplateFault(tenant, k), k)
        PROVE  Justified(p, answer'[p], c)
    <3>1. KindOf[k] = "tpl" BY <1>a, <2>1, <2>4 DEF Holds, Reads
    <3>2. TemplateFault(tenant, k) \in AboutIds /\ k \in watch[p] => TenantOf[k] # tenant
      BY <1>a, <3>1, LiveIdsFound
    <3> QED BY <1>2, <2>4, <3>2
  <2> QED BY <1>3, <1>b, <1>c, <2>1, <2>3, <2>4
<1>17. CASE Assets(p)
  <2> DEFINE all == ListedAssets(c)
  <2>1. PICK shown \in SUBSET all :
          Cardinality(shown) = Min({c.limit, Cardinality(all)}) /\ Listing(p, shown)
    BY <1>17 DEF Assets
  <2>2. pc[p] = "assets" /\ NoStore BY <1>17 DEF Assets
  <2>3. c.op = "assets" BY <1>b, <2>2 DEF PlacesOf, Operations
  <2>4. c.limit \in Nat BY <1>b, <2>3 DEF IsCall
  <2>5. IsFiniteSet(all)
    <3>1. all \subseteq Stored BY DEF ListedAssets
    <3> QED BY <3>1, FS_Subset DEF Contents
  <2>6. shown = all \/ Cardinality(shown) = c.limit
    <3> HIDE DEF all
    <3> QED BY <2>1, <2>4, <2>5, ListsAll
  <2>7. Due(p, c) \subseteq all
    <3>1. Due(p, c) = {k \in {l \in watch[p] \cap LiveIds' : TenantOf[l] = tenant} :
                         KindOf[k] = "assets" /\ blob[k].role \in c.roles}
      BY <2>3 DEF Due
    <3>2. \A k \in LiveIds : TenantOf[k] = tenant /\ KindOf[k] = "assets" =>
            k \in Stored /\ Lookup(tenant, "assets", k) = "ok"
      BY SameStore DEF LiveIds, Lookup
    <3> QED BY <1>a, <3>1, <3>2 DEF ListedAssets
  <2> QED BY <1>g, <2>1, <2>3, <2>6, <2>7
<1>18. CASE Schema(p)
  <2>1. pc[p] = "schema"
        /\ \/ \E kind, k : ReadFails(p, kind, k)
           \/ Refuse(p, TemplateFault(tenant, c.key), c.key)
           \/ Answer(p, "200", c.key)
    BY <1>18 DEF Schema
  <2>2. c.op = "schema" BY <1>b, <2>1 DEF PlacesOf, Operations
  <2>3. TemplateFault(tenant, c.key) \in AboutIds /\ c.key \in watch[p] =>
          TenantOf[c.key] # tenant \/ ~TakenForWhatItIs(c, c.key)
    BY <1>a, <2>2, LiveIdsFound DEF TakenForWhatItIs
  <2>4. CASE Refuse(p, TemplateFault(tenant, c.key), c.key) BY <1>2, <2>3, <2>4
  <2> QED BY <1>3, <1>4, <2>1, <2>2, <2>4
<1>19. CASE Link(p)
  <2>1. pc[p] = "link"
        /\ \/ Refuse(p, Lookup(tenant, "out", c.key), c.key)
           \/ Answer(p, "200", c.key)
    BY <1>19 DEF Link
  <2>2. c.op = "link" BY <1>b, <2>1 DEF PlacesOf, Operations
  <2>3. Lookup(tenant, "out", c.key) \in AboutIds /\ c.key \in watch[p] =>
          TenantOf[c.key] # tenant \/ ~TakenForWhatItIs(c, c.key)
    BY <1>a, <2>2, LiveIdsFound DEF TakenForWhatItIs
  <2>4. CASE Refuse(p, Lookup(tenant, "out", c.key), c.key) BY <1>2, <2>3, <2>4
  <2> QED BY <1>4, <2>1, <2>2, <2>4
<1>20. CASE Delete(p)
  <2>1. pc[p] = "delete"
        /\ \/ Refuse(p, "baked", NoKey)
           \/ Refuse(p, Lookup(tenant, "tpl", c.key), c.key)
           \/ pc'[p] = "removing"
    BY <1>20, <1>a DEF Delete, Goto
  <2>2. c.op = "delete" BY <1>b, <2>1 DEF PlacesOf, Operations
  <2>3. Lookup(tenant, "tpl", c.key) \in AboutIds /\ c.key \in watch[p] =>
          TenantOf[c.key] # tenant \/ ~TakenForWhatItIs(c, c.key)
    BY <1>a, <2>2, LiveIdsFound DEF TakenForWhatItIs
  <2>4. CASE Refuse(p, Lookup(tenant, "tpl", c.key), c.key) BY <1>2, <2>3, <2>4
  <2> QED BY <1>c, <1>e, <2>1, <2>4
<1>21. CASE Removing(p)
  <2>1. pc[p] = "removing" /\ Answer(p, "204", c.key) BY <1>21 DEF Removing
  <2>2. c.op = "delete" BY <1>b, <2>1 DEF PlacesOf, Operations
  <2> QED BY <1>4, <2>1, <2>2
<1> QED BY <1>5, <1>6, <1>7, <1>8, <1>9, <1>10, <1>11, <1>12, <1>13, <1>14, <1>15, <1>16,
           <1>17, <1>18, <1>19, <1>20, <1>21 DEF HandlerStep

(* Nobody is told of an object of theirs that it is not found or has       *)
(* expired, nor shown a list without it, if it was live all the time the   *)
(* request took, whatever the others, the reaper and evictions did.        *)
THEOREM RefusalsAreJustified == Spec => RefusalsJustified
<1>1. FullInv /\ (Next \/ UNCHANGED vars) =>
        (\A p \in Handlers : Answered(p) => Justified(p, answer'[p], call[p]))
          \/ UNCHANGED vars
  <2> SUFFICES ASSUME FullInv, Next, NEW p \in Handlers, Answered(p)
               PROVE  Justified(p, answer'[p], call[p])
    OBVIOUS
  <2>1. ~StoreStep BY StoreMovesNobody DEF Answered
  <2>2. PICK q \in Handlers : HandlerStep(q) BY <2>1, Steps
  <2>3. q = p BY <2>2, OthersUnmoved DEF Answered, Frame, FullInv, IInv
  <2> QED BY <2>2, <2>3, AnswersJustified
<1> QED BY <1>1, FullInvariance, PTL DEF Spec, RefusalsJustified
-----------------------------------------------------------------------------
(* The size of what is stored, and the store as ObjectStore has it.        *)

(* Padding adds less than a block, and headers are three blocks at most.   *)
LEMMA BlocksBounded ==
  /\ \A n \in Nat : Padded(n) \in Nat /\ n <= Padded(n) /\ Padded(n) <= n + BlockBytes - 1
  /\ \A path : HeaderBytes(path) \in Nat /\ BlockBytes <= HeaderBytes(path)
               /\ HeaderBytes(path) <= 3 * BlockBytes
<1>1. BlockBytes \in Nat \ {0} BY OverheadAssumption
<1>2. ASSUME NEW n \in Nat
      PROVE  Padded(n) \in Nat /\ n <= Padded(n) /\ Padded(n) <= n + BlockBytes - 1
  <2> DEFINE a == n + BlockBytes - 1  q == a \div BlockBytes  r == a % BlockBytes
  <2>1. a \in Nat BY <1>1
  <2>2. /\ q \in Nat /\ r \in Nat /\ r < BlockBytes /\ a = BlockBytes * q + r
    <3> HIDE DEF a
    <3> QED BY <1>1, <2>1
  <2>3. Padded(n) = q * BlockBytes BY DEF Padded
  <2> HIDE DEF q, r
  <2>4. q * BlockBytes \in Nat /\ q * BlockBytes = BlockBytes * q BY <1>1, <2>2
  <2> QED BY <1>1, <2>2, <2>3, <2>4
<1>3. ASSUME NEW path
      PROVE  HeaderBytes(path) \in Nat /\ BlockBytes <= HeaderBytes(path)
             /\ HeaderBytes(path) <= 3 * BlockBytes
  BY <1>1 DEF HeaderBytes
<1> QED BY <1>2, <1>3

(* What an archive has over its files is bounded by their number.          *)
LEMMA ArchivesBounded ==
  ASSUME NEW members, IsList(members), \A m \in Elements(members) : m.bytes \in Nat
  PROVE  /\ MembersBytes(members) \in Nat /\ TotalBytes(members) \in Nat
         /\ MembersBytes(members) <=
              TotalBytes(members) + (4 * BlockBytes - 1) * Len(members)
<1> DEFINE w == InArchive(members)  D == DOMAIN members  c == 4 * BlockBytes - 1
<1>1. members \in Seq(Elements(members)) BY DEF IsList
<1>2. D = 1..Len(members) /\ Len(members) \in Nat BY <1>1
<1>3. IsFiniteSet(D) /\ Cardinality(D) = Len(members)
  <2>1. \A n \in Nat : IsFiniteSet(1..n) /\ Cardinality(1..n) = n BY FS_Interval
  <2> QED BY <1>2, <2>1
<1>4. c \in Nat /\ BlockBytes \in Nat \ {0} BY OverheadAssumption
<1>5. ASSUME NEW i \in D
      PROVE  /\ members[i].bytes \in Nat
             /\ w[i].bytes = HeaderBytes(members[i].path) + Padded(members[i].bytes)
             /\ w[i].bytes \in Nat /\ w[i].bytes <= members[i].bytes + c
  <2>1. members[i].bytes \in Nat BY DEF Elements
  <2>2. w[i].bytes = HeaderBytes(members[i].path) + Padded(members[i].bytes) BY DEF InArchive
  <2> HIDE DEF w
  <2>3. /\ HeaderBytes(members[i].path) \in Nat /\ Padded(members[i].bytes) \in Nat
        /\ HeaderBytes(members[i].path) <= 3 * BlockBytes
        /\ Padded(members[i].bytes) <= members[i].bytes + BlockBytes - 1
    BY <2>1, BlocksBounded
  <2> QED BY <1>4, <2>1, <2>2, <2>3
<1>6. DOMAIN w = D BY DEF InArchive
<1>7. MembersBytes(members) = BytesIn(w, D) /\ TotalBytes(members) = BytesIn(members, D)
  BY <1>6 DEF MembersBytes, TotalBytes, BytesIn
<1> HIDE DEF w, D, c
<1>8. BytesIn(w, D) \in Nat /\ BytesIn(members, D) \in Nat BY <1>3, <1>5, SumType
<1>9. BytesIn(w, D) <= BytesIn(members, D) + c * Cardinality(D)
  BY <1>3, <1>4, <1>5, SumOverhead
<1> QED BY <1>3, <1>7, <1>8, <1>9 DEF c

(* What was accepted takes a natural number of bytes.                      *)
LEMMA TemplatesSized ==
  ASSUME NEW files, IsFiles(files)
  PROVE  LET members == ToArchive(FromSourceFiles(files)) IN
         /\ IsList(members) /\ \A m \in Elements(members) : m.bytes \in Nat
         /\ ArchiveBytes(members) \in Nat
<1> DEFINE t == FromSourceFiles(files)  members == ToArchive(t)
<1>1. SourceFiles(t) = Elements(files) /\ IsFiniteSet(Elements(files))
  BY SourceFilesOf, ElementsFinite DEF IsFiles
<1> HIDE DEF t
<1>2. IsList(members) /\ Elements(members) = {Member(f) : f \in Elements(files)}
  BY <1>1, ArchiveHolds
<1>3. \A f \in Elements(files) : Member(f).bytes \in Nat BY DEF Member, IsFiles, IsFile
<1> HIDE DEF members
<1>4. \A m \in Elements(members) : m.bytes \in Nat BY <1>2, <1>3
<1>5. MembersBytes(members) \in Nat BY <1>2, <1>4, ArchivesBounded
<1>6. BlockBytes \in Nat BY OverheadAssumption
<1>7. ArchiveBytes(members) \in Nat BY <1>5, <1>6 DEF ArchiveBytes
<1> QED BY <1>2, <1>4, <1>7 DEF members, t

(* What a handler stores has a natural size,                               *)
LEMMA PayloadsSized ==
  ASSUME FullInv, NEW p \in Handlers, pc[p] = "store"
  PROVE  PayloadBytes(p) \in Nat
<1>1. call[p] \in Calls[p] /\ FirstFault(call[p]) = "ok" /\ "store" \in PlacesOf(call[p].op)
  BY DEF FullInv, IInv, AllHandled, Handled
<1>2. call[p].op \in {"render", "template", "asset"} /\ IsCall(call[p])
  BY <1>1, OperationsKnown, CallsAssumption DEF Operations, PlacesOf
<1>3. CASE call[p].op = "render" BY <1>3, BoundsAssumption DEF PayloadBytes
<1>4. CASE call[p].op = "asset" BY <1>2, <1>4 DEF PayloadBytes, IsCall, IsFile
<1>5. CASE call[p].op = "template"
  <2>1. PICK files : Accepted(files) /\ work[p].template = FromSourceFiles(files)
    BY <1>5 DEF FullInv, Contents, Holds, Uploads
  <2>2. ArchiveBytes(ToArchive(work[p].template)) \in Nat BY <2>1, TemplatesSized DEF Accepted
  <2> QED BY <1>5, <2>2 DEF PayloadBytes
<1> QED BY <1>2, <1>3, <1>4, <1>5

(* Every object has a size.                                                *)
Sized == \A k \in Stored : objects[k].bytes \in Nat
(* so every step leaves only objects of natural size,                      *)
LEMMA SizesKept ==
  ASSUME FullInv, Sized, Next
  PROVE  Sized'
<1> USE DEF FullInv, IInv
<1>1. CASE StoreStep BY <1>1, StoreSpares DEF Sized, Spared
<1>2. ASSUME NEW p \in Handlers, HandlerStep(p) PROVE Sized'
  <2>1. CASE NoStore BY <2>1 DEF NoStore, storeVars, Sized, Stored
  <2>2. CASE Dooms(p) BY <2>2 DEF Dooms, Sized, Stored
  <2>3. CASE Removing(p)
    BY <2>3 DEF Removing, Drop, ObjectsStore!Remaining, ObjectsStore!Stored, Sized, Stored
  <2>4. ASSUME NEW k, NEW s \in Nat, objects' = ObjectsStore!Grown(k, s) PROVE Sized'
    <3>1. /\ Stored' = Stored \cup {k} /\ \A l \in Stored : l # k => objects'[l] = objects[l]
          /\ objects'[k].bytes = s + (IF k \in Stored THEN objects[k].bytes ELSE 0)
      BY <2>4 DEF ObjectsStore!Grown, ObjectsStore!Stored, Stored
    <3> QED BY <3>1 DEF Sized
  <2>5. CASE Puts(p) BY <2>4, <2>5, PayloadsSized DEF Puts, Put
  <2>6. CASE Adds(p) BY <2>4, <2>6, BoundsAssumption DEF Adds
  <2> QED BY <1>2, <2>1, <2>2, <2>3, <2>5, <2>6, HandlersTouch
<1> QED BY <1>1, <1>2, Steps

(* and this always holds.                                                  *)
LEMMA SizedInvariance == Spec => [](FullInv /\ Sized)
<1>1. Init => Sized BY DEF Init, ObjectsStore!Init, Sized, Stored
<1>2. FullInv /\ Sized /\ (Next \/ UNCHANGED vars) => Sized'
  <2> SUFFICES ASSUME FullInv, Sized, Next \/ UNCHANGED vars PROVE Sized' OBVIOUS
  <2>1. CASE Next BY <2>1, SizesKept
  <2>2. CASE UNCHANGED vars BY <2>2 DEF vars, storeVars, Sized, Stored
  <2> QED BY <2>1, <2>2
<1> QED BY <1>1, <1>2, FullInvariance, PTL DEF Spec

(* What there is room for is one of the sizes ObjectStore speaks of, if    *)
(* these are all that a tenant has room for.                               *)
LEMMA RoomIsSized ==
  ASSUME FullInv, Sized, MaxTenantBytes \in Nat, 0..MaxTenantBytes \subseteq Sizes,
         NEW k, NEW s \in Nat, ObjectsStore!HasRoom(k, s)
  PROVE  s \in Sizes
<1> DEFINE S == ObjectsStore!OwnedBy(TenantOf[k])
<1>1. S \subseteq Stored BY DEF ObjectsStore!OwnedBy, ObjectsStore!Stored, Stored
<1>2. IsFiniteSet(S) BY <1>1, FS_Subset DEF FullInv, Contents
<1>3. \A l \in S : objects[l].bytes \in Nat BY <1>1 DEF Sized
<1>4. ObjectsStore!BytesOf(S) = BytesIn(objects, S)
  BY DEF ObjectsStore!BytesOf, BytesIn, MapThenSumSet, MapThenFoldSet,
         ObjectsStore!MapThenSumSet, ObjectsStore!MapThenFoldSet
<1>5. ObjectsStore!BytesOf(S) + s <= MaxTenantBytes BY DEF ObjectsStore!HasRoom
<1> HIDE DEF S
<1>6. BytesIn(objects, S) \in Nat BY <1>2, <1>3, SumType
<1> QED BY <1>4, <1>5, <1>6

(* Handlers, reaper and evictions use the store only in the ways           *)
(* ObjectStore allows, which Store is proved to implement: what one module *)
(* assumes of the store is what the other shows.                           *)
THEOREM StoreUsedAsPromised ==
  ASSUME MaxTenantBytes \in Nat, 0..MaxTenantBytes \subseteq Sizes
  PROVE  Spec => UsesStoreAsPromised
<1>1. FullInv /\ Sized /\ (Next \/ UNCHANGED vars) =>
        ObjectsStore!Next \/ UNCHANGED storeVars
  <2> SUFFICES ASSUME FullInv, Sized, Next PROVE ObjectsStore!Next \/ UNCHANGED storeVars
    BY DEF vars
  <2> USE DEF FullInv, IInv
  <2>1. ASSUME NEW k \in Keys, ObjectsStore!Commit(k) PROVE ObjectsStore!Next
    BY <2>1 DEF ObjectsStore!Next
  <2>2. ASSUME NEW k \in Keys, ObjectsStore!Remove(k) PROVE ObjectsStore!Next
    BY <2>2 DEF ObjectsStore!Next
  <2>3. ASSUME NEW S \in SUBSET Stored, ObjectsStore!Doom(S) PROVE ObjectsStore!Next
    <3>1. S \in SUBSET Keys BY DEF TypeOK
    <3> QED BY <2>3, <3>1 DEF ObjectsStore!Next
  <2>4. CASE StoreStep
    <3>1. CASE \E k \in Keys : Evict(k) BY <3>1 DEF Evict, ObjectsStore!Next
    <3>2. CASE \E k \in Keys : Reaped(k)
      <4>1. PICK k \in Keys : Reaped(k) BY <3>2
      <4>2. ObjectsStore!Remove(k)
        BY <4>1 DEF Reaped, Drop, ObjectsStore!Remove, ObjectsStore!FaultsUnchanged
      <4> QED BY <2>2, <4>2
    <3>3. CASE Reap
      <4> DEFINE S == {k \in Stored : ObjectsStore!Expired(k)}
      <4>1. ObjectsStore!Doom(S) /\ S \in SUBSET Stored BY <3>3 DEF Reap
      <4> HIDE DEF S
      <4> QED BY <2>3, <4>1
    <3>4. CASE Tick BY <3>4 DEF Tick, ObjectsStore!Next
    <3> QED BY <2>4, <3>1, <3>2, <3>3, <3>4 DEF StoreStep
  <2>5. ASSUME NEW p \in Handlers, HandlerStep(p)
        PROVE  ObjectsStore!Next \/ UNCHANGED storeVars
    <3>1. CASE NoStore BY <3>1 DEF NoStore
    <3>2. CASE Puts(p)
      <4>1. PICK k \in Keys \ minted : ObjectsStore!HasRoom(k, PayloadBytes(p)) /\ Put(p, k)
        BY <3>2 DEF Puts
      <4>2. PayloadBytes(p) \in Nat BY <3>2, PayloadsSized DEF Puts
      <4>3. PayloadBytes(p) \in Sizes BY <4>1, <4>2, RoomIsSized
      <4>4. ObjectsStore!Commit(k)
        BY <4>1, <4>3 DEF ObjectsStore!Commit, Put, ObjectsStore!FaultsUnchanged
      <4> QED BY <2>1, <4>4
    <3>3. CASE Adds(p)
      <4> DEFINE k == work[p].doc
      <4>1. /\ ObjectsStore!HasRoom(k, PreviewBytes) /\ k \in minted /\ k \in Keys
            /\ objects' = ObjectsStore!Grown(k, PreviewBytes)
            /\ UNCHANGED <<doomed, minted, now>>
        BY <3>3 DEF Adds, PreviewFits, Documents, Removals
      <4> HIDE DEF k
      <4>2. PreviewBytes \in Sizes BY <4>1, RoomIsSized, BoundsAssumption
      <4>3. ObjectsStore!Commit(k)
        BY <4>1, <4>2 DEF ObjectsStore!Commit, ObjectsStore!FaultsUnchanged
      <4> QED BY <2>1, <4>1, <4>3
    <3>4. CASE Dooms(p)
      <4> DEFINE k == call[p].key
      <4>1. /\ k \in Stored /\ KindOf[k] = "tpl" /\ ObjectsStore!IsLive(k)
            /\ doomed' = doomed \cup {k} /\ UNCHANGED <<objects, minted, now>>
        BY <3>4, SameStore DEF Dooms, Lookup
      <4> HIDE DEF k
      <4>2. ObjectsStore!Doom({k})
        BY <4>1, SameStore DEF ObjectsStore!Doom, ObjectsStore!FaultsUnchanged
      <4> QED BY <2>3, <4>1, <4>2
    <3>5. CASE Removing(p)
      <4>1. call[p].key \in doomed /\ call[p].key \in Keys BY <3>5 DEF Removing, Removals
      <4>2. ObjectsStore!Remove(call[p].key)
        BY <3>5, <4>1 DEF Removing, Drop, ObjectsStore!Remove, ObjectsStore!FaultsUnchanged
      <4> QED BY <2>2, <4>1, <4>2
    <3> QED BY <2>5, <3>1, <3>2, <3>3, <3>4, <3>5, HandlersTouch
  <2> QED BY <2>4, <2>5, Steps
<1> QED BY <1>1, SizedInvariance, PTL DEF Spec, UsesStoreAsPromised
-----------------------------------------------------------------------------
(* Accepted templates read back.                                           *)

(* A list without repetition has the bytes of its elements.                *)
LEMMA ListsWeigh ==
  ASSUME NEW s, IsList(s), \A x \in Elements(s) : x.bytes \in Nat,
         \A i, j \in DOMAIN s : s[i] = s[j] => i = j
  PROVE  TotalBytes(s) = BytesIn([x \in Elements(s) |-> x], Elements(s))
<1> DEFINE v == [x \in Elements(s) |-> x]  D == DOMAIN s
<1>1. s \in Seq(Elements(s)) BY DEF IsList
<1>2. IsFiniteSet(D) BY <1>1, FS_Interval
<1>3. \A i \in D : s[i] \in Elements(s) BY DEF Elements
<1>4. \A i \in D : s[i].bytes \in Nat /\ s[i].bytes = v[s[i]].bytes BY <1>3
<1>5. Renamed(s, D) = Elements(s) BY DEF Renamed, Elements
<1>6. TotalBytes(s) = BytesIn(s, D) BY DEF TotalBytes, BytesIn
<1>7. \A i, j \in D : s[i] = s[j] => i = j OBVIOUS
<1> HIDE DEF v, D
<1>8. BytesIn(s, D) = BytesIn(v, Renamed(s, D)) BY <1>2, <1>4, <1>7, SumRenamed
<1> QED BY <1>5, <1>6, <1>8 DEF v

(* The part of a list before a place is a list, within its bytes.          *)
LEMMA PartsWeigh ==
  ASSUME NEW s, IsList(s), \A x \in Elements(s) : x.bytes \in Nat, NEW i \in DOMAIN s
  PROVE  LET before == SubSeq(s, 1, i - 1) IN
         /\ IsList(before) /\ Len(before) = i - 1 /\ i \in Nat
         /\ \A x \in Elements(before) : x.bytes \in Nat
         /\ TotalBytes(before) + s[i].bytes <= TotalBytes(s)
<1> DEFINE before == SubSeq(s, 1, i - 1)  D == DOMAIN s  B == 1..(i - 1)
<1>1. s \in Seq(Elements(s)) BY DEF IsList
<1>2. D = 1..Len(s) /\ Len(s) \in Nat /\ i \in Nat /\ 1 <= i /\ i <= Len(s) BY <1>1
<1>3. before \in Seq(Elements(s)) /\ Len(before) = i - 1 /\ DOMAIN before = B
      /\ \A j \in B : before[j] = s[j]
  BY <1>1, <1>2
<1> HIDE DEF before
<1>4. IsList(before) /\ Elements(before) \subseteq Elements(s)
  <2>1. \A j \in B : before[j] \in Elements(before) BY <1>3 DEF Elements
  <2>2. before \in Seq(Elements(before)) BY <1>2, <1>3, <2>1
  <2>3. B \subseteq D BY <1>2
  <2> QED BY <1>3, <2>2, <2>3 DEF IsList, Elements
<1>5. IsFiniteSet(D) BY <1>2, FS_Interval
<1>6. B = (1..i) \ {i} /\ i \in 1..i /\ 1..i \subseteq D BY <1>2
<1>7. \A j \in D : s[j].bytes \in Nat BY DEF Elements
<1> HIDE DEF D
<1>8. IsFiniteSet(1..i) /\ IsFiniteSet(B) /\ B \subseteq D BY <1>5, <1>6, FS_Subset
<1>9. BytesIn(s, 1..i) = s[i].bytes + BytesIn(s, B) BY <1>6, <1>7, <1>8, SumRemove
<1>10. BytesIn(s, 1..i) <= BytesIn(s, D) BY <1>5, <1>6, <1>7, SumSubset
<1>11. BytesIn(before, B) = BytesIn(s, B) BY <1>3, <1>8, SumSame
<1>12. BytesIn(s, B) \in Nat /\ BytesIn(s, 1..i) \in Nat /\ BytesIn(s, D) \in Nat
       /\ s[i].bytes \in Nat
  BY <1>5, <1>6, <1>7, <1>8, SumType
<1>13. TotalBytes(before) = BytesIn(before, B) /\ TotalBytes(s) = BytesIn(s, D)
  BY <1>3 DEF TotalBytes, BytesIn, D
<1>14. \A x \in Elements(before) : x.bytes \in Nat BY <1>4
<1> QED BY <1>2, <1>3, <1>4, <1>9, <1>10, <1>11, <1>12, <1>13, <1>14 DEF before

(* The files of a template, and the same as they come out of its archive,  *)
(* are in the same places with the same contents.                          *)
LEMMA SameFiles ==
  ASSUME NEW X, \A f, g \in X : f.path = g.path => f = g, NEW path
  PROVE  LET Y == {ReadBack(f) : f \in X} IN
         /\ HasFile(Y, path) <=> HasFile(X, path)
         /\ ContentAt(Y, path) = ContentAt(X, path)
<1> DEFINE Y == {ReadBack(f) : f \in X}
<1>1. \A f : ReadBack(f).path = f.path /\ ReadBack(f).content = f.content BY DEF ReadBack
<1>2. HasFile(Y, path) <=> HasFile(X, path) BY <1>1 DEF HasFile
<1>3. CASE HasFile(X, path)
  <2>1. PICK f \in X : f.path = path BY <1>3 DEF HasFile
  <2>2. (CHOOSE g \in X : g.path = path) = f BY <2>1
  <2>3. PICK g \in Y : g = (CHOOSE h \in Y : h.path = path) /\ g.path = path
    BY <1>2, <1>3 DEF HasFile
  <2>4. g.content = f.content BY <1>1, <2>1, <2>3
  <2> QED BY <1>2, <1>3, <2>2, <2>3, <2>4 DEF ContentAt
<1>4. CASE ~HasFile(X, path) BY <1>2, <1>4 DEF ContentAt
<1> QED BY <1>2, <1>3, <1>4

(* Whether files make a template is decided by their paths and what is in  *)
(* the metadata.                                                           *)
LEMMA SameVerdict ==
  ASSUME NEW manifest, NEW A, NEW B, NEW X, NEW Y,
         \A path : HasFile(A, path) <=> HasFile(B, path),
         \A path : ContentAt(X, path) = ContentAt(Y, path)
  PROVE  AssembleFault(manifest, A, X) = AssembleFault(manifest, B, Y)
<1>1. (\E f \in A : IsReserved(f.path)) <=> \E f \in B : IsReserved(f.path) BY DEF HasFile
<1>2. (\E f \in A : PathFault(f.path) # "ok") <=> \E f \in B : PathFault(f.path) # "ok"
  BY DEF HasFile
<1>3. HasFile(A, manifest.entrypoint) <=> HasFile(B, manifest.entrypoint) OBVIOUS
<1>4. /\ ContentAt(X, <<"schema.json">>) = ContentAt(Y, <<"schema.json">>)
      /\ ContentAt(X, <<"fixture.json">>) = ContentAt(Y, <<"fixture.json">>)
  OBVIOUS
<1> QED BY ONLY <1>1, <1>2, <1>3, <1>4, Zenon DEF AssembleFault

(* What makes files a template, without the order of the checks.           *)
LEMMA AcceptedFiles ==
  ASSUME NEW files, IsFiles(files)
  PROVE  SourceFault(files, MaxBundleBytes) = "ok" <=>
           LET t == Built(Elements(files)) IN
           /\ Sound(ManifestPath, files, MaxBundleBytes) /\ \A f \in t.meta : f.text
           /\ AssembleFault(t.manifest, t.files, t.meta) = "ok"
<1>1. SourceFault(files, MaxBundleBytes) =
        LET t == Built(Elements(files)) IN
        IF BundleFault(ManifestPath, files, MaxBundleBytes) # "ok" THEN
               BundleFault(ManifestPath, files, MaxBundleBytes)
        ELSE IF \E f \in t.meta : ~f.text THEN "non_text_metadata"
        ELSE AssembleFault(t.manifest, t.files, t.meta)
  BY DEF SourceFault
<1> QED BY <1>1, BundlesSound
(* What an accepted template is stored as: as many members as files, with  *)
(* their paths and all their bytes.                                        *)
LEMMA StoredAs ==
  ASSUME NEW files, Accepted(files)
  PROVE  LET members == ToArchive(FromSourceFiles(files))
             d == Decoded(members)  S == Elements(files) IN
         /\ Sound(ManifestPath, files, MaxBundleBytes)
         /\ \A f, g \in S : f.path = g.path => f = g
         /\ IsList(members) /\ Elements(members) = {Member(f) : f \in S}
         /\ IsFiles(d) /\ Elements(d) = {ReadBack(f) : f \in S}
         /\ DOMAIN d = DOMAIN members /\ Len(members) = Len(d) /\ Len(members) <= MaxFiles
         /\ Len(members) \in Nat /\ MaxFiles \in Nat
         /\ \A i, j \in DOMAIN d : d[i].path = d[j].path => i = j
         /\ TotalBytes(members) <= MaxBundleBytes /\ TotalBytes(d) = TotalBytes(members)
<1> DEFINE t == FromSourceFiles(files)  members == ToArchive(t)  d == Decoded(members)
           S == Elements(files)  l == Listed(S)
<1>1. IsFiles(files) /\ IsList(files) /\ Sound(ManifestPath, files, MaxBundleBytes)
  BY AcceptedFiles DEF Accepted, IsFiles
<1>2. \A i, j \in DOMAIN files : files[i].path = files[j].path => i = j BY <1>1, PathsDiffer
<1>3. \A f, g \in S : f.path = g.path => f = g BY <1>2 DEF Elements
<1>4. SourceFiles(t) = S /\ IsFiniteSet(S) /\ Cardinality(S) <= Len(files)
  BY <1>1, SourceFilesOf, ElementsFinite
<1>5. Cardinality(S) \in Nat /\ Len(files) \in Nat
  <2>1. files \in Seq(Elements(files)) BY <1>1 DEF IsList
  <2> QED BY <1>4, <2>1, FS_CardinalityType
<1>6. MaxFiles \in Nat /\ Len(files) <= MaxFiles BY <1>1, <1>5, MaxFilesAssumption DEF Sound
<1> HIDE DEF t
<1>7. /\ IsList(l) /\ Elements(l) = S /\ DOMAIN members = DOMAIN l
      /\ IsList(members) /\ IsList(d)
      /\ Len(members) = Cardinality(S) /\ Len(d) = Cardinality(S)
      /\ \A i \in DOMAIN members : members[i] = Member(l[i]) /\ d[i] = ReadBack(l[i])
      /\ Elements(members) = {Member(f) : f \in S} /\ Elements(d) = {ReadBack(f) : f \in S}
  BY <1>4, ArchiveHolds
<1>8. \A i, j \in DOMAIN l : l[i] = l[j] => i = j BY <1>4, ListedRight
<1>9. DOMAIN d = DOMAIN members BY DEF Decoded
<1>10. \A f \in S : IsFile(f) /\ IsFile(ReadBack(f))
  BY <1>1 DEF IsFiles, IsFile, ReadBack, IsText
<1> HIDE DEF members, d, l
<1>11. \A i \in DOMAIN l : l[i] \in S /\ l[i].bytes \in Nat
  BY <1>7, <1>10 DEF Elements, IsFile
<1>12. \A i \in DOMAIN l : members[i].bytes = l[i].bytes /\ d[i].bytes = l[i].bytes
                           /\ d[i].path = l[i].path
  BY <1>7 DEF Member, ReadBack
<1>13. \A i, j \in DOMAIN d : d[i].path = d[j].path => i = j
  BY <1>3, <1>7, <1>8, <1>9, <1>11, <1>12
<1>14. TotalBytes(members) = TotalBytes(files) /\ TotalBytes(d) = TotalBytes(members)
  <2>1. \A x \in S : x.bytes \in Nat BY <1>10 DEF IsFile
  <2>2. TotalBytes(l) = TotalBytes(files)
    <3>1. TotalBytes(l) = BytesIn([x \in S |-> x], S) BY <1>7, <1>8, <2>1, ListsWeigh
    <3>2. \A i, j \in DOMAIN files : files[i] = files[j] => i = j BY <1>2
    <3>3. TotalBytes(files) = BytesIn([x \in S |-> x], S) BY <1>1, <2>1, <3>2, ListsWeigh
    <3> QED BY <3>1, <3>3
  <2>3. IsFiniteSet(DOMAIN l)
    <3>1. l \in Seq(Elements(l)) BY <1>7 DEF IsList
    <3> QED BY <3>1, FS_Interval
  <2>4. BytesIn(members, DOMAIN l) = BytesIn(l, DOMAIN l) BY <1>12, <2>3, SumSame
  <2>5. BytesIn(d, DOMAIN l) = BytesIn(l, DOMAIN l) BY <1>12, <2>3, SumSame
  <2>6. /\ TotalBytes(l) = BytesIn(l, DOMAIN l) /\ TotalBytes(d) = BytesIn(d, DOMAIN l)
        /\ TotalBytes(members) = BytesIn(members, DOMAIN l)
    BY <1>7, <1>9 DEF TotalBytes, BytesIn
  <2> QED BY <2>2, <2>4, <2>5, <2>6
<1>15. TotalBytes(files) <= MaxBundleBytes
  <2>1. \A x \in Elements(files) : x.bytes \in Nat BY <1>10 DEF IsFile
  <2>2. TotalBytes(files) \in Nat BY <1>1, <2>1, ArchivesBounded
  <2> QED BY <1>1, <2>2, BoundsAssumption DEF Sound
<1>16. IsFiles(d) BY <1>7, <1>10 DEF IsFiles
<1>17. Len(members) <= MaxFiles /\ Len(members) \in Nat BY <1>4, <1>5, <1>6, <1>7
<1> QED BY <1>1, <1>3, <1>6, <1>7, <1>9, <1>13, <1>14, <1>15, <1>16, <1>17 DEF members, d, t

(* The files of an accepted template are accepted as they come out of its  *)
(* archive: metadata is text again, and says the same.                     *)
LEMMA FilesAcceptedAgain ==
  ASSUME NEW files, Accepted(files)
  PROVE  SourceFault(Decoded(ToArchive(FromSourceFiles(files))), MaxBundleBytes) = "ok"
<1> DEFINE d == Decoded(ToArchive(FromSourceFiles(files)))  S == Elements(files)
           t == Built(S)  u == Built(Elements(d))
<1>1. /\ Sound(ManifestPath, files, MaxBundleBytes)
      /\ \A f, g \in S : f.path = g.path => f = g
      /\ IsFiles(d) /\ Elements(d) = {ReadBack(f) : f \in S} /\ Len(d) <= MaxFiles
      /\ Len(d) \in Nat /\ MaxFiles \in Nat
      /\ \A i, j \in DOMAIN d : d[i].path = d[j].path => i = j
      /\ TotalBytes(d) <= MaxBundleBytes
  BY StoredAs
<1>2. /\ IsFiles(files) /\ \A f \in t.meta : f.text
      /\ AssembleFault(t.manifest, t.files, t.meta) = "ok"
  BY AcceptedFiles DEF Accepted
<1> HIDE DEF d
<1> DEFINE metaS == {f \in S : f.path \in MetadataPaths}
           metaD == {f \in Elements(d) : f.path \in MetadataPaths}
<1>3. \A f : ReadBack(f).path = f.path /\ ReadBack(f).text = (f.utf8 /\ IsText(f.path))
  BY DEF ReadBack
<1>4. Sound(ManifestPath, d, MaxBundleBytes)
  <2>1. DOMAIN d = 1..Len(d)
    <3>1. d \in Seq(Elements(d)) BY <1>1 DEF IsFiles, IsList
    <3> QED BY <3>1
  <2>2. \A i \in DOMAIN d : \E f \in S : d[i].path = f.path BY <1>1, <1>3 DEF Elements
  <2>3. \A i \in DOMAIN d : PathFault(d[i].path) = "ok" BY <1>1, <2>2 DEF Sound, Elements
  <2>4. \A i \in DOMAIN d : \A j \in 1..(i - 1) : d[j].path # d[i].path
    BY <1>1, <2>1
  <2>5. ManifestPath \in PathsOf(d)
    <3>1. PICK f \in S : f.path = ManifestPath BY <1>1 DEF Sound, PathsOf, Elements
    <3>2. ReadBack(f) \in Elements(d) BY <1>1
    <3> QED BY <1>3, <3>1, <3>2 DEF PathsOf, Elements
  <2>6. ~(Len(d) > MaxFiles) BY <1>1
  <2>7. TotalBytes(d) \in Nat
    <3>1. \A f \in Elements(d) : f.bytes \in Nat BY <1>1 DEF IsFiles, IsFile
    <3> QED BY <1>1, <3>1, ArchivesBounded DEF IsFiles
  <2>8. ~(TotalBytes(d) > MaxBundleBytes) BY <1>1, <2>7, BoundsAssumption
  <2> QED BY <1>1, <2>3, <2>4, <2>5, <2>6, <2>8 DEF Sound
<1>5. /\ t.meta = metaS /\ t.files = S \ metaS /\ t.manifest = ContentAt(metaS, ManifestPath)
      /\ u.meta = metaD /\ u.files = Elements(d) \ metaD
      /\ u.manifest = ContentAt(metaD, ManifestPath)
  BY DEF Built
<1>6. metaD = {ReadBack(f) : f \in metaS} BY <1>1, <1>3
<1>7. Elements(d) \ metaD = {ReadBack(f) : f \in S \ metaS} BY <1>1, <1>3
<1>8. \A f \in metaS : f.text BY <1>2, <1>5
<1>9. AssembleFault(ContentAt(metaS, ManifestPath), S \ metaS, metaS) = "ok" BY <1>2, <1>5
<1> HIDE DEF t, u
<1>10. \A f \in metaD : f.text
  <2>1. \A f \in metaS : IsFile(f) /\ IsText(f.path)
    BY <1>2, TextAssumption DEF IsFiles, IsText, Last
  <2>2. \A f \in metaS : f.utf8 BY <1>8, <2>1 DEF IsFile
  <2> HIDE DEF metaS, metaD
  <2> QED BY <1>3, <1>6, <2>1, <2>2
<1>11. \A f, g \in metaS : f.path = g.path => f = g BY <1>1
<1>12. \A f, g \in S \ metaS : f.path = g.path => f = g BY <1>1
<1> HIDE DEF metaS, metaD
<1>13. \A path : ContentAt(metaD, path) = ContentAt(metaS, path) BY <1>6, <1>11, SameFiles
<1>14. \A path : HasFile(Elements(d) \ metaD, path) <=> HasFile(S \ metaS, path)
  BY <1>7, <1>12, SameFiles
<1>15. AssembleFault(ContentAt(metaD, ManifestPath), Elements(d) \ metaD, metaD) = "ok"
  <2>1. AssembleFault(ContentAt(metaS, ManifestPath), Elements(d) \ metaD, metaD)
          = AssembleFault(ContentAt(metaS, ManifestPath), S \ metaS, metaS)
    BY <1>13, <1>14, SameVerdict
  <2> QED BY <1>9, <1>13, <2>1
<1>16. SourceFault(d, MaxBundleBytes) = "ok"
  BY <1>1, <1>4, <1>5, <1>10, <1>15, AcceptedFiles DEF u
<1> QED BY <1>16 DEF d

(* Nothing stops the reading of an accepted template's archive: what the   *)
(* format adds to its files is within the overhead allowed.                *)
LEMMA ArchivesRead ==
  ASSUME NEW files, Accepted(files)
  PROVE  LET members == ToArchive(FromSourceFiles(files)) IN
         /\ \A i \in DOMAIN members : MemberFault(members, i, MaxBundleBytes) = "ok"
         /\ ~(MembersBytes(members) + BlockBytes > MaxBundleBytes + OverheadBytes)
<1> DEFINE members == ToArchive(FromSourceFiles(files))  S == Elements(files)
           B == BlockBytes  c == 4 * B - 1  M == MaxBundleBytes
<1>1. /\ Sound(ManifestPath, files, MaxBundleBytes)
      /\ IsList(members) /\ Elements(members) = {Member(f) : f \in S}
      /\ Len(members) <= MaxFiles /\ Len(members) \in Nat /\ MaxFiles \in Nat
      /\ TotalBytes(members) <= M
  BY StoredAs
<1>2. \A f \in S : IsFile(f) /\ PathFault(f.path) = "ok"
  BY <1>1 DEF Accepted, IsFiles, Sound, Elements
<1>3. \A f \in S : /\ Member(f).bytes = f.bytes /\ Member(f).path = f.path
                   /\ Member(f).regular = TRUE
  BY DEF Member
<1> HIDE DEF members
<1>4. \A m \in Elements(members) : m.bytes \in Nat /\ PathFault(m.path) = "ok" /\ m.regular
  <2>1. \A f \in S : Member(f).bytes \in Nat BY <1>2, <1>3 DEF IsFile
  <2> QED BY <1>1, <1>2, <1>3, <2>1
<1>5. M \in Nat /\ B \in Nat \ {0} /\ c \in Nat /\ OverheadBytes \in Int
      /\ OverheadBytes >= MaxFiles * c + 2 * B
  BY OverheadAssumption, BoundsAssumption
<1>6. \A a, b \in Nat : a <= b => c * a \in Nat /\ c * b \in Nat /\ c * a <= c * b
  <2> HIDE DEF c
  <2> SUFFICES ASSUME NEW a \in Nat, NEW b \in Nat, a <= b
               PROVE  c * a \in Nat /\ c * b \in Nat /\ c * a <= c * b
    OBVIOUS
  <2>1. b - a \in Nat /\ b = a + (b - a) OBVIOUS
  <2>2. c * (b - a) \in Nat /\ c * b = c * a + c * (b - a) BY <1>5, <2>1
  <2>3. c * a \in Nat BY <1>5
  <2> QED BY <2>2, <2>3
<1>7. MaxFiles * c = c * MaxFiles BY <1>1, <1>5
<1>8. ASSUME NEW i \in DOMAIN members PROVE MemberFault(members, i, M) = "ok"
  <2> DEFINE before == SubSeq(members, 1, i - 1)  m == members[i]
  <2>1. /\ IsList(before) /\ Len(before) = i - 1 /\ i \in Nat
        /\ (\A x \in Elements(before) : x.bytes \in Nat)
        /\ TotalBytes(before) + m.bytes <= TotalBytes(members)
    BY <1>1, <1>4, PartsWeigh
  <2>2. i >= 1 /\ i <= Len(members) /\ m \in Elements(members)
    <3>1. members \in Seq(Elements(members)) BY <1>1 DEF IsList
    <3> QED BY <3>1 DEF Elements
  <2>3. m.bytes \in Nat /\ PathFault(m.path) = "ok" /\ m.regular BY <1>4, <2>2
  <2> HIDE DEF before
  <2>4. /\ MembersBytes(before) \in Nat /\ TotalBytes(before) \in Nat
        /\ MembersBytes(before) <= TotalBytes(before) + c * (i - 1)
    BY <2>1, ArchivesBounded
  <2>5. HeaderBytes(m.path) \in Nat /\ HeaderBytes(m.path) <= 3 * B BY BlocksBounded
  <2>6. TotalBytes(members) \in Nat BY <1>1, <1>4, ArchivesBounded
  <2>7. /\ i - 1 \in Nat /\ MaxFiles - 1 \in Nat /\ i - 1 <= MaxFiles - 1
        /\ c * MaxFiles = c * (MaxFiles - 1) + c
    BY <1>1, <1>5, <2>1, <2>2
  <2>8. c * (i - 1) \in Nat /\ c * (MaxFiles - 1) \in Nat /\ c * (i - 1) <= c * (MaxFiles - 1)
    BY <1>6, <2>7
  <2>9. ~(MembersBytes(before) + HeaderBytes(m.path) > M + OverheadBytes)
    <3>1. MembersBytes(before) + HeaderBytes(m.path) <= M + c * (MaxFiles - 1) + 3 * B
      <4>1. TotalBytes(before) <= M
        <5> DEFINE a == TotalBytes(before)  b == m.bytes  whole == TotalBytes(members)
        <5>1. a + b <= whole BY <2>1
        <5>2. whole <= M BY <1>1
        <5>3. a \in Nat /\ b \in Nat /\ whole \in Nat /\ M \in Nat BY <1>5, <2>3, <2>4, <2>6
        <5> HIDE DEF a, b, whole, M
        <5>4. a <= M BY ONLY <5>1, <5>2, <5>3
        <5> QED BY <5>4 DEF a
      <4> HIDE DEF c, m
      <4> QED BY <1>5, <2>4, <2>5, <2>8, <4>1
    <3>2. c * (MaxFiles - 1) + 3 * B <= OverheadBytes
      <4>1. OverheadBytes >= c * (MaxFiles - 1) + c + 2 * B BY <1>5, <1>7, <2>7
      <4>2. c + 2 * B >= 3 * B BY <1>5
      <4> HIDE DEF c
      <4> QED BY <1>5, <2>8, <4>1, <4>2
    <3> HIDE DEF c
    <3> QED BY <1>5, <2>4, <2>5, <2>8, <3>1, <3>2
  <2>10. ~(TotalBytes(before) + m.bytes > M)
    <3> DEFINE a == TotalBytes(before)  b == m.bytes  whole == TotalBytes(members)
    <3>1. a + b <= whole BY <2>1
    <3>2. whole <= M BY <1>1
    <3>3. a \in Nat /\ b \in Nat /\ whole \in Nat /\ M \in Nat BY <1>5, <2>3, <2>4, <2>6
    <3> HIDE DEF a, b, whole, M
    <3>4. ~(a + b > M) BY ONLY <3>1, <3>2, <3>3
    <3> QED BY <3>4 DEF a, b
  <2>11. ~(i > MaxFiles) BY <1>1, <2>1, <2>2
  <2> QED BY <2>3, <2>9, <2>10, <2>11 DEF MemberFault, before
<1>9. ~(MembersBytes(members) + B > M + OverheadBytes)
  <2>1. /\ MembersBytes(members) \in Nat /\ TotalBytes(members) \in Nat
        /\ MembersBytes(members) <= TotalBytes(members) + c * Len(members)
    BY <1>1, <1>4, ArchivesBounded
  <2>2. c * Len(members) <= c * MaxFiles /\ c * Len(members) \in Nat /\ c * MaxFiles \in Nat
    BY <1>1, <1>6
  <2> HIDE DEF c
  <2> QED BY <1>1, <1>5, <1>7, <2>1, <2>2
<1> QED BY <1>8, <1>9 DEF members

(* A template that was accepted and stored can be read back from its       *)
(* archive, the same files and all (templates.rs to_archive and            *)
(* from_archive), whatever sizes, names and blocks there are.              *)
THEOREM TemplatesReadBack == Spec => []AcceptedTemplatesReadBack
<1>1. ASSUME NEW files, Accepted(files)
      PROVE  LET members == ToArchive(FromSourceFiles(files)) IN
             /\ ArchiveFault(members, MaxBundleBytes) = "ok"
             /\ Elements(ToArchive(FromArchive(members))) = Elements(members)
  <2> DEFINE members == ToArchive(FromSourceFiles(files))  d == Decoded(members)
             S == Elements(files)
  <2>1. ArchiveFault(members, MaxBundleBytes) = "ok"
    <3>1. \A i \in DOMAIN members : MemberFault(members, i, MaxBundleBytes) = "ok"
      BY <1>1, ArchivesRead
    <3>2. ~(MembersBytes(members) + BlockBytes > MaxBundleBytes + OverheadBytes)
      BY <1>1, ArchivesRead
    <3>3. SourceFault(d, MaxBundleBytes) = "ok" BY <1>1, FilesAcceptedAgain
    <3> DEFINE stops == {i \in DOMAIN members : MemberFault(members, i, MaxBundleBytes) # "ok"}
    <3>4. stops = {} BY <3>1
    <3>5. ArchiveFault(members, MaxBundleBytes) =
            IF stops # {} THEN MemberFault(members, Min(stops), MaxBundleBytes)
            ELSE IF MembersBytes(members) + BlockBytes > MaxBundleBytes + OverheadBytes
            THEN "bad_archive" ELSE SourceFault(d, MaxBundleBytes)
      BY DEF ArchiveFault
    <3> HIDE DEF stops, members, d
    <3> QED BY <3>2, <3>3, <3>4, <3>5
  <2>2. /\ IsFiles(d) /\ Elements(d) = {ReadBack(f) : f \in S}
        /\ Elements(members) = {Member(f) : f \in S}
    BY <1>1, StoredAs
  <2>3. FromArchive(members) = FromSourceFiles(d) BY DEF FromArchive
  <2> HIDE DEF members, d
  <2>4. SourceFiles(FromSourceFiles(d)) = Elements(d) /\ IsFiniteSet(Elements(d))
    BY <2>2, SourceFilesOf, ElementsFinite DEF IsFiles
  <2>5. Elements(ToArchive(FromSourceFiles(d))) = {Member(g) : g \in Elements(d)}
    BY <2>4, ArchiveHolds
  <2>6. \A f : Member(ReadBack(f)) = Member(f)
    <3>1. \A f : /\ ReadBack(f).path = f.path /\ ReadBack(f).bytes = f.bytes
                 /\ ReadBack(f).utf8 = f.utf8 /\ ReadBack(f).content = f.content
      BY DEF ReadBack
    <3> QED BY <3>1 DEF Member
  <2>7. {Member(g) : g \in Elements(d)} = {Member(f) : f \in S}
    <3>1. {Member(g) : g \in {ReadBack(f) : f \in S}} = {Member(ReadBack(f)) : f \in S}
      OBVIOUS
    <3> QED BY <2>2, <2>6, <3>1
  <2> QED BY <2>1, <2>2, <2>3, <2>5, <2>7 DEF members
<1>2. FullInv => AcceptedTemplatesReadBack
  BY <1>1 DEF FullInv, Contents, Blobs, AcceptedTemplatesReadBack
<1> QED BY <1>2, FullInvariance, PTL

=============================================================================
