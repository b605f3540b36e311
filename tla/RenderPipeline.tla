--------------------------- MODULE RenderPipeline ---------------------------
(***************************************************************************)
(* What happens between a request and its answer: RenderService            *)
(* (src/src/render.rs) at the calls the handlers of Requests make of it.   *)
(* Documents are assembled from the caller's files, templates and assets,  *)
(* compiled, and stored with their previews.                               *)
(*                                                                         *)
(* The store is that of ObjectStore, which Store implements; compiling is  *)
(* one step with every outcome CompileService and the worker may give it.  *)
(* Each look at the store is a step, so that other handlers, the reaper    *)
(* and evictions come in between.                                          *)
(***************************************************************************)
EXTENDS Requests

CONSTANTS
  Handlers,
  Calls,            \* what each handler may be asked
  Baked,            \* the directories of the templates in the image
  MaxPages, MaxLines, \* bounds on pages of a document and lines of a file
  DocumentBytes, PreviewBytes,
  Keys, Tenants, TenantOf, KindOf, Sizes, Ttl,
  MaxTenantBytes, MaxStoreBytes, MaxTenantEntries, MaxStoreEntries, MaxTime

VARIABLES
  objects, doomed, minted, now,  \* the store, as in ObjectStore
  blob,             \* what is stored under each minted id
  pc, call, work,   \* each handler: where it is, what it was asked, its locals
  answer,           \* and what it answers, in the step that does
  watch             \* ids live ever since its request began (history)

(* No removal fails here and nothing restarts: what faults of the storage  *)
(* leave behind is the subject of Store.  A put may fail, as if refused.   *)
ObjectsStore == INSTANCE ObjectStore WITH leftovers <- {}, faults <- 0, opening <- FALSE
storeVars == <<objects, doomed, minted, now>>
handlerVars == <<pc, call, work, answer>>
vars == <<storeVars, blob, handlerVars, watch>>

Stored == DOMAIN objects
LiveIds == {k \in Stored : ObjectsStore!IsLive(k)} \ doomed
BakedTemplates == LoadSet(Baked)

(* Files and calls are what these say they are.  Only the server writes    *)
(* main files; a file is text only if it decodes as such.                  *)
IsList(s) == s \in Seq(Elements(s))
IsPath(path) == IsList(path) /\ path # <<>>
IsFile(f) ==
  /\ {"path", "bytes", "utf8", "text", "content"} \subseteq DOMAIN f
  /\ IsPath(f.path) /\ f.bytes \in Nat
  /\ f.text \in BOOLEAN /\ f.utf8 \in BOOLEAN /\ (f.text => f.utf8)
  /\ f.content.what # "main" /\ (f.content.what = "body" => f.content.bytes \in Nat)
  /\ f.path = <<"fixture.body.typ">> => f.content.what = "body"
IsFiles(files) == IsList(files) /\ \A f \in Elements(files) : IsFile(f)
IsCall(c) ==
  \/ c.op = "refused" /\ c.fault \notin {"ok", "not_found", "expired", "unknown_template"}
  \/ /\ c.op = "render" /\ IsList(c.request.assets) /\ IsList(PagesOf(c.request))
     /\ IsFiles(c.request.source) /\ IsFiles(c.request.files) /\ IsFiles(c.request.overrides)
     /\ c.request.body.what = "absent" \/ c.request.body.bytes \in Nat
  \/ c.op = "template" /\ IsList(c.assets) /\ IsFiles(c.files)
  \/ c.op = "asset" /\ IsFile(c.file)
  \/ c.op = "assets" /\ c.limit \in Nat
  \/ c.op \in {"list", "schema", "link", "delete"}
ASSUME CallsAssumption == \A p \in Handlers : \A c \in Calls[p] : IsCall(c)
ASSUME BakedAssumption ==
  /\ SetFaults(Baked) = {}
  /\ \A dir \in Baked : IsFiniteSet(dir) /\ \A f \in dir : IsFile(f)
ASSUME BoundsAssumption ==
  /\ NoKey \notin Keys
  /\ {MaxBundleBytes, DocumentBytes, PreviewBytes, MaxPages, MaxLines} \subseteq Nat

NoWork == [at |-> 1, assets |-> <<>>, template |-> Absent, files |-> <<>>,
           main |-> ManifestPath, doc |-> NoKey, pages |-> <<>>, ids |-> {},
           listed |-> {}]
NoDiagnostic == [file |-> <<>>, line |-> 0]
NoCall == [op |-> "none"]
NoAnswer == [status |-> "none", key |-> NoKey, diag |-> NoDiagnostic, listed |-> {}]
NoAnswers == [p \in Handlers |-> NoAnswer]
Quiet == answer' = NoAnswers

Init ==
  /\ ObjectsStore!Init /\ blob = [k \in {} |-> 0]
  /\ pc = [p \in Handlers |-> "idle"]
  /\ call = [p \in Handlers |-> NoCall]
  /\ work = [p \in Handlers |-> NoWork]
  /\ answer = NoAnswers
  /\ watch = [p \in Handlers |-> {}]

-----------------------------------------------------------------------------
(* Looking things up.                                                      *)

(* A variant in which an entry's last second has already run out.          *)
LookupEarly(t, kind, k) ==
  IF k \notin Stored \/ TenantOf[k] # t \/ KindOf[k] # kind THEN "not_found"
  ELSE IF objects[k].expires <= now + 1 THEN "expired"
  ELSE "ok"
(* get and entry: an id of another tenant or kind is not found.            *)
Lookup(t, kind, k) ==
  IF k \notin Stored \/ TenantOf[k] # t \/ KindOf[k] # kind THEN "not_found"
  ELSE IF ObjectsStore!Expired(k) THEN "expired"
  ELSE "ok"

Goto(p, to) == pc' = [pc EXCEPT ![p] = to]
Reply(p, a) ==
  /\ Goto(p, "idle") /\ answer' = [NoAnswers EXCEPT ![p] = a]
  /\ work' = [work EXCEPT ![p] = NoWork] /\ call' = [call EXCEPT ![p] = NoCall]
Answer(p, status, k) == Reply(p, [NoAnswer EXCEPT !.status = status, !.key = k])
Listing(p, ids) == Reply(p, [NoAnswer EXCEPT !.status = "200", !.listed = ids])
NoStore == UNCHANGED <<storeVars, blob>>

(* How errors are classified: the From impls of ApiError.                  *)
StatusOf(fault) ==
  CASE fault \in {"ambiguous", "empty", "overrides_without_template", "invalid_path",
                  "bad_output", "bad_kind"} -> "400"
    [] fault = "baked" -> "403"
    [] fault \in {"not_found", "unknown_template"} -> "404"
    [] fault = "expired" -> "410"
    [] fault \in {"too_many_files", "too_large"} -> "413"
    [] fault \in {"quota"} -> "507"
    [] fault = "timeout" -> "504"
    [] fault = "overloaded" -> "503"
    [] fault \in {"worker", "store_io"} -> "500"
    [] OTHER -> "422"
Refuse(p, fault, k) == Answer(p, StatusOf(fault), k) /\ NoStore
(* get of an id that was live when it was checked: the file behind it may  *)
(* be on its way out, or the disk refuses.                                 *)
ReadFails(p, kind, k) ==
  /\ k \in Stored /\ TenantOf[k] = call[p].tenant /\ KindOf[k] = kind
  /\ \/ k \in doomed /\ Refuse(p, "not_found", k)
     \/ Refuse(p, "store_io", k)

-----------------------------------------------------------------------------
(* Beginning.                                                              *)

(* assemble, before it touches the store.                                  *)
ShapeFault(r) ==
  LET inline == r.source # <<>> \/ r.files # <<>> IN
  IF r.template # NoKey /\ inline THEN "ambiguous"
  ELSE IF r.template = NoKey /\ ~inline THEN "empty"
  ELSE IF r.template = NoKey /\ r.overrides # <<>> THEN "overrides_without_template"
  ELSE "ok"

FirstFault(c) ==
  CASE c.op = "refused" -> c.fault [] c.op = "render" -> ShapeFault(c.request) [] OTHER -> "ok"
AssetsOf(c) == IF c.op = "render" THEN c.request.assets ELSE c.assets
AfterAssets(c) == IF c.op = "render" THEN "assemble" ELSE "validate"
FirstStep(c) ==
  CASE c.op \in {"render", "template"} ->
         IF AssetsOf(c) = <<>> THEN AfterAssets(c) ELSE "preflight"
    [] c.op = "asset" -> "store"
    [] OTHER -> c.op

Begin(p) ==
  /\ pc[p] = "idle"
  /\ \E c \in Calls[p] :
       IF FirstFault(c) # "ok" THEN Refuse(p, FirstFault(c), NoKey)
       ELSE /\ call' = [call EXCEPT ![p] = c] /\ Goto(p, FirstStep(c))
            /\ Quiet /\ UNCHANGED <<work, storeVars, blob>>

-----------------------------------------------------------------------------
(* load_assets.                                                            *)

(* A variant that looks at each asset by itself, and allows repetition.    *)
PreflightFaultEach(t, ids, i, known) ==
  IF Len(ids) > MaxFiles THEN "too_many_files"
  ELSE IF Lookup(t, "assets", ids[i]) # "ok" THEN Lookup(t, "assets", ids[i])
  ELSE IF objects[ids[i]].bytes > MaxBundleBytes THEN "too_large"
  ELSE "ok"
(* The preflight by metadata: asset i, given that those before it passed.  *)
PreflightFault(t, ids, i, known) ==
  IF Len(ids) > MaxFiles THEN "too_many_files"
  ELSE IF \E j \in 1..(i - 1) : ids[j] = ids[i] THEN "duplicate_asset"
  ELSE IF Lookup(t, "assets", ids[i]) # "ok" THEN Lookup(t, "assets", ids[i])
  ELSE IF known + objects[ids[i]].bytes > MaxBundleBytes THEN "too_large"
  ELSE "ok"

Preflight(p) ==
  LET c == call[p]  ids == AssetsOf(c)  i == work[p].at
      known == TotalBytes(work[p].assets)
      fault == PreflightFault(c.tenant, ids, i, known)
  IN
  /\ pc[p] = "preflight"
  /\ IF fault # "ok" THEN Refuse(p, fault, ids[i])
     ELSE /\ IF i = Len(ids) THEN Goto(p, "fetch") /\ work' = [work EXCEPT ![p] = NoWork]
             ELSE UNCHANGED pc
                  /\ work' = [work EXCEPT ![p].at = i + 1,
                        ![p].assets = Append(@, [bytes |-> objects[ids[i]].bytes])]
          /\ NoStore /\ Quiet /\ UNCHANGED call

(* The reads that follow: an asset that has expired or gone by now fails   *)
(* the request, and so does a file that cannot be read.                    *)
Fetch(p) ==
  LET c == call[p]  ids == AssetsOf(c)  i == work[p].at  k == ids[i] IN
  /\ pc[p] = "fetch"
  /\ \/ /\ Lookup(c.tenant, "assets", k) # "ok"
        /\ Refuse(p, Lookup(c.tenant, "assets", k), k)
     \/ ReadFails(p, "assets", k)
     \/ /\ Lookup(c.tenant, "assets", k) = "ok"
        /\ work' = [work EXCEPT ![p].at = i + 1, ![p].assets = Append(@, blob[k])]
        /\ Goto(p, IF i = Len(ids) THEN AfterAssets(c) ELSE "fetch")
        /\ NoStore /\ Quiet /\ UNCHANGED call

-----------------------------------------------------------------------------
(* render: RenderService::template and the rest of assemble.               *)

(* What a reference to a template yields: baked names win, an id is read   *)
(* from the store, any other name is unknown.                              *)
TemplateFault(t, ref) ==
  IF ref \in DOMAIN BakedTemplates THEN "ok"
  ELSE IF ref \notin Keys THEN "unknown_template"
  ELSE IF Lookup(t, "tpl", ref) # "ok" THEN Lookup(t, "tpl", ref)
  ELSE ArchiveFault(blob[ref], MaxBundleBytes)
TemplateAt(ref) ==
  IF ref \in DOMAIN BakedTemplates THEN BakedTemplates[ref] ELSE FromArchive(blob[ref])

(* A body sent to a data template is ignored here.                         *)
BodyFor(r, t) == IF t.manifest.kind = "wrapper" THEN r.body ELSE Absent

InlineFiles(r, assets) ==
  assets \o r.source \o r.files
    \o (IF r.data = NoData THEN <<>> ELSE <<SourceFile(DataPath, 1, [what |-> "data"])>>)

ToCompile(p, files, main, t) ==
  /\ Goto(p, "compile")
  /\ work' = [work EXCEPT ![p].files = files, ![p].main = main, ![p].template = t]
  /\ NoStore /\ Quiet /\ UNCHANGED call

Assemble(p) ==
  LET tenant == call[p].tenant  r == call[p].request  assets == work[p].assets IN
  /\ pc[p] = "assemble"
  /\ IF r.template = NoKey
     THEN LET files == InlineFiles(r, assets)
              fault == BundleFault(r.main, files, MaxBundleBytes)
          IN IF fault # "ok" THEN Refuse(p, fault, NoKey) ELSE ToCompile(p, files, r.main, Absent)
     ELSE \/ ReadFails(p, "tpl", r.template)
          \/ LET found == TemplateFault(tenant, r.template) IN
             /\ found # "ok" /\ Refuse(p, found, r.template)
          \/ /\ TemplateFault(tenant, r.template) = "ok"
             /\ LET t == TemplateAt(r.template)
                    body == BodyFor(r, t)
                    fault == UseFault(t, r.data, body, assets, r.overrides, MaxBundleBytes)
                IN IF fault # "ok" THEN Refuse(p, fault, r.template)
                   ELSE ToCompile(p, AssembledFiles(t, r.data, body, assets, r.overrides),
                                  GeneratedMain, t)

-----------------------------------------------------------------------------
(* upload_template, up to its compile.                                     *)

HasFixture(t) == t.example.what # "absent" \/ t.body.what # "absent"
FixtureData(t) == IF t.example.what = "absent" THEN NoData ELSE t.example.data
FixtureBody(t) == IF t.manifest.kind = "wrapper" THEN t.body ELSE Absent

Validate(p) ==
  LET c == call[p]
      files == c.files \o work[p].assets
      t == FromSourceFiles(files)
      use == UseFault(t, FixtureData(t), FixtureBody(t), <<>>, <<>>, MaxBundleBytes)
  IN
  /\ pc[p] = "validate"
  /\ IF SourceFault(files, MaxBundleBytes) # "ok" THEN
            Refuse(p, SourceFault(files, MaxBundleBytes), NoKey)
     ELSE IF c.name \notin {<<>>, <<t.manifest.name>>} THEN Refuse(p, "name_mismatch", NoKey)
     ELSE IF ~HasFixture(t) THEN
            /\ Goto(p, "store") /\ work' = [work EXCEPT ![p].template = t]
            /\ NoStore /\ Quiet /\ UNCHANGED call
     ELSE IF use # "ok" THEN Refuse(p, use, NoKey)
     ELSE ToCompile(p, AssembledFiles(t, FixtureData(t), FixtureBody(t), <<>>, <<>>),
                    GeneratedMain, t)

-----------------------------------------------------------------------------
(* compile_bundle: every outcome of CompileService and of the worker.      *)

(* A diagnostic points into a file that was compiled.                      *)
LinesOf(f) == IF f.content.what = "body" THEN f.bytes ELSE MaxLines
HasBody(w) == w.template # Absent /\ w.template.manifest.kind = "wrapper"
CallersDiagnostic(w, d) == Mapped(d, HasBody(w))

WorkerFails(p) ==
  /\ pc[p] = "compile"
  /\ \E fault \in {"timeout", "overloaded", "worker"} : Refuse(p, fault, NoKey)
DocumentFails(p) ==
  /\ pc[p] = "compile"
  /\ \E i \in DOMAIN work[p].files : \E line \in 1..LinesOf(work[p].files[i]) :
       Reply(p, [NoAnswer EXCEPT !.status = "422", !.diag =
         CallersDiagnostic(work[p], [file |-> work[p].files[i].path, line |-> line])])
  /\ NoStore

(* A page that is not there fails the compile; one that is asked for twice *)
(* comes twice, and read_outputs refuses it.                               *)
PagesFault(wanted, pages) ==
  IF \E i \in DOMAIN wanted : wanted[i] \notin 1..pages THEN "no_such_page"
  ELSE IF Cardinality(Elements(wanted)) # Len(wanted) THEN "worker"
  ELSE "ok"
Compiles(p) ==
  LET c == call[p]  wanted == IF c.op = "render" THEN PagesOf(c.request) ELSE <<>> IN
  /\ pc[p] = "compile" /\ NoStore
  /\ \E pages \in 1..MaxPages :
       IF PagesFault(wanted, pages) # "ok"
       THEN Answer(p, StatusOf(PagesFault(wanted, pages)), NoKey)
       ELSE IF c.op = "render" /\ ~c.keep THEN Answer(p, "200", NoKey)
       ELSE /\ Goto(p, "store") /\ work' = [work EXCEPT ![p].pages = wanted]
            /\ Quiet /\ UNCHANGED call

-----------------------------------------------------------------------------
(* Storing: store_result, the end of upload_template, upload_asset.        *)

Payload(p) ==
  LET c == call[p] IN
  CASE c.op = "render" -> [document |-> TRUE, previews |-> {}]
    [] c.op = "template" -> ToArchive(work[p].template)
    [] OTHER -> c.file
PayloadBytes(p) ==
  LET c == call[p] IN
  CASE c.op = "render" -> DocumentBytes
    [] c.op = "template" -> ArchiveBytes(ToArchive(work[p].template))
    [] OTHER -> c.file.bytes
KindStored(c) ==
  CASE c.op = "render" -> "out" [] c.op = "template" -> "tpl" [] OTHER -> "assets"
Holding(k, payload) == [l \in DOMAIN blob \cup {k} |-> IF l = k THEN payload ELSE blob[l]]
(* put, under an id not seen before.                                       *)
Put(p, k) ==
  /\ objects' = ObjectsStore!Grown(k, PayloadBytes(p)) /\ minted' = minted \cup {k}
  /\ blob' = Holding(k, Payload(p)) /\ UNCHANGED <<doomed, now>>
  /\ IF work[p].pages = <<>> THEN Answer(p, "200", k)
     ELSE /\ Goto(p, "preview") /\ work' = [work EXCEPT ![p].doc = k, ![p].at = 1]
          /\ Quiet /\ UNCHANGED call
Store(p) ==
  LET c == call[p] IN
  /\ pc[p] = "store"
  /\ \/ Refuse(p, "store_io", NoKey)
     \/ \E k \in Keys \ minted :
          /\ TenantOf[k] = c.tenant /\ KindOf[k] = KindStored(c)
          /\ IF ObjectsStore!HasRoom(k, PayloadBytes(p)) THEN Put(p, k)
             ELSE Refuse(p, "quota", NoKey)

(* What a refused preview answers; the variant shrugs.                     *)
PreviewRefusedShrug(p) == Answer(p, "200", work[p].doc) /\ NoStore
PreviewRefused(p) == Refuse(p, "quota", NoKey)
(* A variant that asks for no room.                                        *)
PreviewFitsAlways(k) == TRUE
PreviewFits(k) == ObjectsStore!HasRoom(k, PreviewBytes)

(* put_with_id of one preview.  If the document is gone by now, the id     *)
(* comes back with the preview alone.                                      *)
Preview(p) ==
  LET k == work[p].doc  i == work[p].at  page == work[p].pages[i] IN
  /\ pc[p] = "preview"
  /\ \/ Refuse(p, "store_io", NoKey)
     \/ ~PreviewFits(k) /\ PreviewRefused(p)
     \/ /\ PreviewFits(k)
        /\ objects' = ObjectsStore!Grown(k, PreviewBytes) /\ UNCHANGED <<doomed, minted, now>>
        /\ blob' = IF k \in Stored THEN [blob EXCEPT ![k].previews = @ \cup {page}]
                   ELSE Holding(k, [document |-> FALSE, previews |-> {page}])
        /\ IF i = Len(work[p].pages) THEN Answer(p, "200", k)
           ELSE work' = [work EXCEPT ![p].at = i + 1] /\ Quiet /\ UNCHANGED <<pc, call>>

-----------------------------------------------------------------------------
(* The other operations.                                                   *)

(* list_templates and typst_templates: what the index lists is then read   *)
(* one by one, and one that has gone by then fails the whole listing.      *)
List(p) ==
  /\ pc[p] = "list" /\ Goto(p, "reading")
  /\ work' = [work EXCEPT ![p].ids =
       IF call[p].stored THEN {k \in Stored : Lookup(call[p].tenant, "tpl", k) = "ok"} ELSE {}]
  /\ NoStore /\ Quiet /\ UNCHANGED call
Reading(p) ==
  /\ pc[p] = "reading"
  /\ IF work[p].ids = {} THEN Listing(p, work[p].listed) /\ NoStore
     ELSE \E k \in work[p].ids :
            \/ ReadFails(p, "tpl", k)
            \/ /\ TemplateFault(call[p].tenant, k) # "ok"
               /\ Refuse(p, TemplateFault(call[p].tenant, k), k)
            \/ /\ TemplateFault(call[p].tenant, k) = "ok"
               /\ work' = [work EXCEPT ![p].ids = @ \ {k}, ![p].listed = @ \cup {k}]
               /\ NoStore /\ Quiet /\ UNCHANGED <<pc, call>>

(* list_assets and typst_assets: the newest of them, up to the limit.      *)
ListedAssets(c) ==
  {k \in Stored : Lookup(c.tenant, "assets", k) = "ok" /\ blob[k].role \in c.roles}
Assets(p) ==
  LET all == ListedAssets(call[p]) IN
  /\ pc[p] = "assets" /\ NoStore
  /\ \E shown \in SUBSET all :
       Cardinality(shown) = Min({call[p].limit, Cardinality(all)}) /\ Listing(p, shown)

(* get_template and typst_template_schema.                                 *)
Schema(p) ==
  LET c == call[p] IN
  /\ pc[p] = "schema"
  /\ \/ ReadFails(p, "tpl", c.key)
     \/ IF TemplateFault(c.tenant, c.key) # "ok"
        THEN Refuse(p, TemplateFault(c.tenant, c.key), c.key)
        ELSE Answer(p, "200", c.key) /\ NoStore

(* create_link and typst_link look at the index alone.                     *)
Link(p) ==
  LET c == call[p] IN
  /\ pc[p] = "link"
  /\ IF Lookup(c.tenant, "out", c.key) # "ok"
     THEN Refuse(p, Lookup(c.tenant, "out", c.key), c.key)
     ELSE Answer(p, "200", c.key) /\ NoStore

(* delete_template: a check, then remove, which ends later.                *)
Delete(p) ==
  LET c == call[p] IN
  /\ pc[p] = "delete"
  /\ CASE c.key \in DOMAIN BakedTemplates -> Refuse(p, "baked", NoKey)
       [] c.key \notin DOMAIN BakedTemplates /\ Lookup(c.tenant, "tpl", c.key) # "ok" ->
            Refuse(p, Lookup(c.tenant, "tpl", c.key), c.key)
       [] OTHER -> /\ doomed' = doomed \cup {c.key} /\ Goto(p, "removing")
                   /\ Quiet /\ UNCHANGED <<objects, minted, now, blob, call, work>>

(* A variant that forgets to let go of the payload.                        *)
WithoutEntryOnly(k) == blob
Without(k) == [l \in DOMAIN blob \ {k} |-> blob[l]]
Removers(k) == {p \in Handlers : pc[p] = "removing" /\ call[p].key = k}
Drop(k) ==
  /\ objects' = ObjectsStore!Remaining({k}) /\ blob' = Without(k) /\ UNCHANGED <<minted, now>>
Removing(p) ==
  LET k == call[p].key IN
  /\ pc[p] = "removing" /\ Drop(k)
  /\ doomed' = IF Removers(k) = {p} THEN doomed \ {k} ELSE doomed
  /\ Answer(p, "204", k)

-----------------------------------------------------------------------------
(* The store on its own: evict_locked, the reaper and the clock.           *)

Evict(k) == ObjectsStore!Evict(k) /\ blob' = Without(k) /\ Quiet /\ UNCHANGED <<pc, call, work>>
Reap ==
  LET S == {k \in Stored : ObjectsStore!Expired(k)} IN
  /\ ~(S \subseteq doomed)
  /\ ObjectsStore!Doom(S) /\ Quiet /\ UNCHANGED <<blob, pc, call, work>>
Reaped(k) ==
  /\ k \in doomed /\ Removers(k) = {} /\ Drop(k) /\ doomed' = doomed \ {k}
  /\ Quiet /\ UNCHANGED <<pc, call, work>>
Tick == ObjectsStore!Tick /\ Quiet /\ UNCHANGED <<blob, pc, call, work>>

(* The ids that stay live while a request runs; history, no code.          *)
Track == watch' = [p \in Handlers |-> LiveIds' \cap (IF pc[p] = "idle" THEN LiveIds' ELSE watch[p])]

Next ==
  \/ \E p \in Handlers :
       \/ Begin(p) /\ Track
       \/ Preflight(p) /\ Track
       \/ Fetch(p) /\ Track
       \/ Assemble(p) /\ Track
       \/ Validate(p) /\ Track
       \/ WorkerFails(p) /\ Track
       \/ DocumentFails(p) /\ Track
       \/ Compiles(p) /\ Track
       \/ Store(p) /\ Track
       \/ Preview(p) /\ Track
       \/ List(p) /\ Track
       \/ Reading(p) /\ Track
       \/ Assets(p) /\ Track
       \/ Schema(p) /\ Track
       \/ Link(p) /\ Track
       \/ Delete(p) /\ Track
       \/ Removing(p) /\ Track
  \/ \E k \in Keys : Evict(k) /\ Track
  \/ \E k \in Keys : Reaped(k) /\ Track
  \/ Reap /\ Track
  \/ Tick /\ Track

Spec == Init /\ [][Next]_vars

(* What the state is but for answer, which no action reads and no          *)
(* invariant mentions: states that differ in it alone are one to TLC.      *)
AllButAnswer == <<storeVars, blob, pc, call, work, watch>>

-----------------------------------------------------------------------------
(* Properties.                                                             *)

Places == {"idle", "preflight", "fetch", "assemble", "validate", "compile", "store",
           "preview", "list", "reading", "assets", "schema", "link", "delete", "removing"}
(* Types; what is stored under an id is kept exactly as long as its entry. *)
TypeOK ==
  /\ pc \in [Handlers -> Places] /\ DOMAIN call = Handlers
  /\ DOMAIN answer = Handlers /\ DOMAIN work = Handlers
  /\ Stored \subseteq Keys /\ DOMAIN blob = Stored /\ Stored \subseteq minted
  /\ watch \in [Handlers -> SUBSET Keys]

IsMappedTo(t, id) ==
  \E a \in DOMAIN t.manifest.args : \E v \in DOMAIN t.manifest.args[a].map :
    t.manifest.args[a].map[v] = id
(* Whatever reaches the compiler, put together from inline files, assets,  *)
(* a template, its overrides and generated files, is a bundle whose paths  *)
(* stay below its root, each file in a place of its own, within its limits *)
(* (render.rs assemble, templates.rs assemble_with_overrides); and no      *)
(* value of the caller's has become code: identifiers in the generated     *)
(* file are ones the template's author mapped to.                          *)
BundlesWellFormed ==
  \A p \in Handlers : pc[p] = "compile" =>
    /\ WellFormedBundle(work[p].main, work[p].files, MaxBundleBytes)
    /\ \A f \in {g \in Elements(work[p].files) : g.content.what = "main"} :
         \A id \in f.content.idents :
           id \in Identifiers /\ IsMappedTo(work[p].template, id)

(* No list of asset ids, repeated ones included, makes load_assets hold    *)
(* more bytes than one bundle may have.                                    *)
LoadedWithinBudget ==
  \A p \in Handlers : TotalBytes(work[p].assets) <= MaxBundleBytes

(* A template that upload_template accepted can be read back from the      *)
(* archive it is stored as, the same files and all, whatever overhead the  *)
(* archive format adds (templates.rs to_archive and from_archive).         *)
AcceptedTemplatesReadBack ==
  \A k \in {l \in Stored : KindOf[l] = "tpl"} :
    /\ ArchiveFault(blob[k], MaxBundleBytes) = "ok"
    /\ Elements(ToArchive(FromArchive(blob[k]))) = Elements(blob[k])

(* A compile error in the body is about the body the caller wrote, at a    *)
(* line it has: none is left at the generated file, or before its start    *)
(* when the error is in the prelude, and no other file is taken for it     *)
(* (SourceMap::apply, compile_bundle).                                     *)
Locates(d, w) ==
  /\ d.line >= 1
  /\ d.file = GeneratedBody => ~HasBody(w)
  /\ d.file = <<"body.typ">> /\ d.file \notin PathsOf(w.files) =>
       \E f \in Elements(w.files) :
         f.path = GeneratedBody /\ f.content.what = "body" /\ d.line <= Max({f.bytes - 1, 1})
DiagnosticsInCallersTerms ==
  [][\A p \in Handlers :
       answer'[p].diag # NoDiagnostic => Locates(answer'[p].diag, work[p])]_vars

Answered(p) == pc[p] # "idle" /\ pc'[p] = "idle"
(* What a listing must show: what was there all the time.                  *)
Due(p, c) ==
  LET there == {k \in watch[p] \cap LiveIds' : TenantOf[k] = c.tenant} IN
  CASE c.op = "list" /\ c.stored -> {k \in there : KindOf[k] = "tpl"}
    [] c.op = "assets" -> {k \in there : KindOf[k] = "assets" /\ blob[k].role \in c.roles}
    [] OTHER -> {}
(* What a request takes an id for is what it is an id of.                  *)
TakenForWhatItIs(c, k) ==
  /\ k \in Elements(IF c.op \in {"render", "template"} THEN AssetsOf(c) ELSE <<>>) =>
       KindOf[k] = "assets"
  /\ c.op \in {"schema", "delete"} \/ (c.op = "render" /\ c.request.template = k) =>
       KindOf[k] = "tpl"
  /\ c.op = "link" => KindOf[k] = "out"
(* No request is told that an object is not found or has expired if that   *)
(* object was the caller's, of the kind the request is about, and live all *)
(* the time the request took; and no listing leaves such an object out,    *)
(* unless it has reached its limit.                                        *)
Justified(p, a, c) ==
  /\ a.status \in {"404", "410"} /\ a.key \in watch[p] \cap LiveIds' =>
       TenantOf[a.key] # c.tenant \/ ~TakenForWhatItIs(c, a.key)
  /\ a.status = "200" =>
       \/ Due(p, c) \subseteq a.listed
       \/ c.op = "assets" /\ Cardinality(a.listed) = c.limit
RefusalsJustified ==
  [][\A p \in Handlers : Answered(p) => Justified(p, answer'[p], call[p])]_vars

(* A document whose id a caller is told has all the previews asked for, if *)
(* it is still there (store_result).                                       *)
Complete(k, pages) ==
  k \in DOMAIN blob' /\ blob'[k].document => blob'[k].previews = Elements(pages)
SuccessIsComplete ==
  [][\A p \in Handlers :
       Answered(p) /\ call[p].op = "render" /\ answer'[p].status = "200" =>
         Complete(answer'[p].key, PagesOf(call[p].request))]_vars

(* Handlers, reaper and evictions together use the store only as           *)
(* ObjectStore allows; Store is shown to implement it.                     *)
UsesStoreAsPromised == [][ObjectsStore!Next]_storeVars

(* What templates.rs:329-330 says of assemble_from: a template that was    *)
(* accepted is not broken at its first use.  It leaves room for the files  *)
(* the server adds, whatever the data is.                                  *)
AcceptedTemplatesRender ==
  \A k \in {l \in Stored : KindOf[l] = "tpl"} :
    LET t == FromArchive(blob[k])
        body == IF t.manifest.kind = "wrapper" THEN [what |-> "body", bytes |-> 0] ELSE Absent
    IN BundleFault(GeneratedMain, AssembledFiles(t, [f \in {} |-> 0], body, <<>>, <<>>),
                   MaxBundleBytes) = "ok"
=============================================================================
