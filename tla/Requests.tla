------------------------------ MODULE Requests ------------------------------
(***************************************************************************)
(* From what a client sends to what is done: the REST handlers of          *)
(* src/src/api.rs and the MCP tools of src/src/mcp.rs, as functions of a   *)
(* tenant and the arguments.  RenderPipeline carries out what they return. *)
(*                                                                         *)
(* An argument that may be left out is a sequence of at most one value.    *)
(* Requests that stop here are calls with op "refused"; audit records and  *)
(* the layout of answers are left out.                                     *)
(***************************************************************************)
EXTENDS Templates

CONSTANTS
  MaxBundleBytes,   \* Config.max_bundle_bytes
  MaxPreviews,      \* MAX_PREVIEW_PAGES of the MCP tools
  DefaultLimit, MaxLimit, \* of a listing of assets
  NoKey

NoData == [f \in {} |-> 0]
Sent(given, default) == IF given = <<>> THEN default ELSE Head(given)
RefusedCall(fault) == [op |-> "refused", fault |-> fault]

-----------------------------------------------------------------------------
(* Rendering.                                                              *)

(* RenderRequest, with what its fields are when they are left out.         *)
Unasked ==
  [template |-> NoKey, data |-> NoData, body |-> Absent, overrides |-> <<>>,
   source |-> <<>>, files |-> <<>>, main |-> <<"main.typ">>, assets |-> <<>>, pages |-> <<>>]
RenderCall(tenant, keep, request) ==
  [op |-> "render", tenant |-> tenant, keep |-> keep, request |-> request]

(* job_limits: no wish for previews is a wish for page one.                *)
PagesOf(request) == Sent(request.pages, <<1>>)
(* clamp_pages, on a list that was sent.                                   *)
ClampPages(pages) ==
  [i \in DOMAIN pages |-> SubSeq(pages[i], 1, Min({MaxPreviews, Len(pages[i])}))]

(* render of api.rs: a PDF asked for directly has no previews and is not   *)
(* kept.                                                                   *)
RestRender(tenant, request, output) ==
  CASE output \in {<<>>, <<"json">>} -> RenderCall(tenant, TRUE, request)
    [] output = <<"pdf">> -> RenderCall(tenant, FALSE, [request EXCEPT !.pages = <<<<>>>>])
    [] OTHER -> RefusedCall("bad_output")
TypstRender(tenant, args) ==
  RenderCall(tenant, TRUE,
    [Unasked EXCEPT !.template = args.template, !.data = args.data, !.body = args.body,
                    !.assets = args.assets, !.overrides = args.overrides,
                    !.pages = ClampPages(args.pages)])
TypstCompile(tenant, args) ==
  RenderCall(tenant, TRUE,
    [Unasked EXCEPT !.source = args.source, !.files = args.files, !.main = args.main,
                    !.data = args.data, !.assets = args.assets,
                    !.pages = ClampPages(args.pages)])

-----------------------------------------------------------------------------
(* Templates.                                                              *)

TemplateCall(tenant, name, files, assets) ==
  [op |-> "template", tenant |-> tenant, name |-> name, files |-> files, assets |-> assets]
(* upload_template of api.rs: an archive, decoded before anything else.    *)
RestUploadTemplate(tenant, archive) ==
  IF ArchiveFault(archive, MaxBundleBytes) # "ok"
  THEN RefusedCall(ArchiveFault(archive, MaxBundleBytes))
  ELSE TemplateCall(tenant, <<>>, Listed(SourceFiles(FromArchive(archive))), <<>>)
(* typst_upload_template: text files under a name, and uploaded assets.    *)
TypstUploadTemplate(tenant, args) ==
  TemplateCall(tenant, <<args.name>>, args.files, args.assets)
DeleteTemplate(tenant, id) == [op |-> "delete", tenant |-> tenant, key |-> id]

(* Stored templates are listed unless the caller wants none.               *)
ListCall(tenant, stored) == [op |-> "list", tenant |-> tenant, stored |-> stored]
ListTemplates(tenant, ephemeral) == ListCall(tenant, Sent(ephemeral, TRUE))
TypstTemplates(tenant, ephemeral) == ListCall(tenant, Sent(ephemeral, TRUE))
SchemaCall(tenant, name) == [op |-> "schema", tenant |-> tenant, key |-> name]
GetTemplate(tenant, name) == SchemaCall(tenant, name)
TypstTemplateSchema(tenant, name) == SchemaCall(tenant, name)

-----------------------------------------------------------------------------
(* Assets and links.                                                       *)

AssetRoles == {"image", "font", "data"}
(* parse_asset_role.                                                       *)
KnownRole(kind) == kind = <<>> \/ Head(kind) \in AssetRoles
(* infer_asset_role: by the name, then by the content type.                *)
InferAssetRole(path, type) ==
  IF Last(path) \in FontNames THEN "font" ELSE IF type = "image" THEN "image" ELSE "data"
UploadAsset(tenant, file, kind, type) ==
  IF file.bytes = 0 THEN RefusedCall("empty")
  ELSE IF PathFault(file.path) # "ok" THEN RefusedCall("invalid_path")
  ELSE IF ~KnownRole(kind) THEN RefusedCall("bad_kind")
  ELSE [op |-> "asset", tenant |-> tenant, file |->
                   [role |-> Sent(kind, InferAssetRole(file.path, type))] @@ file]

AssetsCall(tenant, kind, limit) ==
  IF ~KnownRole(kind) THEN RefusedCall("bad_kind")
  ELSE [op |-> "assets", tenant |-> tenant,
        roles |-> IF kind = <<>> THEN AssetRoles ELSE {Head(kind)},
        limit |-> Min({Sent(limit, DefaultLimit), MaxLimit})]
ListAssets(tenant, kind, limit) == AssetsCall(tenant, kind, limit)
TypstAssets(tenant, kind, limit) == AssetsCall(tenant, kind, limit)

LinkCall(tenant, job) == [op |-> "link", tenant |-> tenant, key |-> job]
CreateLink(tenant, job) == LinkCall(tenant, job)
TypstLink(tenant, job) == LinkCall(tenant, job)
=============================================================================
