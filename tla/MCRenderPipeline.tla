-------------------------- MODULE MCRenderPipeline --------------------------
(* Model values and small inputs for RenderPipeline: one handler uploads   *)
(* and deletes, the other renders and reads.                               *)
EXTENDS RenderPipeline

CONSTANTS t1, t2, uploader, user, a1, p1, o1

MCTenantOf == (a1 :> t1) @@ (p1 :> t1) @@ (o1 :> t1)
MCKindOf == (a1 :> "assets") @@ (p1 :> "tpl") @@ (o1 :> "out")
MCTtl == "assets" :> 1 @@ "tpl" :> 1 @@ "out" :> 1
MCSizes == 0..16

String(s) == [type |-> "string", is |-> s]
Manifest(kind, name) ==
  [what |-> "manifest", name |-> name, kind |-> kind, wrapper |-> "doc",
   entrypoint |-> <<"main.typ">>,
   args |-> "tone" :> [kind |-> "ident", map |-> "warm" :> "red" @@ "bad" :> "not one"]]
ManifestFile(kind, name) == SourceFile(ManifestPath, 1, Manifest(kind, name))
Main == SourceFile(<<"main.typ">>, 1, Opaque)
Fixture == SourceFile(<<"fixture.json">>, 1, [what |-> "data", data |-> "tone" :> String("warm")])
FixtureText == SourceFile(<<"fixture.body.typ">>, 1, [what |-> "body", bytes |-> 1])
Schema1 == SourceFile(<<"schema.json">>, 1, [what |-> "schema", required |-> {"tone"}])
Wordy == SourceFile(<<"wordy">>, 1, Opaque)
Asset(path, bytes) ==
  [path |-> path, bytes |-> bytes, utf8 |-> FALSE, text |-> FALSE, content |-> Opaque]
Link1(path) == [Member(SourceFile(path, 1, Opaque)) EXCEPT !.regular = FALSE]

MCBaked ==
  {{ManifestFile("data", "invoice"), Main, SourceFile(<<".git", "x">>, 1, Opaque)},
   {Main}}

Wrapper == <<ManifestFile("wrapper", "letter"), Main>>
Members(files) == [i \in DOMAIN files |-> Member(files[i])]
Tool(files, name, assets) == [files |-> files, name |-> name, assets |-> assets]

UploadCalls ==
  {UploadAsset(t1, Asset(<<"logo">>, 3), <<>>, "image"),
   UploadAsset(t1, Asset(<<"x", "..", "y">>, 1), <<"image">>, "image"),
   UploadAsset(t1, Asset(GeneratedBody, 1), <<>>, "image"),
   UploadAsset(t1, Asset(<<"logo">>, 1), <<"film">>, "image"),
   UploadAsset(t1, Asset(<<"logo">>, 0), <<>>, "image"),
   RestUploadTemplate(t1, Members(Wrapper \o <<Fixture, FixtureText>>)),
   RestUploadTemplate(t1, <<Link1(<<"main.typ">>)>>),
   TypstUploadTemplate(t1, Tool(Wrapper, "memo", <<>>)),
   TypstUploadTemplate(t1, Tool(Wrapper \o <<Schema1, Wordy>>, "letter", <<a1>>)),
   DeleteTemplate(t1, p1), DeleteTemplate(t1, "invoice")}

Warm == "tone" :> String("warm")
Body == [what |-> "body", bytes |-> 1]
With(template, data, assets, pages) ==
  [Unasked EXCEPT !.template = template, !.data = data, !.body = Body, !.assets = assets,
                  !.pages = pages]
Inline(files, assets) == [Unasked EXCEPT !.source = <<Main>>, !.files = files, !.assets = assets]

UseCalls ==
  {TypstRender(t1, With(p1, Warm, <<a1>>, <<<<1, 2>>>>)),
   RestRender(t1, [With(p1, NoData, <<>>, <<>>) EXCEPT
                     !.overrides = <<SourceFile(<<"main.typ">>, 1, Opaque)>>], <<"pdf">>),
   RestRender(t2, Inline(<<>>, <<a1>>), <<"pdf">>),
   RestRender(t1, Inline(<<>>, <<a1, a1, a1>>), <<>>),
   RestRender(t1, Inline(<<SourceFile(<<"..", "x">>, 1, Opaque)>>, <<>>), <<"json">>),
   TypstRender(t1, With("invoice", Warm, <<>>, <<<<1, 1, 2>>>>)),
   RestRender(t1, With("invoice", Warm, <<a1>>, <<>>), <<"pdf">>),
   RestRender(t1, Unasked, <<>>), RestRender(t1, Inline(<<>>, <<>>), <<"gif">>),
   RestRender(t1, With(p1, "tone" :> String("bad"), <<>>, <<>>), <<>>),
   TypstCompile(t1, Inline(<<Main>>, <<>>)),
   ListTemplates(t1, <<>>), TypstTemplates(t1, <<FALSE>>),
   ListAssets(t1, <<"image">>, <<>>), TypstAssets(t1, <<>>, <<0>>),
   GetTemplate(t1, p1), TypstTemplateSchema(t1, "invoice"),
   CreateLink(t1, o1), TypstLink(t2, o1)}

MCCalls == uploader :> UploadCalls @@ user :> UseCalls
=============================================================================
