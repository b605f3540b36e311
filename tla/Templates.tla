----------------------------- MODULE Templates -----------------------------
(***************************************************************************)
(* Templates: src/src/templates.rs.  How a template is put together from   *)
(* its files, stored as a tar archive and read back, and turned with a     *)
(* caller's data and body into the bundle that is compiled.                *)
(*                                                                         *)
(* The content of a file is a record whose field "what" says what a parser *)
(* would make of it.  A template is the record of its manifest, its files, *)
(* its metadata files and what was parsed from them.  As in Bundle, a      *)
(* check returns the reason it refuses for, or "ok".                       *)
(***************************************************************************)
EXTENDS Bundle, SequencesExt

CONSTANTS
  BlockBytes,       \* tar: the size of a header, and the unit of padding
  OverheadBytes,    \* MAX_ARCHIVE_OVERHEAD_BYTES
  WordyNames,       \* segments that make a path longer than a tar header holds
  TextNames,        \* last segments is_text recognises
  FontNames,        \* last segments is_font_path recognises
  ReservedNames,    \* segments that begin with "__", the generated ones included
  DotNames,         \* segments that begin with "."
  Identifiers,      \* strings is_ident accepts
  Dates,            \* strings parse_date accepts
  GeneratedBytes    \* size of the generated main file

(* What a member costs beyond its content, at most: a header, a long name  *)
(* in a header and a block of its own, padding; and the two blocks at the  *)
(* end.  The code's 64 files, 512 bytes and 256 KiB satisfy it.            *)
ASSUME OverheadAssumption ==
  /\ BlockBytes \in Nat \ {0} /\ GeneratedBytes \in Nat /\ OverheadBytes \in Nat
  /\ OverheadBytes >= MaxFiles * (4 * BlockBytes - 1) + 2 * BlockBytes
ASSUME CodeOverheadAssumption == 256 * 1024 >= 64 * (4 * 512 - 1) + 2 * 512

GeneratedMain == <<"__main.typ">>
GeneratedBody == <<"__body.typ">>
DataPath == <<"data.json">>
ManifestPath == <<"template.toml">>
MetadataPaths ==
  {ManifestPath, <<"schema.json">>, <<"fixture.json">>, <<"fixture.body.typ">>}

(* The metadata files are among those is_text recognises.                  *)
ASSUME TextAssumption == \A p \in MetadataPaths : p[Len(p)] \in TextNames

Absent == [what |-> "absent"]
Opaque == [what |-> "opaque"]
Garbage == [what |-> "garbage"]
SourceFile(path, bytes, content) ==
  [path |-> path, bytes |-> bytes, utf8 |-> TRUE, text |-> TRUE, content |-> content]
(* A set of files as a list; the code sorts by path.                       *)
Listed(files) == SetToSeq(files)
IsReserved(path) == Head(path) \in ReservedNames
IsText(path) == Last(path) \in TextNames

-----------------------------------------------------------------------------
(* Building a template.                                                    *)

HasFile(files, path) == \E f \in files : f.path = path
ContentAt(files, path) ==
  IF HasFile(files, path) THEN (CHOOSE f \in files : f.path = path).content
  ELSE Absent

(* assemble_from's checks of the manifest, the files and the schema, in    *)
(* its order.  The variant believes the manifest about its entrypoint.     *)
AssembleFault(manifest, files, meta) ==
  IF manifest.what # "manifest" THEN "bad_manifest"
  ELSE IF manifest.kind = "wrapper" /\ manifest.wrapper = "" THEN "no_wrapper_fn"
  ELSE IF manifest.kind = "wrapper" /\ manifest.wrapper \notin Identifiers THEN "bad_wrapper_fn"
  ELSE IF \E f \in files : IsReserved(f.path) THEN "reserved_name"
  ELSE IF \E f \in files : PathFault(f.path) # "ok" THEN "bad_path"
  ELSE IF ~HasFile(files, manifest.entrypoint) THEN "missing_entrypoint"
  ELSE IF ContentAt(meta, <<"schema.json">>).what \notin {"absent", "schema"} THEN "bad_schema"
  ELSE IF ContentAt(meta, <<"fixture.json">>).what \notin {"absent", "data"} THEN "bad_schema"
  ELSE "ok"

Built(all) ==
  LET meta == {f \in all : f.path \in MetadataPaths} IN
  [manifest |-> ContentAt(meta, ManifestPath),
   files    |-> all \ meta,
   meta     |-> meta,
   schema   |-> ContentAt(meta, <<"schema.json">>),
   example  |-> ContentAt(meta, <<"fixture.json">>),
   body     |-> ContentAt(meta, <<"fixture.body.typ">>)]

(* from_source_files: Bundle::new is the first parser, then metadata is    *)
(* told from document files, then assemble_from.                           *)
SourceFault(files, maxBytes) ==
  LET t == Built(Elements(files)) IN
  IF BundleFault(ManifestPath, files, maxBytes) # "ok" THEN
         BundleFault(ManifestPath, files, maxBytes)
  ELSE IF \E f \in t.meta : ~f.text THEN "non_text_metadata"
  ELSE AssembleFault(t.manifest, t.files, t.meta)
FromSourceFiles(files) == Built(Elements(files))

SourceFiles(t) == t.files \cup t.meta

(* Template::load and collect_files, on a directory given as its files.    *)
Collected(dir) ==
  {f \in dir : Elements(f.path) \cap DotNames = {} /\ f.path \notin MetadataPaths}
LoadFault(dir) ==
  LET files == Collected(dir) IN
  IF ~HasFile(dir, ManifestPath) THEN "no_manifest"
  ELSE IF \E f \in files : Elements(f.path) \cap ReservedNames # {} THEN "reserved_name"
  ELSE IF \E f \in files : PathFault(f.path) # "ok" THEN "bad_path"
  ELSE AssembleFault(ContentAt(dir, ManifestPath), files,
                     {f \in dir : f.path \in MetadataPaths})
Typed(f) == [f EXCEPT !.text = f.utf8 /\ IsText(f.path)]
Load(dir) == Built({Typed(f) : f \in Collected(dir)} \cup {f \in dir : f.path \in MetadataPaths})

(* TemplateSet::load: each directory with a manifest, or the first error;  *)
(* a name is the manifest's, and a later directory replaces an earlier.    *)
SetFaults(root) ==
  {LoadFault(dir) : dir \in {d \in root : HasFile(d, ManifestPath)}} \ {"ok"}
LoadSet(root) ==
  LET loaded == {Load(dir) : dir \in {d \in root : HasFile(d, ManifestPath)}} IN
  [n \in {t.manifest.name : t \in loaded} |-> CHOOSE t \in loaded : t.manifest.name = n]

-----------------------------------------------------------------------------
(* Archives.  A member is a file that also says whether it is regular.     *)

HeaderBytes(path) ==
  IF Elements(path) \cap WordyNames # {} THEN 3 * BlockBytes ELSE BlockBytes
Padded(bytes) == ((bytes + BlockBytes - 1) \div BlockBytes) * BlockBytes
InArchive(members) ==
  [i \in DOMAIN members |-> [bytes |-> HeaderBytes(members[i].path) + Padded(members[i].bytes)]]
MembersBytes(members) == TotalBytes(InArchive(members))
ArchiveBytes(members) == MembersBytes(members) + 2 * BlockBytes

Member(f) == [path |-> f.path, bytes |-> f.bytes, utf8 |-> f.utf8, content |-> f.content,
              regular |-> TRUE]
ToArchive(t) ==
  LET files == Listed(SourceFiles(t)) IN [i \in DOMAIN files |-> Member(files[i])]

(* What stops the decoding at member i, if the members before it passed:   *)
(* BoundedReader when the header lies beyond the budget, then the checks   *)
(* of the loop.  The variant allows the archive what its files may have.   *)
MemberFaultTight(members, i, maxBytes) ==
  LET before == SubSeq(members, 1, i - 1)  m == members[i] IN
  IF MembersBytes(before) + HeaderBytes(m.path) > maxBytes THEN "bad_archive"
  ELSE IF PathFault(m.path) # "ok" THEN "bad_path"
  ELSE IF ~m.regular THEN "non_file_member"
  ELSE IF i > MaxFiles THEN "too_many_files"
  ELSE IF TotalBytes(before) + m.bytes > maxBytes THEN "too_large"
  ELSE "ok"
MemberFault(members, i, maxBytes) ==
  LET before == SubSeq(members, 1, i - 1)  m == members[i] IN
  IF MembersBytes(before) + HeaderBytes(m.path) > maxBytes + OverheadBytes THEN "bad_archive"
  ELSE IF PathFault(m.path) # "ok" THEN "bad_path"
  ELSE IF ~m.regular THEN "non_file_member"
  ELSE IF i > MaxFiles THEN "too_many_files"
  ELSE IF TotalBytes(before) + m.bytes > maxBytes THEN "too_large"
  ELSE "ok"

Decoded(members) ==
  [i \in DOMAIN members |->
     [path |-> members[i].path, bytes |-> members[i].bytes, utf8 |-> members[i].utf8,
      text |-> members[i].utf8 /\ IsText(members[i].path), content |-> members[i].content]]

(* from_archive.                                                           *)
ArchiveFault(members, maxBytes) ==
  LET stops == {i \in DOMAIN members : MemberFault(members, i, maxBytes) # "ok"} IN
  IF stops # {} THEN MemberFault(members, Min(stops), maxBytes)
  ELSE IF MembersBytes(members) + BlockBytes > maxBytes + OverheadBytes THEN "bad_archive"
  ELSE SourceFault(Decoded(members), maxBytes)
FromArchive(members) == FromSourceFiles(Decoded(members))

-----------------------------------------------------------------------------
(* Using a template.  Data maps fields to JSON values; an absent field and *)
(* null are the same.                                                      *)

Given(data, field) == field \in DOMAIN data /\ data[field].type # "null"

(* validate: a schema here asks for fields.                                *)
Validates(t, data) == t.schema.what = "schema" => t.schema.required \subseteq DOMAIN data

(* convert: whether a JSON value is what the manifest asks for, and        *)
(* to_source, which refuses an identifier that is none.                    *)
Converts(spec, v) ==
  \/ spec.kind = "str" /\ v.type = "string"
  \/ spec.kind = "int" /\ v.type = "integer"
  \/ spec.kind = "float" /\ v.type \in {"integer", "number"}
  \/ spec.kind = "bool" /\ v.type = "boolean"
  \/ spec.kind = "date" /\ v.type = "string" /\ v.is \in Dates
  \/ spec.kind = "strings" /\ v.type = "array" /\ v.is = "strings"
  \/ spec.kind = "ident" /\ v.type = "string" /\ v.is \in DOMAIN spec.map
(* The identifier a caller's value puts into generated code.               *)
Emitted(spec, v) == spec.map[v.is]

(* generate_main: all arguments are converted before any is written.       *)
ArgumentsFault(t, data) ==
  LET args == {f \in DOMAIN t.manifest.args : Given(data, f)} IN
  IF \E f \in args : ~Converts(t.manifest.args[f], data[f]) THEN "bad_arg"
  ELSE IF \E f \in args : t.manifest.args[f].kind = "ident"
         /\ Emitted(t.manifest.args[f], data[f]) \notin Identifiers THEN "bad_ident"
  ELSE "ok"
IdentifiersIn(t, data) ==
  {Emitted(t.manifest.args[f], data[f]) :
     f \in {g \in DOMAIN t.manifest.args : Given(data, g) /\ t.manifest.args[g].kind = "ident"}}

OverrideFault(t, o) ==
  IF IsReserved(o.path) THEN "reserved_name"
  ELSE IF PathFault(o.path) # "ok" THEN "bad_path"
  ELSE IF ~HasFile(t.files, o.path) THEN "unknown_override"
  ELSE "ok"
(* Of several overrides of a file, the last one counts.                    *)
Overridden(t, overrides) ==
  {f \in t.files : f.path \notin PathsOf(overrides)}
    \cup {overrides[i] : i \in {j \in DOMAIN overrides :
             \A k \in DOMAIN overrides : k > j => overrides[k].path # overrides[j].path}}

BodyFile(body) == SourceFile(GeneratedBody, body.bytes + 1, [what |-> "body"])
AssembledFiles(t, data, body, extra, overrides) ==
  Listed(Overridden(t, overrides)) \o extra
    \o <<SourceFile(GeneratedMain, GeneratedBytes,
                     [what |-> "main", idents |-> IdentifiersIn(t, data)])>>
    \o (IF body.what = "absent" THEN <<>> ELSE <<BodyFile(body)>>)
    \o <<SourceFile(DataPath, 1, [what |-> "data"])>>

(* assemble_with_overrides, its refusals in its order.                     *)
UseFault(t, data, body, extra, overrides, maxBytes) ==
  LET badOverrides == {i \in DOMAIN overrides : OverrideFault(t, overrides[i]) # "ok"} IN
  IF ~Validates(t, data) THEN "schema_violation"
  ELSE IF (t.manifest.kind = "data") # (body.what = "absent") THEN "wrong_kind"
  ELSE IF badOverrides # {} THEN OverrideFault(t, overrides[Min(badOverrides)])
  ELSE IF ArgumentsFault(t, data) # "ok" THEN ArgumentsFault(t, data)
  ELSE BundleFault(GeneratedMain,
                   AssembledFiles(t, data, body, extra, overrides), maxBytes)

(* SourceMap: the body's prelude is one line, taken off the line numbers   *)
(* of its diagnostics.  The variant forgets that the first line is none of *)
(* the caller's.                                                           *)
PreludeLines == 1
MappedUnclamped(d, hasBody) ==
  IF hasBody /\ d.file = GeneratedBody
  THEN [file |-> <<"body.typ">>, line |-> d.line - PreludeLines] ELSE d
Mapped(d, hasBody) ==
  IF hasBody /\ d.file = GeneratedBody
  THEN [file |-> <<"body.typ">>, line |-> Max({d.line - PreludeLines, 1})]
  ELSE d
=============================================================================
