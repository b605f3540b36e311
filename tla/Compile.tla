------------------------------ MODULE Compile ------------------------------
(***************************************************************************)
(* Compiling one document in the worker: src/src/compile.rs, with the      *)
(* world of src/src/world.rs and the diagnostics of src/src/diagnostics.rs.*)
(*                                                                         *)
(* What Typst makes of a bundle is given as a document record: what it     *)
(* asks the world for, the errors and warnings it raises, the sizes of its *)
(* pages in points, whether export or the encoding of a page fails.        *)
(* Scales are fractions <<numerator, denominator>>; the code's f32 rounds  *)
(* them, which is left out.                                                *)
(***************************************************************************)
EXTENDS Bundle

CONSTANT SourceNames \* last segments that end in ".typ"

-----------------------------------------------------------------------------
(* world.rs and diagnostics.rs.                                            *)

SourcesOf(files) ==
  {f.path : f \in {g \in Elements(files) : g.text /\ g.path[Len(g.path)] \in SourceNames}}
Found(files, need) ==
  /\ ~need.package
  /\ need.path \in (IF need.as = "source" THEN SourcesOf(files) ELSE PathsOf(files))

Bare(what) == [severity |-> "error", what |-> what, file |-> <<>>, line |-> 0]
(* A span may point at no file, or at a file but no place in it.           *)
Flatten(d) ==
  [severity |-> d.severity, what |-> d.what,
   file |-> IF d.span = "nowhere" THEN <<>> ELSE d.file,
   line |-> IF d.span = "place" THEN d.line ELSE 0]
Collect(ds) == [i \in DOMAIN ds |-> Flatten(ds[i])]

-----------------------------------------------------------------------------
(* Failures.                                                               *)

HasError(ds) == \E i \in DOMAIN ds : ds[i].severity = "error"
(* CompileError::diagnostics: there is always an error to report.          *)
Reported(kind, ds) == IF HasError(ds) THEN ds ELSE <<Bare(kind)>> \o ds
(* A variant in which an early failure loses the warnings before it.       *)
FailureAlone(kind, own, warnings) ==
  [status |-> "failed", kind |-> kind, diagnostics |-> Reported(kind, own)]
Failure(kind, own, warnings) ==
  [status |-> "failed", kind |-> kind, diagnostics |-> Reported(kind, own \o warnings)]

-----------------------------------------------------------------------------
(* Previews.                                                               *)

Endless == -1
Longest(page) == Max({page.w, page.h})
IsEndless(page) == Endless \in {page.w, page.h}
Requested(millis) == IF millis > 0 THEN <<millis, 1000>> ELSE <<1, 1>>

(* clamp_scale; the variant is the earlier version its comment describes.  *)
ClampFloored(scale, page, maxPx) ==
  IF IsEndless(page) \/ Longest(page) = 0 THEN scale
  ELSE IF 100 * maxPx < Longest(page) THEN <<1, 100>>
  ELSE IF maxPx * scale[2] < scale[1] * Longest(page) THEN <<maxPx, Longest(page)>>
  ELSE scale
Clamp(scale, page, maxPx) ==
  IF IsEndless(page) \/ Longest(page) = 0 THEN scale
  ELSE IF maxPx * scale[2] < scale[1] * Longest(page) THEN <<maxPx, Longest(page)>>
  ELSE scale
(* predicted_pixels of one edge: rounded, and at least one.                *)
Pixels(scale, pt) == Max({1, (2 * scale[1] * pt + scale[2]) \div (2 * scale[2])})

Pixmap(page, opts) ==
  LET scale == Clamp(Requested(opts.millis), page, opts.maxPx) IN
  [w |-> Pixels(scale, page.w), h |-> Pixels(scale, page.h)]
PreviewFault(doc, number, opts) ==
  IF number \notin DOMAIN doc.pages THEN "no_such_page"
  ELSE IF IsEndless(doc.pages[number]) THEN "page_too_large"
  ELSE IF Longest(Pixmap(doc.pages[number], opts)) > opts.maxPx THEN "page_too_large"
  ELSE IF number \in doc.unencodable THEN "preview"
  ELSE "ok"
RenderPreviews(doc, opts) ==
  [i \in DOMAIN opts.pages |->
     [page |-> opts.pages[i], size |-> Pixmap(doc.pages[opts.pages[i]], opts)]]

-----------------------------------------------------------------------------
(* compile_in and export, in their order.                                  *)
Outcome(doc, main, files, opts) ==
  LET missing == {n \in doc.needs \cup {[path |-> main, as |-> "source", package |-> FALSE]} :
                    ~Found(files, n)}
      warnings == Collect(doc.warnings)
      errors == Collect(doc.errors)
                  \o (IF missing = {} THEN <<>> ELSE <<Bare("not_found")>>)
      badPreviews == {i \in DOMAIN opts.pages : PreviewFault(doc, opts.pages[i], opts) # "ok"}
  IN IF errors # <<>> THEN Failure("source", errors, warnings)
     ELSE IF Len(doc.pages) > opts.maxPages THEN Failure("too_many_pages", <<>>, warnings)
     ELSE IF doc.export # <<>> THEN Failure("export", Collect(doc.export), warnings)
     ELSE IF badPreviews # {} THEN
            Failure(PreviewFault(doc, opts.pages[Min(badPreviews)], opts), <<>>, warnings)
     ELSE [status |-> "ok", pages |-> Len(doc.pages),
           previews |-> RenderPreviews(doc, opts), diagnostics |-> warnings]
=============================================================================
