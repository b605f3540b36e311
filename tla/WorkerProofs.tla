---------------------------- MODULE WorkerProofs ----------------------------
(* Theorems about Worker, for all jobs, sizes of pipes and frame limits:   *)
(* what the answer to a compile says, however worker and parent interleave *)
(* and whatever fails.                                                     *)
EXTENDS Worker, TLAPS

-----------------------------------------------------------------------------
(* Previews stay within their pixel budget (compile.rs clamp_scale).       *)

(* The greater of two edges.                                               *)
LEMMA MaxOfTwo ==
  ASSUME NEW a \in Int, NEW b \in Int
  PROVE  /\ Max({a, b}) \in {a, b}
         /\ Max({a, b}) >= a /\ Max({a, b}) >= b
<1>1. \E x \in {a, b} : \A y \in {a, b} : x >= y OBVIOUS
<1> QED BY <1>1 DEF Max

(* What \div rounds to.                                                    *)
LEMMA DivBounds ==
  ASSUME NEW a \in Nat, NEW b \in Nat \ {0}, NEW m \in Nat, a < b * (m + 1)
  PROVE  a \div b \in 0..m
<1>1. a \div b \in Int /\ b * (a \div b) <= a /\ a < b * ((a \div b) + 1) OBVIOUS
<1>2. a \div b >= 0 BY <1>1
<1>3. ~(a \div b >= m + 1)
  <2> SUFFICES ASSUME a \div b >= m + 1 PROVE FALSE OBVIOUS
  <2>1. b * (a \div b) >= b * (m + 1) BY <1>1
  <2> QED BY <1>1, <2>1
<1> QED BY <1>1, <1>2, <1>3

(* An edge that scales to at most m has between 1 and m pixels.            *)
LEMMA PixelsWithin ==
  ASSUME NEW n \in Nat, NEW d \in Nat \ {0}, NEW pt \in Nat, NEW m \in Nat \ {0},
         n * pt <= m * d
  PROVE  Pixels(<<n, d>>, pt) \in 1..m
<1> DEFINE a == 2 * n * pt + d
           q == a \div (2 * d)
<1>1. a \in Nat /\ 2 * d \in Nat \ {0} /\ a < (2 * d) * (m + 1)
  <2>1. n * pt \in Nat /\ m * d \in Nat OBVIOUS
  <2>2. a = 2 * (n * pt) + d OBVIOUS
  <2>3. (2 * d) * (m + 1) = 2 * (m * d) + 2 * d OBVIOUS
  <2> QED BY <2>1, <2>2, <2>3
<1>2. q \in 0..m BY <1>1, DivBounds
<1>3. Pixels(<<n, d>>, pt) = Max({1, q}) BY DEF Pixels
<1> HIDE DEF q
<1>4. q \in Int BY <1>2
<1>5. Max({1, q}) \in {1, q} /\ Max({1, q}) >= 1
  <2>1. 1 \in Int OBVIOUS
  <2> QED BY ONLY <1>4, <2>1, MaxOfTwo, Zenon
<1> QED BY <1>2, <1>3, <1>5

(* A page that ends has a longest edge.                                    *)
LEMMA LongestEdge ==
  ASSUME NEW page \in [w : Edge, h : Edge], ~IsEndless(page)
  PROVE  /\ page.w \in Nat /\ page.h \in Nat /\ Longest(page) \in Nat
         /\ page.w <= Longest(page) /\ page.h <= Longest(page)
<1>1. page.w \in Nat /\ page.h \in Nat BY DEF IsEndless, Edge
<1>2. Longest(page) \in {page.w, page.h} /\ Longest(page) >= page.w /\ Longest(page) >= page.h
  <2>1. page.w \in Int /\ page.h \in Int BY <1>1
  <2>2. Max({page.w, page.h}) \in {page.w, page.h} /\ Max({page.w, page.h}) >= page.w
        /\ Max({page.w, page.h}) >= page.h
    BY ONLY <2>1, MaxOfTwo, Zenon
  <2> QED BY <2>2 DEF Longest
<1> QED BY <1>1, <1>2

(* clamp_scale makes every page that ends fit, at any scale asked for and  *)
(* any limit of at least one pixel, and leaves it at least one.            *)
THEOREM ClampFits ==
  ASSUME NEW page \in [w : Edge, h : Edge], ~IsEndless(page),
         NEW millis \in Nat, NEW maxPx \in Nat \ {0}
  PROVE  LET scale == Clamp(Requested(millis), page, maxPx) IN
         Pixels(scale, page.w) \in 1..maxPx /\ Pixels(scale, page.h) \in 1..maxPx
<1> DEFINE long == Longest(page)
           asked == Requested(millis)
           scale == Clamp(asked, page, maxPx)
<1>1. /\ page.w \in Nat /\ page.h \in Nat /\ long \in Nat /\ page.w <= long /\ page.h <= long
  BY LongestEdge
<1>2. PICK n \in Nat \ {0}, d \in Nat \ {0} : asked = <<n, d>> BY DEF Requested
<1> SUFFICES ASSUME NEW pt \in {page.w, page.h} PROVE Pixels(scale, pt) \in 1..maxPx
  OBVIOUS
<1>3. pt \in Nat /\ pt <= long BY <1>1
<1>4. CASE long = 0
  <2>1. scale = <<n, d>> BY <1>2, <1>4 DEF Clamp
  <2>2. n * pt <= maxPx * d
    <3>1. pt = 0 BY <1>1, <1>3, <1>4
    <3>2. n * pt = 0 BY <3>1
    <3>3. maxPx * d \in Nat OBVIOUS
    <3> QED BY <3>2, <3>3
  <2> QED BY <1>3, <2>1, <2>2, PixelsWithin
<1>5. CASE long # 0 /\ maxPx * d < n * long
  <2>1. scale = <<maxPx, long>> BY <1>2, <1>5 DEF Clamp
  <2>2. maxPx * pt <= maxPx * long BY <1>1, <1>3
  <2>3. long \in Nat \ {0} BY <1>1, <1>5
  <2> HIDE DEF scale, long
  <2> QED BY <1>3, <2>1, <2>2, <2>3, PixelsWithin
<1>6. CASE long # 0 /\ ~(maxPx * d < n * long)
  <2>1. scale = <<n, d>> BY <1>2, <1>6 DEF Clamp
  <2>2. n * pt <= n * long BY <1>1, <1>3
  <2>3. n * long <= maxPx * d
    <3>1. n * long \in Int /\ maxPx * d \in Int BY <1>1
    <3> QED BY <1>6, <3>1
  <2>4. n * pt <= maxPx * d
    <3>1. n * pt \in Int /\ n * long \in Int /\ maxPx * d \in Int BY <1>1, <1>3
    <3> QED BY <2>2, <2>3, <3>1
  <2> HIDE DEF scale, long
  <2> QED BY <1>3, <2>1, <2>4, PixelsWithin
<1> QED BY <1>4, <1>5, <1>6

-----------------------------------------------------------------------------
(* What compile_in returns.                                                *)

(* Joining lists loses nothing.                                            *)
LEMMA JoinedElements ==
  ASSUME NEW T, NEW s \in Seq(T), NEW t \in Seq(T)
  PROVE  Elements(t) \subseteq Elements(s \o t)
<1> SUFFICES ASSUME NEW i \in DOMAIN t PROVE \E k \in DOMAIN (s \o t) : (s \o t)[k] = t[i]
  BY DEF Elements
<1>1. i \in 1..Len(t) /\ Len(s) \in Nat /\ Len(t) \in Nat OBVIOUS
<1>2. Len(s) + i \in DOMAIN (s \o t) /\ (s \o t)[Len(s) + i] = t[i] BY <1>1
<1> QED BY <1>2

(* Flattening keeps a list a list.                                         *)
LEMMA CollectedType ==
  ASSUME NEW ds \in Seq(Reports)
  PROVE  Collect(ds) \in Seq({Flatten(d) : d \in Reports})
<1>1. DOMAIN ds = 1..Len(ds) /\ Len(ds) \in Nat OBVIOUS
<1>2. \A i \in 1..Len(ds) : Flatten(ds[i]) \in {Flatten(d) : d \in Reports} OBVIOUS
<1> QED BY <1>1, <1>2 DEF Collect

(* A failure always comes with an error, and with every warning before it. *)
LEMMA FailureExplains ==
  ASSUME NEW T, NEW kind, NEW own \in Seq(T), NEW warnings \in Seq(T)
  PROVE  LET r == Failure(kind, own, warnings) IN
         /\ r.status = "failed" /\ r.kind = kind
         /\ HasError(r.diagnostics) /\ Elements(warnings) \subseteq Elements(r.diagnostics)
<1> DEFINE all == own \o warnings
           U == T \cup {Bare(kind)}
<1>1. all \in Seq(U) /\ own \in Seq(U) /\ warnings \in Seq(U) OBVIOUS
<1>2. Elements(warnings) \subseteq Elements(all) BY JoinedElements
<1>3. CASE HasError(all)
  BY <1>2, <1>3 DEF Failure, Reported
<1>4. CASE ~HasError(all)
  <2> DEFINE told == <<Bare(kind)>> \o all
  <2>1. Reported(kind, all) = told BY <1>4 DEF Reported
  <2>2. <<Bare(kind)>> \in Seq(U) OBVIOUS
  <2>3. Elements(all) \subseteq Elements(told) BY ONLY <1>1, <2>2, JoinedElements
  <2>4. 1 \in DOMAIN told /\ told[1] = Bare(kind) BY <1>1, <2>2
  <2>5. HasError(told) BY <2>4 DEF HasError, Bare
  <2> QED BY <1>2, <2>1, <2>3, <2>5 DEF Failure
<1> QED BY <1>3, <1>4

(* What is true of a document that compiled, and of one that did not.      *)
Rendered(r, j) ==
  /\ r.status = "ok"
  /\ DOMAIN r.previews = DOMAIN j.opts.pages
  /\ \A i \in DOMAIN j.opts.pages :
       /\ r.previews[i].page = j.opts.pages[i]
       /\ {r.previews[i].size.w, r.previews[i].size.h} \subseteq 1..j.opts.maxPx
  /\ r.pages <= j.opts.maxPages
Explained(r, j) ==
  /\ r.status = "failed"
  /\ HasError(r.diagnostics) /\ Elements(Collect(j.doc.warnings)) \subseteq Elements(r.diagnostics)
  /\ r.kind = "page_too_large" =>
       j.opts.maxPx = 0 \/ \E i \in DOMAIN j.doc.pages : IsEndless(j.doc.pages[i])

(* Whatever the limit, the prediction is of a pixel at least.              *)
LEMMA APixelAtLeast ==
  ASSUME NEW page \in [w : Edge, h : Edge], ~IsEndless(page), NEW millis \in Nat,
         NEW maxPx \in Nat, NEW pt \in Nat
  PROVE  Pixels(Clamp(Requested(millis), page, maxPx), pt) \in Nat \ {0}
<1> DEFINE long == Longest(page)
           scale == Clamp(Requested(millis), page, maxPx)
<1>1. PICK n \in Nat, d \in Nat \ {0} : scale = <<n, d>>
  <2>1. PICK n \in Nat \ {0}, d \in Nat \ {0} : Requested(millis) = <<n, d>> BY DEF Requested
  <2>2. long \in Nat BY LongestEdge
  <2>3. scale \in {<<n, d>>, <<maxPx, long>>} /\ (long = 0 => scale = <<n, d>>)
    BY <2>1 DEF Clamp
  <2> HIDE DEF scale, long
  <2> QED BY <2>2, <2>3
<1> DEFINE q == (2 * n * pt + d) \div (2 * d)
<1>2. q \in Int
  <2>1. 2 * n * pt + d \in Int /\ 2 * d \in Nat \ {0} OBVIOUS
  <2> QED BY <2>1
<1>3. Pixels(scale, pt) = Max({1, q})
  <2> HIDE DEF scale
  <2> QED BY <1>1 DEF Pixels
<1> HIDE DEF q
<1>4. Max({1, q}) \in {1, q} /\ Max({1, q}) >= 1
  <2>1. 1 \in Int OBVIOUS
  <2> QED BY ONLY <1>2, <2>1, MaxOfTwo, Zenon
<1> QED BY <1>2, <1>3, <1>4

(* A preview is refused as too large only where no scale could help.       *)
LEMMA PreviewsFit ==
  ASSUME NEW j \in Jobs, NEW n
  PROVE  /\ PreviewFault(j.doc, n, j.opts) = "ok" =>
              {Pixmap(j.doc.pages[n], j.opts).w, Pixmap(j.doc.pages[n], j.opts).h}
                \subseteq 1..j.opts.maxPx
         /\ PreviewFault(j.doc, n, j.opts) = "page_too_large" =>
              j.opts.maxPx = 0 \/ \E i \in DOMAIN j.doc.pages : IsEndless(j.doc.pages[i])
<1> DEFINE page == j.doc.pages[n]
           px == Pixmap(page, j.opts)
<1>1. j.opts \in [maxPages : Nat, pages : Seq(Nat), millis : Nat, maxPx : Nat]
      /\ j.doc.pages \in Seq([w : Edge, h : Edge])
  BY JobsAssumption
<1>2. CASE n \notin DOMAIN j.doc.pages BY <1>2 DEF PreviewFault
<1>3. CASE n \in DOMAIN j.doc.pages /\ IsEndless(page) BY <1>3 DEF PreviewFault
<1>4. CASE n \in DOMAIN j.doc.pages /\ ~IsEndless(page)
  <2>1. page \in [w : Edge, h : Edge]
    <3> DEFINE pages == j.doc.pages
               E == [w : Edge, h : Edge]
    <3>1. pages \in Seq(E) /\ n \in DOMAIN pages BY <1>1, <1>4
    <3> HIDE DEF pages, E
    <3>2. pages[n] \in E BY <3>1
    <3> QED BY <3>2 DEF pages, E
  <2>2. CASE j.opts.maxPx # 0
    <3>1. px.w \in 1..j.opts.maxPx /\ px.h \in 1..j.opts.maxPx
      <4>1. j.opts.maxPx \in Nat \ {0} /\ j.opts.millis \in Nat BY <1>1, <2>2
      <4> HIDE DEF page
      <4> QED BY <1>4, <2>1, <4>1, ClampFits DEF Pixmap
    <3>2. ~(Longest(px) > j.opts.maxPx)
      <4> HIDE DEF px, page
      <4>1. px.w \in Int /\ px.h \in Int BY <3>1
      <4>2. Max({px.w, px.h}) \in {px.w, px.h} BY ONLY <4>1, MaxOfTwo, Zenon
      <4> QED BY <1>1, <3>1, <4>2 DEF Longest
    <3>3. PreviewFault(j.doc, n, j.opts) # "page_too_large"
      <4>1. ~(Longest(px) > j.opts.maxPx) BY <3>2
      <4> HIDE DEF px
      <4> QED BY <1>4, <4>1 DEF PreviewFault, px
    <3> QED BY <3>1, <3>3
  <2>3. CASE j.opts.maxPx = 0
    <3>1. PreviewFault(j.doc, n, j.opts) # "ok"
      <4>1. px.w \in Nat \ {0} /\ px.h \in Nat \ {0}
        <5>1. page.w \in Nat /\ page.h \in Nat BY <1>4, <2>1, LongestEdge
        <5>2. j.opts.maxPx \in Nat /\ j.opts.millis \in Nat BY <1>1
        <5> HIDE DEF page
        <5>3. /\ Pixels(Clamp(Requested(j.opts.millis), page, j.opts.maxPx), page.w) \in Nat \ {0}
              /\ Pixels(Clamp(Requested(j.opts.millis), page, j.opts.maxPx), page.h) \in Nat \ {0}
          BY <1>4, <2>1, <5>1, <5>2, APixelAtLeast
        <5> QED BY <5>3 DEF Pixmap
      <4> HIDE DEF px, page
      <4>2. px.w \in Int /\ px.h \in Int BY <4>1
      <4>3. Max({px.w, px.h}) >= px.w BY ONLY <4>2, MaxOfTwo, Zenon
      <4>4. Max({px.w, px.h}) \in {px.w, px.h} BY ONLY <4>2, MaxOfTwo, Zenon
      <4>5. Longest(px) > j.opts.maxPx BY <2>3, <4>1, <4>3, <4>4 DEF Longest
      <4> QED BY <1>4, <4>5 DEF PreviewFault, px, page
    <3> QED BY <2>3, <3>1
  <2> QED BY <2>2, <2>3
<1> QED BY <1>2, <1>3, <1>4

(* Every document is rendered or explained.                                *)
LEMMA Outcomes ==
  ASSUME NEW j \in Jobs
  PROVE  Rendered(ResultOf[j], j) \/ Explained(ResultOf[j], j)
<1> DEFINE doc == j.doc
           opts == j.opts
           missing == {n \in doc.needs \cup {[path |-> j.main, as |-> "source", package |-> FALSE]} :
                         ~Found(j.files, n)}
           warnings == Collect(doc.warnings)
           lost == IF missing = {} THEN <<>> ELSE <<Bare("not_found")>>
           errors == Collect(doc.errors) \o lost
           bad == {i \in DOMAIN opts.pages : PreviewFault(doc, opts.pages[i], opts) # "ok"}
           first == PreviewFault(doc, opts.pages[Min(bad)], opts)
           T == {Flatten(d) : d \in Reports} \cup {Bare("not_found")}
           r == ResultOf[j]
<1>1. r = IF errors # <<>> THEN Failure("source", errors, warnings)
          ELSE IF Len(doc.pages) > opts.maxPages
               THEN Failure("too_many_pages", <<>>, warnings)
          ELSE IF doc.export # <<>> THEN Failure("export", Collect(doc.export), warnings)
          ELSE IF bad # {} THEN Failure(first, <<>>, warnings)
          ELSE [status |-> "ok", pages |-> Len(doc.pages),
                previews |-> RenderPreviews(doc, opts), diagnostics |-> warnings]
  <2>1. r = Outcome(doc, j.main, j.files, opts) BY JobsAssumption DEF ResultOf
  <2> QED BY <2>1 DEF Outcome
<1>2. warnings \in Seq(T) /\ errors \in Seq(T) /\ Collect(doc.export) \in Seq(T)
  <2> DEFINE F == {Flatten(d) : d \in Reports}
  <2>1. {doc.errors, doc.warnings, doc.export} \subseteq Seq(Reports) BY JobsAssumption
  <2>2. /\ warnings \in Seq(F) /\ Collect(doc.errors) \in Seq(F)
        /\ Collect(doc.export) \in Seq(F)
    BY <2>1, CollectedType
  <2>3. lost \in Seq(T)
    <3>1. Bare("not_found") \in T OBVIOUS
    <3>2. lost = <<>> \/ lost = <<Bare("not_found")>> OBVIOUS
    <3>3. ASSUME NEW S, NEW x \in S PROVE <<>> \in Seq(S) /\ <<x>> \in Seq(S) OBVIOUS
    <3> HIDE DEF T, lost
    <3> QED BY <3>1, <3>2, <3>3, Zenon
  <2>4. ASSUME NEW s \in Seq(F) PROVE s \in Seq(T)
    <3>1. F \subseteq T OBVIOUS
    <3> HIDE DEF F, T
    <3>2. Len(s) \in Nat /\ s \in [1..Len(s) -> T] BY <3>1
    <3> QED BY <3>2
  <2>5. Collect(doc.errors) \in Seq(T) BY <2>2, <2>4
  <2> HIDE DEF T, lost
  <2> QED BY <2>2, <2>3, <2>4, <2>5
<1>3. <<>> \in Seq(T) OBVIOUS
<1>4. first = "page_too_large" =>
        opts.maxPx = 0 \/ \E i \in DOMAIN doc.pages : IsEndless(doc.pages[i])
  BY PreviewsFit
<1> HIDE DEF doc, T, errors, missing, bad, first, warnings
<1>5. ASSUME NEW kind, NEW own \in Seq(T), r = Failure(kind, own, warnings),
             kind # "page_too_large" \/ kind = first
      PROVE  Explained(r, j)
  <2>1. /\ r.status = "failed" /\ r.kind = kind
        /\ HasError(r.diagnostics) /\ Elements(warnings) \subseteq Elements(r.diagnostics)
    BY <1>2, <1>5, FailureExplains
  <2> QED BY <1>4, <1>5, <2>1 DEF Explained, warnings, doc
<1>6. CASE errors # <<>> BY <1>1, <1>2, <1>5, <1>6
<1>7. CASE errors = <<>> /\ Len(doc.pages) > opts.maxPages BY <1>1, <1>3, <1>5, <1>7
<1>8. CASE errors = <<>> /\ ~(Len(doc.pages) > opts.maxPages) /\ doc.export # <<>>
  BY <1>1, <1>2, <1>5, <1>8
<1>9. CASE errors = <<>> /\ ~(Len(doc.pages) > opts.maxPages) /\ doc.export = <<>> /\ bad # {}
  BY <1>1, <1>3, <1>5, <1>9
<1>10. CASE errors = <<>> /\ ~(Len(doc.pages) > opts.maxPages) /\ doc.export = <<>> /\ bad = {}
  <2>1. r = [status |-> "ok", pages |-> Len(doc.pages),
             previews |-> RenderPreviews(doc, opts), diagnostics |-> warnings]
    BY <1>1, <1>10
  <2>2. Len(doc.pages) <= opts.maxPages
    <3>1. Len(doc.pages) \in Nat /\ opts.maxPages \in Nat BY JobsAssumption DEF doc
    <3> QED BY <1>10, <3>1
  <2>3. \A i \in DOMAIN opts.pages : PreviewFault(doc, opts.pages[i], opts) = "ok"
    BY <1>10 DEF bad
  <2>4. ASSUME NEW i \in DOMAIN opts.pages
        PROVE  /\ r.previews[i].page = opts.pages[i]
               /\ {r.previews[i].size.w, r.previews[i].size.h} \subseteq 1..opts.maxPx
    <3>1. r.previews[i] = [page |-> opts.pages[i], size |-> Pixmap(doc.pages[opts.pages[i]], opts)]
      BY <2>1 DEF RenderPreviews
    <3>2. PreviewFault(doc, opts.pages[i], opts) = "ok" BY <2>3
    <3>3. {Pixmap(doc.pages[opts.pages[i]], opts).w, Pixmap(doc.pages[opts.pages[i]], opts).h}
             \subseteq 1..opts.maxPx
      BY <3>2, PreviewsFit DEF doc
    <3> HIDE DEF doc, opts
    <3> QED BY <3>1, <3>3
  <2>5. DOMAIN r.previews = DOMAIN opts.pages BY <2>1 DEF RenderPreviews
  <2>6. r.status = "ok" /\ r.pages = Len(doc.pages) BY <2>1
  <2> HIDE DEF doc, bad, errors, warnings, first
  <2>7. Rendered(r, j) BY <2>2, <2>4, <2>5, <2>6 DEF Rendered
  <2> QED BY <2>6, <2>7
<1> QED BY <1>6, <1>7, <1>8, <1>9, <1>10

-----------------------------------------------------------------------------
(* The inductive invariant.                                                *)

(* Types, and what each phase of the parent means for the worker.          *)
Phases ==
  /\ job \in Jobs
  /\ {toSend, got, toSay, toReply, said, out, err, stdin, stdout, stderr} \subseteq Nat
  /\ exit \in {"none", "0", "3", "signal", "killed"}
  /\ toSend + stdin + got = job.units
  /\ parent = "staging" => worker = "none"
  /\ parent = "pumping" => worker # "none"
  /\ parent = "done" => worker \in {"none", "gone"}
  /\ parent # "done" => answer = NoAnswer

(* How far the worker is: it replies to a job it has read whole, and exits *)
(* with a status only after that.                                          *)
Replied == worker = "writing" \/ exit \in {"0", "3"}
Progress ==
  /\ worker \in {"none", "reading", "executing"} => exit = "none" /\ out = 0 /\ stdout = 0
  /\ worker = "writing" => exit \in {"none", "3"}
  /\ worker = "gone" /\ exit = "none" => parent = "done"
  /\ worker = "executing" \/ Replied => got = job.units
  /\ Replied => result \in {Compiled, Internal}
  /\ sent = "epipe" => toSend > 0

(* What comes of a job nothing happens to.                                 *)
Undisturbed ==
  faults = {} =>
    /\ exit \in {"none", "0", "3"}
    /\ Replied => /\ result = Compiled
                  /\ Compiled.status = "ok" =>
                       disk = {Compiled.previews[i].page : i \in DOMAIN Compiled.previews}
    /\ exit = "3" => job.replyUnits > MaxFrame
    /\ worker = "writing" /\ exit = "none" => out + stdout + toReply = job.replyUnits
    /\ exit = "0" => out + stdout = job.replyUnits

IInv == TypeOK /\ Phases /\ Progress /\ Undisturbed

(* It holds of a compile that has not begun.                               *)
LEMMA InitialStates == Init => IInv
<1> SUFFICES ASSUME Init PROVE IInv OBVIOUS
<1>1. job.units \in Nat \ {0} BY JobsAssumption DEF Init
<1>2. PipeUnits \in Nat \ {0} BY PipeAssumption
<1>3. TypeOK BY <1>1, <1>2 DEF Init, TypeOK
<1>4. Phases BY <1>1 DEF Init, Phases
<1>5. Progress BY DEF Init, Progress, Replied
<1>6. Undisturbed BY DEF Init, Undisturbed, Replied
<1> QED BY <1>3, <1>4, <1>5, <1>6 DEF IInv

(* Every step of the parent and of the worker keeps it.                    *)
LEMMA InductiveStep == IInv /\ [Next]_vars => IInv'
<1> SUFFICES ASSUME IInv, [Next]_vars PROVE IInv' OBVIOUS
<1>1. /\ job.units \in Nat \ {0} /\ job.replyUnits \in Nat \ {0} /\ job.chatter \in Nat
      /\ PipeUnits \in Nat \ {0} /\ MaxFrame \in Nat \ {0}
  BY JobsAssumption, PipeAssumption DEF IInv, Phases
<1>2. Compiled' = Compiled /\ job' = job
  BY DEF Compiled, Next, Stage, StageFails, SendUnit, ReadOut, ReadErr, Join, Deadline, ReadJob,
         Execute, ExecuteFails, SayUnit, ReplyUnit, Exit, Die, Done, vars
<1>3. TypeOK /\ Phases /\ Progress /\ Undisturbed BY DEF IInv
<1> USE DEF parentVars, workerVars, pipeVars
<1>4. CASE Stage
  <2>1. TypeOK' /\ Phases' BY <1>1, <1>2, <1>3, <1>4 DEF Stage, TypeOK, Phases, Gone
  <2>2. Progress' BY <1>1, <1>2, <1>3, <1>4 DEF Stage, TypeOK, Phases, Progress, Replied
  <2>3. Undisturbed'
    BY <1>1, <1>2, <1>3, <1>4 DEF Stage, TypeOK, Phases, Progress, Undisturbed, Replied
  <2> QED BY <2>1, <2>2, <2>3 DEF IInv
<1>5. CASE StageFails
  <2>1. TypeOK' /\ Phases' BY <1>1, <1>2, <1>3, <1>5 DEF StageFails, Finish, NoAnswer, TypeOK, Phases, Gone
  <2>2. Progress' BY <1>1, <1>2, <1>3, <1>5 DEF StageFails, Finish, NoAnswer, TypeOK, Phases, Progress, Replied
  <2>3. Undisturbed'
    BY <1>1, <1>2, <1>3, <1>5 DEF StageFails, Finish, NoAnswer, TypeOK, Phases, Progress, Undisturbed, Replied
  <2> QED BY <2>1, <2>2, <2>3 DEF IInv
<1>6. CASE SendUnit
  <2>1. TypeOK' /\ Phases' BY <1>1, <1>2, <1>3, <1>6 DEF SendUnit, Gone, TypeOK, Phases
  <2>2. Progress' BY <1>1, <1>2, <1>3, <1>6 DEF SendUnit, Gone, TypeOK, Phases, Progress, Replied
  <2>3. Undisturbed'
    BY <1>1, <1>2, <1>3, <1>6 DEF SendUnit, Gone, TypeOK, Phases, Progress, Undisturbed, Replied
  <2> QED BY <2>1, <2>2, <2>3 DEF IInv
<1>7. CASE ReadOut
  <2>1. TypeOK' /\ Phases' BY <1>1, <1>2, <1>3, <1>7 DEF ReadOut, TypeOK, Phases, Gone
  <2>2. Progress' BY <1>1, <1>2, <1>3, <1>7 DEF ReadOut, TypeOK, Phases, Progress, Replied
  <2>3. Undisturbed'
    BY <1>1, <1>2, <1>3, <1>7 DEF ReadOut, TypeOK, Phases, Progress, Undisturbed, Replied
  <2> QED BY <2>1, <2>2, <2>3 DEF IInv
<1>8. CASE ReadErr
  <2>0. stderr' = stderr - 1 /\ err' = err + 1 /\ stderr > 0 BY <1>8 DEF ReadErr, Kept
  <2>1. TypeOK' /\ Phases'
    <3>1. TypeOK' BY <1>1, <1>2, <1>3, <1>8, <2>0 DEF ReadErr, TypeOK, Phases, Gone
    <3>2. Phases' BY <1>1, <1>2, <1>3, <1>8, <2>0 DEF ReadErr, TypeOK, Phases
    <3> QED BY <3>1, <3>2
  <2>2. Progress' BY <1>1, <1>2, <1>3, <1>8 DEF ReadErr, Kept, TypeOK, Phases, Progress, Replied
  <2>3. Undisturbed'
    BY <1>1, <1>2, <1>3, <1>8 DEF ReadErr, Kept, TypeOK, Phases, Progress, Undisturbed, Replied
  <2> QED BY <2>1, <2>2, <2>3 DEF IInv
<1>9. CASE Join
  <2>1. TypeOK' /\ Phases' BY <1>1, <1>2, <1>3, <1>9 DEF Join, Finish, Gone, TypeOK, Phases
  <2>2. Progress' BY <1>1, <1>2, <1>3, <1>9 DEF Join, Finish, Gone, TypeOK, Phases, Progress, Replied
  <2>3. Undisturbed'
    BY <1>1, <1>2, <1>3, <1>9 DEF Join, Finish, Gone, TypeOK, Phases, Progress, Undisturbed, Replied
  <2> QED BY <2>1, <2>2, <2>3 DEF IInv
<1>10. CASE Deadline
  <2>1. TypeOK' /\ Phases' BY <1>1, <1>2, <1>3, <1>10 DEF Deadline, Finish, Gone, TypeOK, Phases
  <2>2. Progress' BY <1>1, <1>2, <1>3, <1>10 DEF Deadline, Finish, Gone, TypeOK, Phases, Progress, Replied
  <2>3. Undisturbed'
    BY <1>1, <1>2, <1>3, <1>10 DEF Deadline, Finish, Gone, TypeOK, Phases, Progress, Undisturbed, Replied
  <2> QED BY <2>1, <2>2, <2>3 DEF IInv
<1>11. CASE ReadJob
  <2>1. TypeOK' /\ Phases' BY <1>1, <1>2, <1>3, <1>11 DEF ReadJob, TypeOK, Phases, Gone
  <2>2. Progress' BY <1>1, <1>2, <1>3, <1>11 DEF ReadJob, TypeOK, Phases, Progress, Replied
  <2>3. Undisturbed'
    BY <1>1, <1>2, <1>3, <1>11 DEF ReadJob, TypeOK, Phases, Progress, Undisturbed, Replied
  <2> QED BY <2>1, <2>2, <2>3 DEF IInv
<1>12. CASE Execute
  <2>1. TypeOK' /\ Phases' BY <1>1, <1>2, <1>3, <1>12 DEF Execute, Replying, Complaints, TypeOK, Phases, Gone
  <2>2. Progress' BY <1>1, <1>2, <1>3, <1>12 DEF Execute, Replying, Complaints, TypeOK, Phases, Progress, Replied
  <2>3. Undisturbed'
    BY <1>1, <1>2, <1>3, <1>12 DEF Execute, Replying, Complaints, TypeOK, Phases, Progress, Undisturbed, Replied
  <2> QED BY <2>1, <2>2, <2>3 DEF IInv
<1>13. CASE ExecuteFails
  <2>1. TypeOK' /\ Phases' BY <1>1, <1>2, <1>3, <1>13 DEF ExecuteFails, Replying, TypeOK, Phases, Gone
  <2>2. Progress' BY <1>1, <1>2, <1>3, <1>13 DEF ExecuteFails, Replying, TypeOK, Phases, Progress, Replied
  <2>3. Undisturbed'
    BY <1>1, <1>2, <1>3, <1>13 DEF ExecuteFails, Replying, TypeOK, Phases, Progress, Undisturbed, Replied
  <2> QED BY <2>1, <2>2, <2>3 DEF IInv
<1>14. CASE SayUnit
  <2>1. TypeOK' /\ Phases' BY <1>1, <1>2, <1>3, <1>14 DEF SayUnit, TypeOK, Phases, Gone
  <2>2. Progress' BY <1>1, <1>2, <1>3, <1>14 DEF SayUnit, TypeOK, Phases, Progress, Replied
  <2>3. Undisturbed'
    BY <1>1, <1>2, <1>3, <1>14 DEF SayUnit, TypeOK, Phases, Progress, Undisturbed, Replied
  <2> QED BY <2>1, <2>2, <2>3 DEF IInv
<1>15. CASE ReplyUnit
  <2>1. TypeOK' /\ Phases' BY <1>1, <1>2, <1>3, <1>15 DEF ReplyUnit, TypeOK, Phases, Gone
  <2>2. Progress' BY <1>1, <1>2, <1>3, <1>15 DEF ReplyUnit, TypeOK, Phases, Progress, Replied
  <2>3. Undisturbed'
    BY <1>1, <1>2, <1>3, <1>15 DEF ReplyUnit, TypeOK, Phases, Progress, Undisturbed, Replied
  <2> QED BY <2>1, <2>2, <2>3 DEF IInv
<1>16. CASE Exit
  <2>1. TypeOK' /\ Phases' BY <1>1, <1>2, <1>3, <1>16 DEF Exit, ExitCode, TypeOK, Phases, Gone
  <2>2. Progress' BY <1>1, <1>2, <1>3, <1>16 DEF Exit, ExitCode, TypeOK, Phases, Progress, Replied
  <2>3. Undisturbed'
    BY <1>1, <1>2, <1>3, <1>16 DEF Exit, ExitCode, TypeOK, Phases, Progress, Undisturbed, Replied
  <2> QED BY <2>1, <2>2, <2>3 DEF IInv
<1>17. CASE Die
  <2>1. TypeOK' /\ Phases' BY <1>1, <1>2, <1>3, <1>17 DEF Die, TypeOK, Phases, Gone
  <2>2. Progress' BY <1>1, <1>2, <1>3, <1>17 DEF Die, TypeOK, Phases, Progress, Replied
  <2>3. Undisturbed'
    BY <1>1, <1>2, <1>3, <1>17 DEF Die, TypeOK, Phases, Progress, Undisturbed, Replied
  <2> QED BY <2>1, <2>2, <2>3 DEF IInv
<1>18. CASE Done
  <2>1. TypeOK' /\ Phases' BY <1>1, <1>2, <1>3, <1>18 DEF Done, vars, TypeOK, Phases, Gone
  <2>2. Progress' BY <1>1, <1>2, <1>3, <1>18 DEF Done, vars, TypeOK, Phases, Progress, Replied
  <2>3. Undisturbed'
    BY <1>1, <1>2, <1>3, <1>18 DEF Done, vars, TypeOK, Phases, Progress, Undisturbed, Replied
  <2> QED BY <2>1, <2>2, <2>3 DEF IInv
<1>19. CASE UNCHANGED vars
  BY <1>2, <1>3, <1>19 DEF vars, IInv, TypeOK, Phases, Progress, Undisturbed, Replied, Gone
<1> QED BY <1>4, <1>5, <1>6, <1>7, <1>8, <1>9, <1>10, <1>11, <1>12, <1>13, <1>14, <1>15, <1>16, <1>17, <1>18, <1>19 DEF Next

-----------------------------------------------------------------------------
(* What the answer says.                                                   *)

(* IInv in every state.                                                    *)
LEMMA Invariance == Spec => []IInv
BY InitialStates, InductiveStep, PTL DEF Spec

Answered ==
  CompleteResult /\ StderrKept /\ BrokenDocumentNotBrokenWorker /\ DiagnosticsKept

(* Of one answer, given what is known of the job: the parts of Answered.   *)
Told(a) ==
  /\ a.kind = "ok" =>
       /\ [i \in DOMAIN a.previews |-> a.previews[i].page] = job.opts.pages
       /\ \A i \in DOMAIN a.previews :
            {a.previews[i].size.w, a.previews[i].size.h} \subseteq 1..job.opts.maxPx
       /\ a.pages <= job.opts.maxPages
  /\ a.kind = "failed" =>
       /\ a.of = "page_too_large" =>
            job.opts.maxPx = 0 \/ \E i \in DOMAIN job.doc.pages : IsEndless(job.doc.pages[i])
       /\ HasError(a.diagnostics)
       /\ Elements(Collect(job.doc.warnings)) \subseteq Elements(a.diagnostics)

(* What the parent makes of a result is true of the document.              *)
LEMMA ResultTold ==
  ASSUME job \in Jobs
  PROVE  LET a == FromResult(Compiled) IN
         /\ Told(a)
         /\ a.kind \in {"ok", "workspace"} => Compiled.status = "ok"
         /\ a.kind = "failed" => Compiled.status = "failed"
         /\ a.kind \in {"ok", "workspace", "failed"}
         /\ a.kind = "workspace"
              /\ disk = {Compiled.previews[i].page : i \in DOMAIN Compiled.previews}
            => Cardinality(Elements(job.opts.pages)) # Len(job.opts.pages)
<1> DEFINE a == FromResult(Compiled)
           numbers == [i \in DOMAIN Compiled.previews |-> Compiled.previews[i].page]
<1> SUFFICES
      /\ Told(a)
      /\ a.kind \in {"ok", "workspace"} => Compiled.status = "ok"
      /\ a.kind = "failed" => Compiled.status = "failed"
      /\ a.kind \in {"ok", "workspace", "failed"}
      /\ a.kind = "workspace"
           /\ disk = {Compiled.previews[i].page : i \in DOMAIN Compiled.previews}
         => Cardinality(Elements(job.opts.pages)) # Len(job.opts.pages)
  OBVIOUS
<1>1. Rendered(Compiled, job) \/ Explained(Compiled, job) BY Outcomes DEF Compiled
<1>2. CASE Explained(Compiled, job)
  <2>1. a = [kind |-> "failed", of |-> Compiled.kind, diagnostics |-> Compiled.diagnostics]
    BY <1>2 DEF FromResult, Explained
  <2> HIDE DEF a
  <2> QED BY <1>2, <2>1 DEF Explained, Told
<1>3. CASE Rendered(Compiled, job)
  <2>1. numbers = job.opts.pages
    <3>1. job.opts.pages \in Seq(Nat) BY JobsAssumption
    <3>2. job.opts.pages = [i \in DOMAIN job.opts.pages |-> job.opts.pages[i]] BY <3>1
    <3>3. DOMAIN Compiled.previews = DOMAIN job.opts.pages
          /\ \A i \in DOMAIN job.opts.pages : Compiled.previews[i].page = job.opts.pages[i]
      BY <1>3 DEF Rendered
    <3> QED BY <3>2, <3>3
  <2>2. a = ReadOutputs(Compiled) BY <1>3 DEF FromResult, Rendered
  <2>3. \/ /\ a = [kind |-> "workspace"]
           /\ \/ Cardinality(Elements(numbers)) # Len(numbers)
              \/ ~(Elements(numbers) \subseteq disk)
        \/ a = [kind |-> "ok", pages |-> Compiled.pages, previews |-> Compiled.previews,
                diagnostics |-> Compiled.diagnostics]
    BY <2>2 DEF ReadOutputs
  <2>4. disk = {Compiled.previews[i].page : i \in DOMAIN Compiled.previews}
          => Elements(numbers) \subseteq disk
    BY DEF Elements
  <2> HIDE DEF a
  <2>5. CASE a = [kind |-> "workspace"] /\ (\/ Cardinality(Elements(numbers)) # Len(numbers)
                                            \/ ~(Elements(numbers) \subseteq disk))
    <3> HIDE DEF numbers
    <3> QED BY <1>3, <2>1, <2>4, <2>5 DEF Told, Rendered
  <2>6. CASE a = [kind |-> "ok", pages |-> Compiled.pages, previews |-> Compiled.previews,
                  diagnostics |-> Compiled.diagnostics]
    <3>1. Told(a)
      <4>1. a.kind = "ok" /\ a.previews = Compiled.previews /\ a.pages = Compiled.pages BY <2>6
      <4>2. [i \in DOMAIN a.previews |-> a.previews[i].page] = job.opts.pages BY <2>1, <4>1
      <4>3. \A i \in DOMAIN a.previews :
              {a.previews[i].size.w, a.previews[i].size.h} \subseteq 1..job.opts.maxPx
        BY <1>3, <4>1 DEF Rendered
      <4>4. a.pages <= job.opts.maxPages BY <1>3, <4>1 DEF Rendered
      <4> QED BY <4>1, <4>2, <4>3, <4>4 DEF Told
    <3> QED BY <1>3, <2>6, <3>1 DEF Rendered
  <2> QED BY <2>3, <2>5, <2>6
<1> QED BY <1>1, <1>2, <1>3

(* The answer given when the worker has ended.                             *)
LEMMA JoinAnswers ==
  ASSUME IInv, Join
  PROVE  Answered'
<1>1. /\ job \in Jobs /\ job.units \in Nat \ {0} /\ job.replyUnits \in Nat \ {0}
      /\ TypeOK /\ Phases /\ Progress /\ Undisturbed
  BY JobsAssumption DEF IInv, Phases
<1>2. /\ job' = job /\ exit' = exit /\ said' = said /\ faults' = faults /\ Compiled' = Compiled
      /\ answer' = Classify /\ parent = "pumping" /\ Gone /\ stdout = 0 /\ stderr = 0
  BY DEF Join, Finish, workerVars, Compiled
<1>3. said = err
  BY <1>1, <1>2 DEF TypeOK, Phases
<1>4. exit # "none" BY <1>1, <1>2 DEF Progress, Gone
<1>5. CASE exit # "0" \/ out = 0
  <2>1. answer' = [kind |-> "died", stderr |-> said] BY <1>2, <1>3, <1>5 DEF Classify
  <2>2. faults = {} => job.replyUnits > MaxFrame
    <3> SUFFICES ASSUME faults = {} PROVE job.replyUnits > MaxFrame OBVIOUS
    <3>1. exit = "0" => out = job.replyUnits
      BY <1>1, <1>2 DEF Undisturbed, Phases
    <3> QED BY <1>1, <1>4, <1>5, <3>1 DEF Undisturbed
  <2> QED
    BY <1>2, <2>1, <2>2
    DEF Answered, CompleteResult, StderrKept, BrokenDocumentNotBrokenWorker, DiagnosticsKept
<1>6. CASE exit = "0" /\ out # 0
  <2>1. sent # "epipe" BY <1>1, <1>6 DEF Progress, Phases, Replied
  <2>2. answer' = FromResult(result) BY <1>2, <1>6, <2>1 DEF Classify
  <2>3. result \in {Compiled, Internal} BY <1>1, <1>6 DEF Progress, Replied
  <2>4. faults = {} =>
          /\ result = Compiled
          /\ Compiled.status = "ok" =>
               disk = {Compiled.previews[i].page : i \in DOMAIN Compiled.previews}
    BY <1>1, <1>6 DEF Undisturbed, Replied
  <2>5. StderrKept' BY <1>2, <1>6 DEF StderrKept
  <2>6. CASE result = Compiled
    <3> DEFINE a == FromResult(Compiled)
    <3>1. /\ Told(a)
          /\ a.kind \in {"ok", "workspace"} => Compiled.status = "ok"
          /\ a.kind = "failed" => Compiled.status = "failed"
          /\ a.kind \in {"ok", "workspace", "failed"}
          /\ a.kind = "workspace"
               /\ disk = {Compiled.previews[i].page : i \in DOMAIN Compiled.previews}
             => Cardinality(Elements(job.opts.pages)) # Len(job.opts.pages)
      BY <1>1, ResultTold
    <3>2. answer' = a BY <2>2, <2>6
    <3> HIDE DEF a
    <3>3. CompleteResult' /\ DiagnosticsKept'
      BY <1>2, <3>1, <3>2 DEF Told, CompleteResult, DiagnosticsKept
    <3>4. BrokenDocumentNotBrokenWorker'
      BY <1>2, <2>4, <3>1, <3>2 DEF BrokenDocumentNotBrokenWorker
    <3> QED BY <2>5, <3>3, <3>4 DEF Answered
  <2>7. CASE result = Internal /\ result # Compiled
    <3>1. answer' = [kind |-> "internal"] /\ faults # {} BY <2>2, <2>4, <2>7 DEF FromResult, Internal
    <3> QED
      BY <1>2, <2>5, <3>1
      DEF Answered, CompleteResult, BrokenDocumentNotBrokenWorker, DiagnosticsKept
  <2> QED BY <2>3, <2>6, <2>7
<1> QED BY <1>5, <1>6

(* The answers given before a worker could say anything, or too late.      *)
LEMMA OtherAnswers ==
  ASSUME IInv, StageFails \/ Deadline
  PROVE  Answered'
<1>1. /\ answer'.kind \in {"workspace", "io", "timeout"}
      /\ answer'.kind = "io" => job'.units > MaxFrame /\ exit' = "none"
      /\ answer'.kind # "io" => faults' # {}
      /\ answer'.kind # "timeout" => exit' = "none"
  BY DEF StageFails, Deadline, Finish, IInv, Phases, Progress, TypeOK
<1> QED
  BY <1>1 DEF Answered, CompleteResult, StderrKept, BrokenDocumentNotBrokenWorker, DiagnosticsKept

(* A compile is answered once, and rightly.                                *)
LEMMA AnsweringStep == IInv /\ IInv' /\ Answered /\ [Next]_vars => Answered'
<1> SUFFICES ASSUME IInv, IInv', Answered, [Next]_vars PROVE Answered' OBVIOUS
<1>1. CASE Join BY <1>1, JoinAnswers
<1>2. CASE StageFails \/ Deadline BY <1>2, OtherAnswers
<1>3. CASE UNCHANGED vars
  <2>1. /\ answer' = answer /\ job' = job /\ parent' = parent /\ exit' = exit /\ said' = said
        /\ faults' = faults /\ Compiled' = Compiled
    BY <1>3 DEF vars, parentVars, workerVars, Compiled
  <2> QED
    BY <2>1
    DEF Answered, CompleteResult, StderrKept, BrokenDocumentNotBrokenWorker, DiagnosticsKept
<1>4. CASE Next /\ ~Join /\ ~StageFails /\ ~Deadline /\ ~UNCHANGED vars
  <2>1. parent' # "done"
    BY <1>4
    DEF Next, Stage, SendUnit, ReadOut, ReadErr, ReadJob, Execute, ExecuteFails, SayUnit, ReplyUnit,
        Exit, Die, Done, IInv, Phases, TypeOK, parentVars
  <2>2. answer' = NoAnswer BY <2>1 DEF IInv, Phases
  <2> QED
    BY <2>1, <2>2
    DEF Answered, CompleteResult, StderrKept, BrokenDocumentNotBrokenWorker, DiagnosticsKept, NoAnswer
<1> QED BY <1>1, <1>2, <1>3, <1>4

(* Every answer is right.                                                  *)
LEMMA AnswersRight == Spec => []Answered
<1>1. Init => Answered
  BY DEF Init, NoAnswer, Answered, CompleteResult, StderrKept, BrokenDocumentNotBrokenWorker,
         DiagnosticsKept
<1> QED BY <1>1, Invariance, AnsweringStep, PTL DEF Spec

(* Worker's TypeOK: parent and worker are in one of their phases, no pipe  *)
(* holds more than it can, and no unit is lost between the two.            *)
THEOREM TypeCorrect == Spec => []TypeOK
<1>1. IInv => TypeOK BY DEF IInv
<1> QED BY <1>1, Invariance, PTL

(* Worker's CompleteResult: a document is answered for with every preview  *)
(* asked for, each within max_px, whatever the page sizes and scale; and a *)
(* page is found too large only where no scale helps (compile.rs           *)
(* clamp_scale and render_previews).                                       *)
THEOREM ResultsComplete == Spec => []CompleteResult
<1>1. Answered => CompleteResult BY DEF Answered
<1> QED BY <1>1, AnswersRight, PTL

(* Worker's StderrKept: however job, reply and stderr interleave and       *)
(* whenever the worker dies, the parent reports all it wrote to stderr     *)
(* (spawn.rs, the pump and classification of compile).                     *)
THEOREM StderrNeverLost == Spec => []StderrKept
<1>1. Answered => StderrKept BY DEF Answered
<1> QED BY <1>1, AnswersRight, PTL

(* Worker's BrokenDocumentNotBrokenWorker: unless a disk fails, a worker   *)
(* dies or the deadline passes, the kind of the answer is that of the      *)
(* document (worker.rs run, spawn.rs classification).                      *)
THEOREM DocumentsToldFromWorkers == Spec => []BrokenDocumentNotBrokenWorker
<1>1. Answered => BrokenDocumentNotBrokenWorker BY DEF Answered
<1> QED BY <1>1, AnswersRight, PTL

(* Worker's DiagnosticsKept: a failed document comes with an error and     *)
(* with every warning gathered before it failed (compile.rs                *)
(* CompileError::diagnostics).                                             *)
THEOREM FailuresExplained == Spec => []DiagnosticsKept
<1>1. Answered => DiagnosticsKept BY DEF Answered
<1> QED BY <1>1, AnswersRight, PTL
=============================================================================
