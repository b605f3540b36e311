------------------------------ MODULE MCWorker ------------------------------
(* Jobs for Worker: documents that compile or fail at each stage, frames   *)
(* larger than a pipe and larger than the limit, chatter on stderr.        *)
EXTENDS Worker

MainFile == [path |-> <<"main.typ">>, bytes |-> 1, text |-> TRUE]
LogoFile == [path |-> <<"logo">>, bytes |-> 1, text |-> FALSE]
Need(path, as, package) == [path |-> path, as |-> as, package |-> package]
Raw(severity, what, span) ==
  [severity |-> severity, what |-> what, span |-> span, file |-> <<"main.typ">>, line |-> 1]
MCReports ==
  {Raw("warning", "font", "place"), Raw("warning", "layout", "nowhere"),
   Raw("error", "syntax", "file"), Raw("error", "pdf", "nowhere")}
A4 == [w |-> 2, h |-> 3]
Banner == [w |-> 1, h |-> 1000]
Roll == [w |-> 2, h |-> Endless]

Good ==
  [needs |-> {Need(<<"logo">>, "file", FALSE)}, errors |-> <<>>,
   warnings |-> <<Raw("warning", "font", "place"), Raw("warning", "layout", "nowhere")>>,
   pages |-> <<A4, Banner>>, export |-> <<>>, unencodable |-> {}]
Opts == [maxPages |-> 2, pages |-> <<1, 2>>, millis |-> 1000, maxPx |-> 4]
Plain ==
  [files |-> <<MainFile, LogoFile>>, main |-> <<"main.typ">>, maxBytes |-> 4, doc |-> Good,
   opts |-> Opts, units |-> 2, replyUnits |-> 2, chatter |-> 0, runaway |-> FALSE]

MCJobs ==
  {Plain,
   [Plain EXCEPT !.units = 3, !.chatter = 3, !.replyUnits = 3],
   [Plain EXCEPT !.units = 4], [Plain EXCEPT !.replyUnits = 4],
   [Plain EXCEPT !.runaway = TRUE], [Plain EXCEPT !.main = <<"logo">>],
   [Plain EXCEPT !.doc.errors = <<Raw("error", "syntax", "file")>>, !.chatter = 2],
   [Plain EXCEPT !.doc.needs = {Need(<<"preview">>, "source", TRUE)}],
   [Plain EXCEPT !.doc.export = <<Raw("error", "pdf", "nowhere")>>],
   [Plain EXCEPT !.doc.unencodable = {1}], [Plain EXCEPT !.doc.pages = <<A4, Roll>>],
   [Plain EXCEPT !.opts.maxPages = 1], [Plain EXCEPT !.opts.pages = <<1, 1>>],
   [Plain EXCEPT !.opts.pages = <<0>>], [Plain EXCEPT !.opts.pages = <<>>],
   [Plain EXCEPT !.opts.maxPx = 0], [Plain EXCEPT !.opts.millis = 0]}
=============================================================================
