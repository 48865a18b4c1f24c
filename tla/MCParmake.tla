------------------------------ MODULE MCParmake ------------------------------
(* Makefiles for TLC.                                                       *)
EXTENDS MakeRun

CONSTANTS a, b, c, d, e, f, g

Line(targets, deps, commands) ==
  [targets |-> targets, deps |-> deps, commands |-> commands]

\* b and c need d and can then be run at the same time; e is not needed.
Diamond == << Line(<<e>>, <<a>>, 1), Line(<<a>>, <<b, c>>, 1), Line(<<b>>, <<d>>, 1),
              Line(<<c>>, <<f, d>>, 1), Line(<<d>>, <<>>, 1) >>

\* A line with two targets, files that are newer and older than what is made
\* from them, and dependencies further up and down in the makefile.
Files == << Line(<<b, e>>, <<f>>, 1), Line(<<a>>, <<e, b, d>>, 2), Line(<<c>>, <<a>>, 1),
            Line(<<d>>, <<f>>, 0) >>

\* g is no file: reached only when b is done.
Missing == << Line(<<a>>, <<b, g>>, 1), Line(<<b>>, <<>>, 1) >>

\* Two rules for b: the first gets what both have, the second is empty.
Twice == << Line(<<a>>, <<b, c>>, 1), Line(<<b>>, <<c>>, 1), Line(<<b>>, <<d>>, 1),
            Line(<<c>>, <<>>, 0), Line(<<d>>, <<f>>, 0) >>

InputsMC == {[makefile |-> Diamond, targets |-> <<a>>],
             [makefile |-> Files, targets |-> <<c>>],
             [makefile |-> Files, targets |-> <<>>],
             [makefile |-> Missing, targets |-> <<>>],
             [makefile |-> Twice, targets |-> <<>>]}

NamesMC == {a, b, c, d, e, f, g}

\* f is newer than e and older than b.
MtimeMC == [n \in NamesMC |-> IF n = f THEN 2 ELSE IF n = b THEN 3 ELSE IF n = e THEN 1 ELSE 0]
=============================================================================
