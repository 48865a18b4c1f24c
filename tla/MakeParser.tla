----------------------------- MODULE MakeParser -----------------------------
(***************************************************************************)
(* How parmake gets its rules (mp5): parser.c reads the lines of a         *)
(* makefile, keeps the rules that the targets of the command line need,    *)
(* and hands them over by three callbacks of parmake.c, which rebuild them *)
(* by the name of their target.                                            *)
(*                                                                         *)
(* A makefile is a sequence of its rule lines, each with the commands that *)
(* follow it: [targets, deps, commands].  A rule has one target.  Names    *)
(* are opaque, and of the commands of a rule only their number matters.    *)
(***************************************************************************)
EXTENDS Integers, SequencesExt

\* The rules of one line: each of its targets gets all its dependencies and
\* commands.
LineRules(line) ==
  [i \in DOMAIN line.targets |->
     [target |-> line.targets[i], deps |-> line.deps, commands |-> line.commands]]

ReadRules(makefile) == FlattenSeq([i \in DOMAIN makefile |-> LineRules(makefile[i])])

\* Without targets on the command line the targets of the first line are run.
RunTargets(makefile, targets) ==
  IF targets # <<>> \/ makefile = <<>> THEN targets ELSE makefile[1].targets

\* Is the rule's target a dependency of one of these rules?
findMatch(rule, valid) ==
  \E i \in DOMAIN valid : rule.target \in ToSet(valid[i].deps)

\* filterOnTargets: the rules of the targets, then, in passes over the others
\* until one finds no more, the rules they depend on.  A rule taken in a pass
\* counts for the rest of that pass.  There are no more passes that find a rule
\* than rules, and a pass after one that found none changes nothing.
Take(state, rule) == [valid |-> Append(state.valid, rule), rest |-> state.rest]
Leave(state, rule) == [valid |-> state.valid, rest |-> Append(state.rest, rule)]

OfTargets(rules, targets) ==
  FoldLeft(LAMBDA s, rule : IF rule.target \in ToSet(targets) THEN Take(s, rule) ELSE Leave(s, rule),
           [valid |-> <<>>, rest |-> <<>>], rules)

Search(state) ==
  FoldLeft(LAMBDA s, rule : IF findMatch(rule, s.valid) THEN Take(s, rule) ELSE Leave(s, rule),
           [valid |-> state.valid, rest |-> <<>>], state.rest)

\* Slip: one pass over the other rules.
filterOnTargets_one_pass(rules, targets) == Search(OfTargets(rules, targets)).valid

filterOnTargets(rules, targets) ==
  LET after[n \in 0 .. Len(rules)] ==
        IF n = 0 THEN OfTargets(rules, targets) ELSE Search(after[n - 1])
  IN  after[Len(rules)].valid

\* new_targets makes a rule; new_dependency and new_command look for the first
\* rule with the name of the target, and so give everything to that one.
Callbacks(rules) ==
  [i \in DOMAIN rules |->
     LET name   == rules[i].target
         first  == \A j \in 1 .. i - 1 : rules[j].target # name
         deps   == [j \in DOMAIN rules |-> IF rules[j].target = name THEN rules[j].deps ELSE <<>>]
         add(n, rule) == IF rule.target = name THEN n + rule.commands ELSE n
     IN  [target   |-> name,
          deps     |-> IF first THEN FlattenSeq(deps) ELSE <<>>,
          commands |-> IF first THEN FoldLeft(add, 0, rules) ELSE 0]]

parser_parse_makefile(makefile, targets) ==
  Callbacks(filterOnTargets(ReadRules(makefile), RunTargets(makefile, targets)))

-----------------------------------------------------------------------------
\* What the parser is for: the least set of names that contains the targets
\* and, with a name, the dependencies of its rules.
Needed(makefile, targets) ==
  LET rules  == ToSet(ReadRules(makefile))
      names  == ToSet(RunTargets(makefile, targets))
                  \cup UNION {{r.target} \cup ToSet(r.deps) : r \in rules}
      Closed(S) == /\ ToSet(RunTargets(makefile, targets)) \subseteq S
                   /\ \A r \in rules : r.target \in S => ToSet(r.deps) \subseteq S
  IN  {n \in names : \A S \in SUBSET names : Closed(S) => n \in S}
=============================================================================
