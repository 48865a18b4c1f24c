------------------------------- MODULE MakeRun -------------------------------
(***************************************************************************)
(* A whole run of parmake: main parses a makefile for the targets of the   *)
(* command line, and the workers make what the parser handed over.         *)
(***************************************************************************)
EXTENDS Parmake, MakeParser

CONSTANT Inputs   \* the runs: [makefile, targets] records

VARIABLE input

Parsed == parser_parse_makefile(input.makefile, input.targets)

\* A line of a makefile begins with a name, so that it has a target.
RuleLine == [targets : Seq(Names) \ {<<>>}, deps : Seq(Names), commands : Nat]

ASSUME InputsAssumption == Inputs \subseteq [makefile : Seq(RuleLine), targets : Seq(Names)]

RunInit == /\ input \in Inputs
           /\ InitWith(Parsed)

RunNext == Next /\ UNCHANGED input

RunSpec == RunInit /\ [][RunNext]_<<vars, input>> /\ Fairness

-----------------------------------------------------------------------------
\* How many rules for a name a queue of rules has.
CountIn(q, name) == Cardinality({i \in DOMAIN q : q[i].target = name})

\* How many workers have a rule for a name in hand.
CountHeld(name) == Cardinality({t \in InHand : rule_ptr[t].target = name})

\* Every rule is in one place: among the rules left, in the hands of a worker,
\* or done.  None is made twice and none is dropped (parmake.c:187-213,
\* 317-321).
EachRuleOnce ==
  \A name \in Names :
    CountIn(Parsed, name) =
      CountIn(new_rules, name) + CountIn(ready_rules, name) + CountHeld(name)

\* No command of a rule runs before those of the rules it depends on: while a
\* worker has a rule in hand, no rule for one of its dependencies is left or in
\* the hands of another (parmake.c:143-185, 187-213).  Of a name with two rules
\* this is not so: new_dependency and new_command give all to the first of them
\* (parmake.c:71-98), and the second, which is empty, is run at once and makes the
\* name ready.
RunsAfterDeps ==
  \A t \in InHand : \A i \in DOMAIN rule_ptr[t].deps :
    LET name == rule_ptr[t].deps[i] IN
    CountIn(Parsed, name) <= 1 => CountIn(new_rules, name) = 0 /\ CountHeld(name) = 0

\* When parmake returns 0 it has made the rules that the targets need and no
\* other (parser.c:98-139, parmake.c:410-425).
MadeNeeded ==
  Returned =>
    {r.target : r \in In(ready_rules)} =
      {r.target : r \in In(ReadRules(input.makefile))}
        \cap Needed(input.makefile, input.targets)

\* parmake ends: with a failure, or with every worker joined.  No makefile of
\* the runs has circular dependencies (doc/parmake.html excludes them).
Finishes == <>(exited \/ Returned)
=============================================================================
