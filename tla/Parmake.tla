------------------------------- MODULE Parmake -------------------------------
(***************************************************************************)
(* The worker threads of parmake (mp5/parmake.c).  They take rules from    *)
(* new_rules under mutex1, run their commands without a lock, and put them *)
(* into ready_rules under mutex2.  A worker that finds no rule to run      *)
(* waits on cond, which it releases mutex1 for; a worker that has finished *)
(* a rule broadcasts on cond, but has mutex2 and not mutex1 then.          *)
(*                                                                         *)
(* A section under mutex2 is one step.  deps_are_ready enters one for each *)
(* dependency; since ready_rules only grows its answer for a rule is the   *)
(* one it would give at the moment of its last section, so that the scan   *)
(* of new_rules is one step per rule.                                      *)
(***************************************************************************)
EXTENDS Integers, Sequences, FiniteSets

CONSTANTS Workers,
          Names,     \* targets and files
          Mtime,     \* Mtime[n]: modification time of the file n, 0: no file
          None,      \* no worker, no rule
          Spurious   \* bound: how often pthread_cond_wait returns unasked

ASSUME MtimeAssumption == Mtime \in [Names -> Nat]
ASSUME SpuriousAssumption == Spurious \in Nat

Rule == [target : Names, deps : Seq(Names), commands : Nat]

ASSUME NoneAssumption == None \notin Workers /\ None \notin Rule
ASSUME WorkersAssumption == Workers # {} /\ IsFiniteSet(Workers)   \* -j is at least 1

VARIABLES new_rules,    \* the rules nobody has taken, in order
          all_targets,  \* the names of all rules
          ready_rules,  \* the rules that are done, in order
          mutex1,       \* its owner, or None
          pc,           \* where each worker is in rule_server
          pos,          \* how far it has got in its scan of new_rules
          rule_ptr,     \* the rule it has taken
          cmd,          \* how many of the commands of that rule have run
          spurious,     \* how often a wait has ended unasked
          exited        \* has a worker called exit(1)

vars == <<new_rules, all_targets, ready_rules, mutex1, pc, pos, rule_ptr, cmd,
          spurious, exited>>
rules == <<new_rules, all_targets, ready_rules>>
work == <<rule_ptr, cmd>>

PC == {"lock", "scan", "wait", "run", "finish", "ended"}
Busy == {"run", "finish"}

TypeOK == /\ new_rules \in Seq(Rule)
          /\ all_targets \in SUBSET Names
          /\ ready_rules \in Seq(Rule)
          /\ mutex1 \in Workers \cup {None}
          /\ pc \in [Workers -> PC]
          /\ pos \in [Workers -> Nat \ {0}]
          /\ rule_ptr \in [Workers -> Rule \cup {None}]
          /\ cmd \in [Workers -> Nat]
          /\ spurious \in 0 .. Spurious
          /\ exited \in BOOLEAN

\* The rules in a queue of rules.
In(q) == {q[i] : i \in DOMAIN q}

\* main has parsed the makefile and creates the threads.
InitWith(parsed) == /\ new_rules = parsed
                    /\ all_targets = {r.target : r \in In(parsed)}
                    /\ ready_rules = <<>>
                    /\ mutex1 = None
                    /\ pc = [t \in Workers |-> "lock"]
                    /\ pos = [t \in Workers |-> 1]
                    /\ rule_ptr = [t \in Workers |-> None]
                    /\ cmd = [t \in Workers |-> 0]
                    /\ spurious = 0
                    /\ exited = FALSE

Init == \E parsed \in Seq(Rule) : InitWith(parsed)

Goto(t, l) == pc' = [pc EXCEPT ![t] = l]

-----------------------------------------------------------------------------
(* Which rules can run, and which need not.                                *)

is_rule(name) == name \in all_targets

rule_is_ready(name) == \E r \in In(ready_rules) : r.target = name

\* A dependency that is not the target of a rule must be a file.
NoFile(name) == ~ is_rule(name) /\ Mtime[name] = 0

deps_are_ready(deps) == \A i \in DOMAIN deps : is_rule(deps[i]) => rule_is_ready(deps[i])

\* deps_are_ready exits when it comes to a missing file before it comes to a
\* rule that is not ready.
DepsExit(deps) ==
  \E i \in DOMAIN deps :
    /\ NoFile(deps[i])
    /\ \A j \in 1 .. i - 1 : is_rule(deps[j]) => rule_is_ready(deps[j])

all_deps_are_files(rule) == rule.deps # <<>> /\ \A i \in DOMAIN rule.deps : ~ is_rule(rule.deps[i])

\* The file is newer than everything it is made from: nothing is run.
UpToDate(rule) ==
  /\ all_deps_are_files(rule)
  /\ Mtime[rule.target] # 0
  /\ \A i \in DOMAIN rule.deps : Mtime[rule.deps[i]] < Mtime[rule.target]

-----------------------------------------------------------------------------
(* rule_server                                                             *)

Lock(t) == /\ pc[t] = "lock"
           /\ mutex1 = None
           /\ mutex1' = t
           /\ pos' = [pos EXCEPT ![t] = 1]
           /\ Goto(t, "scan")
           /\ UNCHANGED <<rules, work, spurious, exited>>

\* The scan of fetch_rules_torun has come to a rule.
At(t, rule) == pc[t] = "scan" /\ pos[t] \in DOMAIN new_rules /\ rule = new_rules[pos[t]]

\* Slip: a rule is run when one of its dependencies is there.
Fetch_any_dep(t) ==
  \E rule \in In(new_rules) :
    /\ At(t, rule)
    /\ rule.deps = <<>> \/ \E i \in DOMAIN rule.deps : deps_are_ready(<<rule.deps[i]>>)
    /\ new_rules' = [i \in 1 .. Len(new_rules) - 1 |-> new_rules[IF i < pos[t] THEN i ELSE i + 1]]
    /\ mutex1' = None
    /\ rule_ptr' = [rule_ptr EXCEPT ![t] = rule]
    /\ cmd' = [cmd EXCEPT ![t] = 0]
    /\ Goto(t, IF UpToDate(rule) THEN "finish" ELSE "run")
    /\ UNCHANGED <<all_targets, ready_rules, pos, spurious, exited>>

\* Slip: the rule that is taken stays in new_rules.
Fetch_not_removed(t) ==
  \E rule \in In(new_rules) :
    /\ At(t, rule)
    /\ deps_are_ready(rule.deps) /\ ~ DepsExit(rule.deps)
    /\ mutex1' = None
    /\ rule_ptr' = [rule_ptr EXCEPT ![t] = rule]
    /\ cmd' = [cmd EXCEPT ![t] = 0]
    /\ Goto(t, IF UpToDate(rule) THEN "finish" ELSE "run")
    /\ UNCHANGED <<rules, pos, spurious, exited>>

\* The first rule that is ready is taken.
Fetch(t) ==
  \E rule \in In(new_rules) :
    /\ At(t, rule)
    /\ deps_are_ready(rule.deps) /\ ~ DepsExit(rule.deps)
    /\ new_rules' = [i \in 1 .. Len(new_rules) - 1 |-> new_rules[IF i < pos[t] THEN i ELSE i + 1]]
    /\ mutex1' = None
    /\ rule_ptr' = [rule_ptr EXCEPT ![t] = rule]
    /\ cmd' = [cmd EXCEPT ![t] = 0]
    /\ Goto(t, IF UpToDate(rule) THEN "finish" ELSE "run")
    /\ UNCHANGED <<all_targets, ready_rules, pos, spurious, exited>>

\* Slip: a rule is skipped after one that cannot run.
Pass_skips(t) ==
  \E rule \in In(new_rules) :
    /\ At(t, rule)
    /\ ~ deps_are_ready(rule.deps) /\ ~ DepsExit(rule.deps)
    /\ pos' = [pos EXCEPT ![t] = @ + 2]
    /\ UNCHANGED <<rules, mutex1, pc, work, spurious, exited>>

Pass(t) ==
  \E rule \in In(new_rules) :
    /\ At(t, rule)
    /\ ~ deps_are_ready(rule.deps) /\ ~ DepsExit(rule.deps)
    /\ pos' = [pos EXCEPT ![t] = @ + 1]
    /\ UNCHANGED <<rules, mutex1, pc, work, spurious, exited>>

FileMissing(t) ==
  \E rule \in In(new_rules) :
    /\ At(t, rule)
    /\ DepsExit(rule.deps)
    /\ exited' = TRUE
    /\ UNCHANGED <<rules, mutex1, pc, pos, work, spurious>>

\* No rule to run: pthread_cond_wait if there are rules at all.
Nothing(t) == /\ pc[t] = "scan"
              /\ pos[t] > Len(new_rules)
              /\ mutex1' = None
              /\ Goto(t, IF Len(new_rules) > 0 THEN "wait" ELSE "ended")
              /\ UNCHANGED <<rules, pos, work, spurious, exited>>

SpuriousWake(t) == /\ pc[t] = "wait"
                   /\ spurious < Spurious
                   /\ spurious' = spurious + 1
                   /\ Goto(t, "lock")
                   /\ UNCHANGED <<rules, mutex1, pos, work, exited>>

\* run_the_rule: the next command, which succeeds; or fails and ends parmake.
RunCommand(t) == /\ pc[t] = "run"
                 /\ cmd[t] < rule_ptr[t].commands
                 /\ cmd' = [cmd EXCEPT ![t] = @ + 1]
                 /\ UNCHANGED <<rules, mutex1, pc, pos, rule_ptr, spurious, exited>>

CommandFails(t) == /\ pc[t] = "run"
                   /\ cmd[t] < rule_ptr[t].commands
                   /\ exited' = TRUE
                   /\ UNCHANGED <<rules, mutex1, pc, pos, work, spurious>>

CommandsDone(t) == /\ pc[t] = "run"
                   /\ cmd[t] = rule_ptr[t].commands
                   /\ Goto(t, "finish")
                   /\ UNCHANGED <<rules, mutex1, pos, work, spurious, exited>>

\* Slip: pthread_cond_signal, which wakes one worker at most.
Finish_signal(t) ==
  /\ pc[t] = "finish"
  /\ ready_rules' = Append(ready_rules, rule_ptr[t])
  /\ rule_ptr' = [rule_ptr EXCEPT ![t] = None]
  /\ \E u \in {v \in Workers : pc[v] = "wait"} \cup {t} :
       pc' = [v \in Workers |-> IF v \in {t, u} THEN "lock" ELSE pc[v]]
  /\ UNCHANGED <<new_rules, all_targets, mutex1, pos, cmd, spurious, exited>>

\* Everybody who waits on cond now is woken, and goes for mutex1 again; the
\* worker itself starts over.
Finish(t) == /\ pc[t] = "finish"
             /\ ready_rules' = Append(ready_rules, rule_ptr[t])
             /\ rule_ptr' = [rule_ptr EXCEPT ![t] = None]
             /\ pc' = [u \in Workers |-> IF u = t \/ pc[u] = "wait" THEN "lock" ELSE pc[u]]
             /\ UNCHANGED <<new_rules, all_targets, mutex1, pos, cmd, spurious, exited>>

-----------------------------------------------------------------------------
Step(t) == \/ Lock(t) \/ Fetch(t) \/ Pass(t) \/ FileMissing(t) \/ Nothing(t)
           \/ RunCommand(t) \/ CommandsDone(t) \/ Finish(t)

\* main joins the workers and returns 0.
Returned == ~ exited /\ \A t \in Workers : pc[t] = "ended"

Next == \/ /\ ~ exited
           /\ \E t \in Workers : Step(t) \/ CommandFails(t) \/ SpuriousWake(t)
        \/ (exited \/ Returned) /\ UNCHANGED vars

\* A worker that can run does, and commands end.
Fairness == \A t \in Workers : WF_vars(~ exited /\ Step(t))

Spec == Init /\ [][Next]_vars

-----------------------------------------------------------------------------
(* What holds.                                                             *)

\* The rules a worker has in hand.
InHand == {t \in Workers : pc[t] \in Busy}

\* What a worker went by when it took its rule stays true: each dependency with
\* a rule has a rule in ready_rules (parmake.c:161-185, 187-213).
DepsReady ==
  \A t \in InHand : \A i \in DOMAIN rule_ptr[t].deps :
    is_rule(rule_ptr[t].deps[i]) => rule_is_ready(rule_ptr[t].deps[i])

\* A worker puts a rule into ready_rules only when all its commands have
\* succeeded, or none had to run (parmake.c:222-233, 303-319).
CommandsRun ==
  \A t \in Workers : pc[t] = "finish" =>
    UpToDate(rule_ptr[t]) \/ cmd[t] = rule_ptr[t].commands

\* A rule that could run now.
Runnable(i) == i \in DOMAIN new_rules /\ deps_are_ready(new_rules[i].deps)

\* While a rule can run, some worker is awake that has not looked at it or has
\* not looked since: although a broadcast can miss a worker that has scanned
\* new_rules and not yet gone to sleep, the rule is not forgotten
\* (parmake.c:285-288, 318-321).
ReadyIsSeen ==
  \A i \in DOMAIN new_rules : Runnable(i) =>
    \E t \in Workers : \/ pc[t] \in Busy \cup {"lock"}
                       \/ pc[t] = "scan" /\ pos[t] <= i

\* A worker sleeps only while rules are left whose end will wake it
\* (parmake.c:287, 320).
SleeperIsWoken ==
  (\E t \in Workers : pc[t] = "wait") => new_rules # <<>> \/ InHand # {}

\* Only the owner of mutex1 scans new_rules.
ScanLocked == \A t \in Workers : mutex1 = t <=> pc[t] = "scan"

\* A worker is in hand of a rule exactly when it is busy, and ends only when
\* no rule is left.
HandAgrees == \A t \in Workers : /\ pc[t] \in Busy <=> rule_ptr[t] # None
                                 /\ pc[t] = "ended" => new_rules = <<>>

\* The inductive invariant.
IInv == /\ TypeOK /\ ScanLocked /\ HandAgrees
        /\ DepsReady /\ CommandsRun /\ ReadyIsSeen /\ SleeperIsWoken
=============================================================================
