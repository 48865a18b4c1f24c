---------------------------- MODULE DrmPrevention ----------------------------
(***************************************************************************)
(* Deadlock resilient mutexes in the modes without a wait-for graph        *)
(* (libdrm.c): NO_DEADLOCK_CHECKING, a plain pthread mutex, and            *)
(* DEADLOCK_PREVENTION, which refuses a mutex to a thread that has one     *)
(* with a greater r_id.  Which thread has a mutex is read from its         *)
(* lockflag and t_id, without a lock, while owners write them; and the     *)
(* queue of all mutexes is walked while main adds to it and removes from   *)
(* it (drm_init, drm_destroy), without a lock too.                         *)
(***************************************************************************)
EXTENDS Queue

CONSTANTS Threads,
          None,     \* no thread: the 0 of t_id, and no owner of a mutex
          N,        \* bound: how many mutexes main makes: r_id 1 to N
          Relock,   \* may a client lock a mutex it already has
          Calls     \* bound: how often each thread calls drm_lock

ASSUME NAssumption == N \in Nat \ {0}
ASSUME RelockAssumption == Relock \in BOOLEAN
ASSUME CallsAssumption == Calls \in [Threads -> Nat]
ASSUME NoneAssumption == None \notin Threads

Resources == 1 .. N

VARIABLES runmode,   \* the mode, set once by drm_setmode
          ID,        \* the r_id of the last drm_init
          q_mutex,   \* the queue of mutexes, each by its r_id
          lockflag,  \* lockflag[r], t_id[r]: what the drm_t says of its owner
          t_id,
          mu,        \* mu[r]: the owner of the drm_t's pthread mutex, or None
          pc,        \* where each thread is in drm_lock or drm_unlock
          req,       \* the argument of that call
          at,        \* how many entries of q_mutex its scan has looked at
          astray,    \* the threads under whose last scan drm_destroy has removed
                     \* an entry that it had come to
          held,      \* what each client has locked
          calls,     \* how often each client has called drm_lock
          exited     \* has EXITERROR ended the process

vars == <<runmode, ID, q_mutex, lockflag, t_id, mu, pc, req, at, astray, held,
          calls, exited>>
record == <<lockflag, t_id>>
client == <<held, calls>>
mutexes == <<runmode, ID, q_mutex>>
scan == <<at, astray>>

Preventing == runmode = "DEADLOCK_PREVENTION"

PC == {"client", "scan", "mutex", "set_flag", "set_id", "clear_flag", "clear_id",
       "release", "crashed"}

TypeOK == /\ runmode \in {"NO_DEADLOCK_CHECKING", "DEADLOCK_PREVENTION"}
          /\ ID \in 0 .. N
          /\ q_mutex \in Seq(Resources)
          /\ lockflag \in [Resources -> {"Lock", "Unlock"}]
          /\ t_id \in [Resources -> Threads \cup {None}]
          /\ mu \in [Resources -> Threads \cup {None}]
          /\ pc \in [Threads -> PC]
          /\ req \in [Threads -> Resources]
          /\ at \in [Threads -> Nat]
          /\ astray \subseteq Threads
          /\ held \in [Threads -> SUBSET Resources]
          /\ calls \in [Threads -> Nat]
          /\ exited \in BOOLEAN

\* drm_setmode.  What drm_init sets of a mutex no one has changed before.
Init == /\ runmode \in {"NO_DEADLOCK_CHECKING", "DEADLOCK_PREVENTION"}
        /\ ID = 0
        /\ q_mutex = <<>>
        /\ lockflag = [r \in Resources |-> "Unlock"]
        /\ t_id = [r \in Resources |-> None]
        /\ mu = [r \in Resources |-> None]
        /\ pc = [t \in Threads |-> "client"]
        /\ req = [t \in Threads |-> CHOOSE r \in Resources : TRUE]
        /\ at = [t \in Threads |-> 0]
        /\ astray = {}
        /\ held = [t \in Threads |-> {}]
        /\ calls = [t \in Threads |-> 0]
        /\ exited = FALSE

Goto(t, l) == pc' = [pc EXCEPT ![t] = l]

-----------------------------------------------------------------------------
(* drm_init and drm_destroy, which only main calls.                        *)

Live == {q_mutex[i] : i \in DOMAIN q_mutex}

DrmInit == /\ ID < N
           /\ ID' = ID + 1
           /\ q_mutex' = Append(q_mutex, ID + 1)
           /\ UNCHANGED <<runmode, record, mu, pc, req, scan, client, exited>>

\* As of pthread_mutex_destroy, a mutex must not be in use.
InUse(r) == \E t \in Threads : r \in held[t] \/ (pc[t] # "client" /\ req[t] = r)

\* The entries behind the one removed move up; a scan that is at it or behind
\* it then passes one over.
DrmDestroy(r) ==
  /\ r \in Live /\ ~ InUse(r)
  /\ LET pos == FirstOf({i \in DOMAIN q_mutex : q_mutex[i] = r})
     IN  /\ q_mutex' = queue_remove_at(q_mutex, pos)
         /\ astray' = astray \cup {t \in Threads : pc[t] = "scan" /\ pos <= at[t] + 1}
  /\ t_id' = [t_id EXCEPT ![r] = None]
  /\ lockflag' = [lockflag EXCEPT ![r] = "Unlock"]
  /\ UNCHANGED <<runmode, ID, mu, pc, req, at, client, exited>>

-----------------------------------------------------------------------------
(* drm_lock                                                                *)

CallLock(t, r) == /\ pc[t] = "client"
                  /\ calls[t] < Calls[t]
                  /\ r \in Live
                  /\ r \in held[t] => Relock
                  /\ calls' = [calls EXCEPT ![t] = @ + 1]
                  /\ req' = [req EXCEPT ![t] = r]
                  /\ at' = [at EXCEPT ![t] = 0]
                  /\ astray' = astray \ {t}
                  /\ Goto(t, IF Preventing THEN "scan" ELSE "mutex")
                  /\ UNCHANGED <<mutexes, record, mu, held, exited>>

\* Slip: only the next mutex is looked at.
Greater_next_only(t, r) == r = req[t] + 1 /\ lockflag[r] = "Lock" /\ t_id[r] = t

\* The caller has r, which comes after the mutex it asks for.
Greater(t, r) == r > req[t] /\ lockflag[r] = "Lock" /\ t_id[r] = t

\* One turn of the loop over q_mutex, and its end.
Scan(t) == /\ pc[t] = "scan"
           /\ IF at[t] < Len(q_mutex)
                THEN IF Greater(t, q_mutex[at[t] + 1])
                       THEN Goto(t, "client") /\ UNCHANGED at
                       ELSE at' = [at EXCEPT ![t] = @ + 1] /\ UNCHANGED pc
                ELSE Goto(t, "mutex") /\ UNCHANGED at
           /\ UNCHANGED <<mutexes, record, mu, req, astray, client, exited>>

\* A walk to an entry that drm_destroy runs into reads a node it has freed, or
\* past the last one: it may end the process.
Crash(t) == /\ pc[t] = "scan" /\ t \in astray
            /\ Goto(t, "crashed")
            /\ UNCHANGED <<mutexes, record, mu, req, scan, client, exited>>

\* drm_lock returns 0.
Granted(t) == /\ Goto(t, "client")
              /\ held' = [held EXCEPT ![t] = @ \cup {req[t]}]

\* pthread_mutex_lock blocks while the mutex has an owner, the caller included.
MutexLock(t) == /\ pc[t] = "mutex"
                /\ mu[req[t]] = None
                /\ mu' = [mu EXCEPT ![req[t]] = t]
                /\ IF Preventing THEN Goto(t, "set_flag") /\ UNCHANGED held
                                 ELSE Granted(t)
                /\ UNCHANGED <<mutexes, scan, record, req, calls, exited>>

\* Slip: its return value is not checked.
MutexLockFails_unchecked(t) == /\ pc[t] = "mutex"
                               /\ Granted(t)
                               /\ UNCHANGED <<mutexes, scan, record, mu, req, calls, exited>>

\* When it fails, drm_lock returns its error code.
MutexLockFails(t) == /\ pc[t] = "mutex"
                     /\ Goto(t, "client")
                     /\ UNCHANGED <<mutexes, scan, record, mu, req, client, exited>>

SetFlag(t) == /\ pc[t] = "set_flag"
              /\ lockflag' = [lockflag EXCEPT ![req[t]] = "Lock"]
              /\ Goto(t, "set_id")
              /\ UNCHANGED <<mutexes, scan, t_id, mu, req, client, exited>>

SetId(t) == /\ pc[t] = "set_id"
            /\ t_id' = [t_id EXCEPT ![req[t]] = t]
            /\ Granted(t)
            /\ UNCHANGED <<mutexes, scan, lockflag, mu, req, calls, exited>>

-----------------------------------------------------------------------------
(* drm_unlock                                                              *)

\* With prevention, a thread that is not the recorded owner ends the process.
CallUnlock(t, r) == /\ pc[t] = "client"
                    /\ r \in held[t]
                    /\ held' = [held EXCEPT ![t] = @ \ {r}]
                    /\ req' = [req EXCEPT ![t] = r]
                    /\ exited' = (Preventing /\ t_id[r] # t)
                    /\ Goto(t, IF Preventing THEN "clear_flag" ELSE "release")
                    /\ UNCHANGED <<mutexes, scan, record, mu, calls>>

ClearFlag(t) == /\ pc[t] = "clear_flag"
                /\ lockflag' = [lockflag EXCEPT ![req[t]] = "Unlock"]
                /\ Goto(t, "clear_id")
                /\ UNCHANGED <<mutexes, scan, t_id, mu, req, client, exited>>

\* Slip: the owner is not cleared.
ClearId_forgotten(t) == /\ pc[t] = "clear_id"
                        /\ Goto(t, "release")
                        /\ UNCHANGED <<mutexes, scan, record, mu, req, client, exited>>

ClearId(t) == /\ pc[t] = "clear_id"
              /\ t_id' = [t_id EXCEPT ![req[t]] = None]
              /\ Goto(t, "release")
              /\ UNCHANGED <<mutexes, scan, lockflag, mu, req, client, exited>>

\* Slip: the pthread mutex is not unlocked.
MutexUnlock_forgotten(t) == /\ pc[t] = "release"
                            /\ Goto(t, "client")
                            /\ UNCHANGED <<mutexes, scan, record, mu, req, client, exited>>

MutexUnlock(t) == /\ pc[t] = "release"
                  /\ mu' = [mu EXCEPT ![req[t]] = None]
                  /\ Goto(t, "client")
                  /\ UNCHANGED <<mutexes, scan, record, req, client, exited>>

-----------------------------------------------------------------------------
Step(t) == \/ Scan(t) \/ MutexLock(t) \/ SetFlag(t) \/ SetId(t)
           \/ ClearFlag(t) \/ ClearId(t) \/ MutexUnlock(t)

Running == ~ exited /\ \A t \in Threads : pc[t] # "crashed"

Next == /\ Running
        /\ \/ DrmInit
           \/ \E r \in Resources : DrmDestroy(r)
           \/ \E t \in Threads : \/ \E r \in Resources : CallLock(t, r) \/ CallUnlock(t, r)
                                \/ Step(t)
                                \/ MutexLockFails(t)
                                \/ Crash(t)

\* A thread that can run does, and a client does not keep a mutex for ever.
Fairness ==
  \A t \in Threads : /\ WF_vars(Running /\ Step(t))
                     /\ WF_vars(Running /\ \E r \in Resources : CallUnlock(t, r))

Spec == Init /\ [][Next]_vars
FairSpec == Spec /\ Fairness

-----------------------------------------------------------------------------
(* What holds.                                                             *)

\* The pthread mutex of r is t's, by what t's client and t's call know.
Owns(t, r) ==
  \/ r \in held[t]
  \/ req[t] = r /\ pc[t] \in {"set_flag", "set_id", "clear_flag", "clear_id", "release"}

\* The record of a mutex, which is read without a lock, never names a thread
\* that does not own it, and names every owner that is back in its client
\* (libdrm.c:235-238, 321-324).
RecordAgrees ==
  \A t \in Threads, r \in Resources :
    /\ mu[r] = t <=> Owns(t, r)
    /\ t_id[r] = t => mu[r] = t /\ Preventing /\ ~ (req[t] = r /\ pc[t] = "release")
    /\ Preventing /\ r \in held[t] => t_id[r] = t /\ lockflag[r] = "Lock"
    /\ req[t] = r /\ pc[t] = "set_id" => lockflag[r] = "Lock"

\* The owner is never taken for somebody else: no EXITERROR (libdrm.c:321).
NoExit == ~ exited

\* Every thread of S sits in pthread_mutex_lock on a mutex that a thread of
\* S has.
Deadlocked(S) == /\ S # {}
                 /\ \A t \in S : pc[t] = "mutex" /\ mu[req[t]] \in S

\* With prevention the only deadlocks left are of a thread that waits for
\* itself (libdrm.c:230: the comparison is >, so a mutex may be asked for
\* again), and of one whose scan drm_destroy made pass an entry over
\* (libdrm.c:348-353).
NoDeadlock ==
  \A S \in SUBSET Threads :
    Preventing /\ Deadlocked(S) => \E t \in S : mu[req[t]] = t \/ t \in astray

\* The lock order: a thread that goes for a mutex has none with a greater
\* r_id, however long it then waits (libdrm.c:228-235).
InOrder == \A t \in Threads :
  Preventing /\ pc[t] \in {"mutex", "set_flag", "set_id"} /\ t \notin astray =>
    \A r \in held[t] : r <= req[t]

\* What is in use is in q_mutex, and what a thread has and comes after the one
\* it asks for is among the entries its scan has yet to look at.
ScanAgrees ==
  \A t \in Threads :
    /\ \A r \in held[t] : r \in Live
    /\ pc[t] # "client" => req[t] \in Live
    /\ pc[t] = "scan" /\ t \notin astray =>
         \A r \in held[t] : r > req[t] => \E i \in at[t] + 1 .. Len(q_mutex) : q_mutex[i] = r

\* A call is never about a mutex its client already has, if clients lock once.
ReqNotHeld == \A t \in Threads :
  pc[t] # "client" /\ ~ (Relock /\ pc[t] \in {"scan", "mutex", "crashed"}) =>
    req[t] \notin held[t]

\* A graph-free call is never in a step that only prevention has, and a walk
\* crashes only if drm_destroy has run into it.
ModeAgrees == \A t \in Threads :
  /\ pc[t] \in {"scan", "set_flag", "set_id", "clear_flag", "clear_id"} => Preventing
  /\ pc[t] = "crashed" => t \in astray

\* The inductive invariant.
IInv == /\ TypeOK /\ NoExit /\ RecordAgrees /\ InOrder /\ ScanAgrees /\ ReqNotHeld
        /\ ModeAgrees

\* A lock is never granted to two clients (libdrm.c:218-334).
Locks == INSTANCE LockTable
Exclusive == Locks!Spec

\* With prevention, what keeps drm_lock and drm_unlock from returning is one of
\* the deadlocks above, and nothing else (libdrm.c:228-235): otherwise a thread
\* only waits for owners that are further on in the order.
CallsReturn ==
  \A t \in Threads :
    pc[t] # "client" /\ Preventing ~>
      \/ pc[t] = "client" \/ ~ Running
      \/ \E S \in SUBSET Threads : Deadlocked(S)
=============================================================================
