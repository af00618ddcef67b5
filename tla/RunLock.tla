------------------------------ MODULE RunLock ------------------------------
(***************************************************************************)
(* The lock file of scripts/backfill_resolutions.py, which is to keep two  *)
(* backfills from running at once.  A process creates the file with O_EXCL *)
(* and then writes its pid into it; a file left by a process that does not *)
(* run any more is removed.  Each step is a call of the operating system,  *)
(* and processes may be killed between any two of them.                    *)
(***************************************************************************)
CONSTANTS Backfills,  \* processes, one run of the script each
          None        \* no process

ASSUME RunLockAssumption == None \notin Backfills

VARIABLES
  file,    \* the process that created the file there is now, or None
  signed,  \* the processes that have written their pid into their file
  stage,   \* where each process is in the script
  seen,    \* the pid it read, None for an unreadable one
  stolen   \* history: the file of a process that runs was removed by another

lock == <<file, signed, stage, seen, stolen>>

LockTypeOK ==
  /\ file \in Backfills \cup {None}
  /\ signed \subseteq Backfills
  /\ stage \in [Backfills -> {"new", "exists", "check", "stale", "retry", "created",
                              "run", "leave", "unlink", "over", "dead"}]
  /\ seen \in [Backfills -> Backfills \cup {None}]
  /\ stolen \in BOOLEAN

LockInit ==
  /\ file = None
  /\ signed = {}
  /\ stage = [p \in Backfills |-> "new"]
  /\ seen = [p \in Backfills |-> None]
  /\ stolen = FALSE

Alive(p) == stage[p] \notin {"new", "over", "dead"}
Goto(p, next) == stage' = [stage EXCEPT ![p] = next]
-----------------------------------------------------------------------------
(* _acquire_run_lock *)

\* Mutant: without O_EXCL an existing file is opened and overwritten.
StartNotExclusive(p) ==
  /\ stage[p] = "new"
  /\ file' = p
  /\ Goto(p, "created")
  /\ UNCHANGED <<signed, seen, stolen>>

\* os.open with O_CREAT | O_EXCL.
Start(p) ==
  /\ stage[p] = "new"
  /\ \/ file = None /\ file' = p /\ Goto(p, "created")
     \/ file # None /\ Goto(p, "exists") /\ UNCHANGED file
  /\ UNCHANGED <<signed, seen, stolen>>

\* A file that is empty or gone counts as pid 0.
ReadPid(p) ==
  /\ stage[p] = "exists"
  /\ seen' = [seen EXCEPT ![p] = IF file \in signed THEN file ELSE None]
  /\ Goto(p, "check")
  /\ UNCHANGED <<file, signed, stolen>>

\* Mutant: only a pid can be stale, an empty file belongs to a process that is
\* about to write its pid.
CheckPidWritten(p) ==
  /\ stage[p] = "check"
  /\ Goto(p, IF seen[p] \in Backfills /\ ~ Alive(seen[p]) THEN "stale" ELSE "over")
  /\ seen' = [seen EXCEPT ![p] = None]
  /\ UNCHANGED <<file, signed, stolen>>

\* _pid_is_running; if it is, the script prints the pid and ends.
CheckPid(p) ==
  /\ stage[p] = "check"
  /\ Goto(p, IF seen[p] \in Backfills /\ Alive(seen[p]) THEN "over" ELSE "stale")
  /\ seen' = [seen EXCEPT ![p] = None]
  /\ UNCHANGED <<file, signed, stolen>>

\* unlink(missing_ok=True) removes whatever file there is by now.
Remove(p) ==
  /\ file' = None
  /\ stolen' = (stolen \/ \E q \in Backfills \ {p} : file = q /\ Alive(q))

RemoveStale(p) ==
  /\ stage[p] = "stale"
  /\ Remove(p)
  /\ Goto(p, "retry")
  /\ UNCHANGED <<signed, seen>>

\* The second os.open; its FileExistsError ends the script.
Recreate(p) ==
  /\ stage[p] = "retry"
  /\ \/ file = None /\ file' = p /\ Goto(p, "created")
     \/ file # None /\ Goto(p, "over") /\ UNCHANGED file
  /\ UNCHANGED <<signed, seen, stolen>>

\* The pid goes into the file that was created, linked or not.
WritePid(p) ==
  /\ stage[p] = "created"
  /\ signed' = signed \cup {p}
  /\ Goto(p, "run")
  /\ UNCHANGED <<file, seen, stolen>>

(* _release_run_lock *)

ReadOwn(p) ==
  /\ stage[p] = "leave"
  /\ Goto(p, IF file = p /\ p \in signed THEN "unlink" ELSE "over")
  /\ UNCHANGED <<file, signed, seen, stolen>>

RemoveOwn(p) ==
  /\ stage[p] = "unlink"
  /\ Remove(p)
  /\ Goto(p, "over")
  /\ UNCHANGED <<signed, seen>>

LockStep(p) ==
  \/ ReadPid(p) \/ CheckPid(p) \/ RemoveStale(p) \/ Recreate(p) \/ WritePid(p)
  \/ ReadOwn(p) \/ RemoveOwn(p)
-----------------------------------------------------------------------------
\* The docstring: "Create an atomic process lock so two backfills do not hit the
\* DB/API at once."
OneBackfill == \A p, q \in Backfills : stage[p] = "run" /\ stage[q] = "run" => p = q

\* Two backfills run at once only after the file of a live one was removed: by
\* a process that saw it empty before the pid was written, or that saw an older
\* file.  Locking and unlocking, crashes and refusals alone do not do it.
OneUnlessStolen == ~ stolen => OneBackfill

\* A process that finds a file after everybody else has ended or died, wherever
\* they died, gets to run: the lock never has to be removed by hand.
NeverLockedOut ==
  \A p \in Backfills :
    stage[p] = "exists" /\ (\A q \in Backfills \ {p} : stage[q] \in {"over", "dead"})
      ~> stage[p] \in {"run", "dead"}
=============================================================================
