---------------------------- MODULE SignalModel ----------------------------
(***************************************************************************)
(* The notable-trade model of one server process: the weights file         *)
(* (data/model_weights.json), the singleton that get_signal_model fills    *)
(* under a lock and reads outside it (app/ml/model.py), and the background *)
(* training runs that write the file and reload the singleton              *)
(* (app/ml/train.py, app/routes/alerts.py).  A model is the number of the  *)
(* training run that made it.                                              *)
(***************************************************************************)
EXTENDS Naturals, FiniteSets

CONSTANTS Readers,   \* request threads that ask for the model
          Trainers,  \* training threads
          NoThread,
          MaxModels  \* bound: training runs that write a file

ASSUME SignalAssumption ==
  /\ Readers \cap Trainers = {} /\ NoThread \notin Readers \cup Trainers
  /\ MaxModels \in Nat

VARIABLES weights,     \* the content of the weights file
          cacheModel,  \* _cache["model"]
          cacheLoaded, \* _cache["loaded"]
          modelLock,   \* who holds _cache_lock
          call,        \* where each thread is in get_signal_model
          got,         \* what it read there
          training,    \* _status["state"]
          trainer,     \* where each training thread is
          made,        \* models exported so far
          shown,       \* the model behind templates.env.globals["signal_threshold"]
          overlapped   \* a run was started before an earlier one had reloaded

signalVars == <<weights, cacheModel, cacheLoaded, modelLock, call, got,
                training, trainer, made, shown, overlapped>>

Threads == Readers \cup Trainers
None    == 0              \* no file, no model
Torn    == MaxModels + 1  \* a file that is being written
Models  == 1..MaxModels

SignalTypeOK ==
  /\ weights \in Models \cup {None, Torn} /\ cacheModel \in Models \cup {None}
  /\ cacheLoaded \in BOOLEAN /\ modelLock \in Threads \cup {NoThread}
  /\ call \in [Threads -> {"no", "check", "wait", "inside", "store", "return", "done"}]
  /\ got \in [Threads -> Models \cup {None}]
  /\ training \in {"idle", "running", "done", "error"}
  /\ trainer \in [Trainers -> {"idle", "train", "write", "finish", "reset", "reload", "show"}]
  /\ made \in 0..MaxModels /\ shown \in Models \cup {None} /\ overlapped \in BOOLEAN

\* The process has started without a file: the templates have asked for the model.
SignalInit ==
  /\ weights = None /\ cacheModel = None /\ cacheLoaded = TRUE
  /\ modelLock = NoThread
  /\ call = [t \in Threads |-> "no"] /\ got = [t \in Threads |-> None]
  /\ training = "idle" /\ trainer = [t \in Trainers |-> "idle"]
  /\ made = 0 /\ shown = None /\ overlapped = FALSE

\* load_model: a file that is missing or is not valid is no model.
LoadModel == IF weights \in Models THEN weights ELSE None

At(t, pc) == call[t] = pc
GoTo(t, pc) == call' = [call EXCEPT ![t] = pc]
Begins(t, pc) == GoTo(t, pc) /\ got' = [got EXCEPT ![t] = None]
-----------------------------------------------------------------------------
\* get_signal_model: the first look is outside the lock.
GetCheck(t) ==
  /\ At(t, "check")
  /\ GoTo(t, IF cacheLoaded THEN "return" ELSE "wait")
  /\ UNCHANGED <<weights, cacheModel, cacheLoaded, modelLock, got,
                 training, trainer, made, shown, overlapped>>

GetLock(t) ==
  /\ At(t, "wait") /\ modelLock = NoThread
  /\ modelLock' = t /\ GoTo(t, "inside")
  /\ UNCHANGED <<weights, cacheModel, cacheLoaded, got,
                 training, trainer, made, shown, overlapped>>

\* The second look, and the file is read while the lock is held.
GetLoad(t) ==
  /\ At(t, "inside")
  /\ \/ /\ cacheLoaded /\ modelLock' = NoThread /\ GoTo(t, "return") /\ UNCHANGED got
     \/ /\ ~cacheLoaded /\ got' = [got EXCEPT ![t] = LoadModel] /\ GoTo(t, "store")
        /\ UNCHANGED modelLock
  /\ UNCHANGED <<weights, cacheModel, cacheLoaded,
                 training, trainer, made, shown, overlapped>>

\* Both entries are set under the lock; until then every thread goes to the lock.
GetStore(t) ==
  /\ At(t, "store")
  /\ cacheModel' = got[t] /\ cacheLoaded' = TRUE
  /\ modelLock' = NoThread /\ GoTo(t, "return")
  /\ UNCHANGED <<weights, got, training, trainer, made, shown, overlapped>>

\* The model is returned outside the lock: a reset in between makes it None.
GetReturn(t) ==
  /\ At(t, "return")
  /\ got' = [got EXCEPT ![t] = cacheModel] /\ GoTo(t, "done")
  /\ UNCHANGED <<weights, cacheModel, cacheLoaded, modelLock,
                 training, trainer, made, shown, overlapped>>

Get(t) == GetCheck(t) \/ GetLock(t) \/ GetLoad(t) \/ GetStore(t) \/ GetReturn(t)
-----------------------------------------------------------------------------
TrainerGoes(t, pc) == trainer' = [trainer EXCEPT ![t] = pc]

\* start_training_in_background: one run at a time, as far as _status tells.
StartTraining(t) ==
  /\ trainer[t] = "idle" /\ training # "running" /\ made < MaxModels
  /\ training' = "running" /\ TrainerGoes(t, "train")
  /\ overlapped' = (overlapped \/ \E u \in Trainers : trainer[u] # "idle")
  /\ UNCHANGED <<weights, cacheModel, cacheLoaded, modelLock, call, got, made, shown>>

\* train_and_export raises before or while it writes, or writes the file: opening it
\* for writing has emptied it.
TrainFails(t) ==
  /\ trainer[t] \in {"train", "write"}
  /\ training' = "error" /\ TrainerGoes(t, "idle")
  /\ UNCHANGED <<weights, cacheModel, cacheLoaded, modelLock, call, got, made, shown, overlapped>>

OpenFile(t) ==
  /\ trainer[t] = "train"
  /\ weights' = Torn /\ TrainerGoes(t, "write")
  /\ UNCHANGED <<cacheModel, cacheLoaded, modelLock, call, got, training, made, shown, overlapped>>

WriteFile(t) ==
  /\ trainer[t] = "write"
  /\ made' = made + 1 /\ weights' = made + 1
  /\ TrainerGoes(t, "finish")
  /\ UNCHANGED <<cacheModel, cacheLoaded, modelLock, call, got, training, shown, overlapped>>

\* The status says "done" before the callback has reloaded the model.
FinishTraining(t) ==
  /\ trainer[t] = "finish"
  /\ training' = "done" /\ TrainerGoes(t, "reset")
  /\ UNCHANGED <<weights, cacheModel, cacheLoaded, modelLock, call, got, made, shown, overlapped>>

\* Mutant: the cache is forgotten without taking the lock.
ResetUnlocked(t) ==
  /\ trainer[t] = "reset"
  /\ cacheModel' = None /\ cacheLoaded' = FALSE
  /\ TrainerGoes(t, "reload") /\ Begins(t, "check")
  /\ UNCHANGED <<weights, modelLock, training, made, shown, overlapped>>

\* reset_signal_model_cache, under the lock; _reload_model then asks for the model.
ResetCache(t) ==
  /\ trainer[t] = "reset" /\ modelLock = NoThread
  /\ cacheModel' = None /\ cacheLoaded' = FALSE
  /\ TrainerGoes(t, "reload") /\ Begins(t, "check")
  /\ UNCHANGED <<weights, modelLock, training, made, shown, overlapped>>

\* app.state.signal_model is set, and effective_signal_threshold asks again.
Reload(t) ==
  /\ trainer[t] = "reload" /\ At(t, "done")
  /\ TrainerGoes(t, "show") /\ Begins(t, "check")
  /\ UNCHANGED <<weights, cacheModel, cacheLoaded, modelLock, training, made, shown, overlapped>>

ShowThreshold(t) ==
  /\ trainer[t] = "show" /\ At(t, "done")
  /\ shown' = got[t] /\ TrainerGoes(t, "idle") /\ Begins(t, "no")
  /\ UNCHANGED <<weights, cacheModel, cacheLoaded, modelLock, training, made, overlapped>>

Train(t) ==
  \/ StartTraining(t) \/ TrainFails(t) \/ OpenFile(t) \/ WriteFile(t)
  \/ FinishTraining(t) \/ ResetCache(t) \/ Reload(t) \/ ShowThreshold(t) \/ Get(t)
-----------------------------------------------------------------------------
NoTraining == \A t \in Trainers : trainer[t] = "idle"

\* When no run is in flight, what the process uses is what the last run exported: a
\* model that was cached from an older or a half-written file has been forgotten, and
\* the templates show the threshold of the same model unless two runs overlapped.
ModelIsCurrent ==
  NoTraining /\ weights \in Models =>
    /\ cacheLoaded => cacheModel = weights
    /\ ~overlapped => shown = weights
=============================================================================
