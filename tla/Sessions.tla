------------------------------- MODULE Sessions -------------------------------
(***************************************************************************)
(* Sessions on one shared model: creation, decide calls from any thread,   *)
(* their failure paths, the log callback and what it may call, and freeing. *)
(* src/api.inc:17-44, 312-667, with the phases of the inference workspace   *)
(* (src/engine.inc:123-136, 303-317, 368-386) and the accelerator's lock    *)
(* and context (src/cuda.inc:2118-2166).                                    *)
(*                                                                          *)
(* A thread's stack holds the decide calls it is in: a call that failed     *)
(* logs, and the callback may make further calls on the same thread.  Each  *)
(* decide call has a number, and a failure's message is that number.  The   *)
(* model's references are those of SharedModel, which ModelRefs implements. *)
(*                                                                          *)
(* Callers keep the header's contract where the code relies on it: they     *)
(* create a session through a reference they hold, and free or call only a  *)
(* live session, freeing none that a call has not given back.               *)
(***************************************************************************)
EXTENDS Naturals, Sequences, SequencesExt

CONSTANTS
  Threads,
  Ids,          \* addresses of sessions
  Caller,       \* the reference jb_model_load() returned
  None,         \* no thread
  Accelerators, \* whether the model may be on one: {TRUE}, {FALSE} or both
  MaxNesting,   \* bound: decide calls nested on one thread
  MaxCalls,     \* bound: decide calls made
  MaxRows,      \* bound: requests in a batch
  MaxPasses     \* bound: forward passes for one request or microbatch

ASSUME SessionsAssumption ==
  /\ None \notin Threads
  /\ Accelerators \subseteq BOOLEAN
  /\ Caller \notin Ids \cup (Threads \X (1..MaxNesting))
  /\ Ids \cap (Threads \X (1..MaxNesting)) = {}
  /\ MaxNesting \in Nat \ {0} /\ MaxCalls \in Nat
  /\ MaxRows \in Nat \ {0} /\ MaxPasses \in Nat \ {0}

VARIABLES
  accelerated,  \* model->accel is set
  session,      \* each session's record, live or not
  mutex,        \* the thread in jb_cuda_call_mutex
  context,      \* the CUDA context current on each thread
  message,      \* jb_error_message of each thread; 0 is the empty string
  stack,        \* the decide calls each thread is in, innermost last
  latest,       \* what the latest completed decide of a session failed with
  calls,        \* decide calls made
  held,         \* references to the model
  destructions

vars == <<accelerated, session, mutex, context, message, stack, latest, calls,
          held, destructions>>

Handles == {Caller} \cup Ids \cup (Threads \X (1..MaxNesting))

Model == INSTANCE SharedModel

Messages == 0..MaxCalls
Phases == {"control", "kv", "work"}
Contexts == {"caller", "cuda"}

(* jb_session: its flags, the phases of its workspace that are active,      *)
(* whether the workspace may hold device memory, its call_cleanup record    *)
(* and its last error.                                                      *)
Session ==
  [live : BOOLEAN, busy : BOOLEAN, poisoned : BOOLEAN, phases : SUBSET Phases,
   device : BOOLEAN, locked : BOOLEAN, saved : Contexts, error : Messages]

Fresh ==
  [live |-> TRUE, busy |-> FALSE, poisoned |-> FALSE, phases |-> {},
   device |-> FALSE, locked |-> FALSE, saved |-> "caller", error |-> 0]

(* A decide call: where it is, whether it runs its rows as one microbatch,  *)
(* the rows and passes left, the phases it has begun and not ended, whether *)
(* it has ever begun one, how it failed, and the CUDA context it was made   *)
(* in.                                                                      *)
Call ==
  [session : Ids, number : 1..MaxCalls,
   at : {"ready", "validate", "lock", "context", "prepare", "execute", "format",
         "finish", "release", "log"},
   batch : BOOLEAN, rows : 0..MaxRows, passes : 0..MaxPasses,
   begun : Seq(Phases), ran : BOOLEAN,
   failure : {"none", "unusable", "request", "resource"}, caller : Contexts]

Started(s, n, c) ==
  [session |-> s, number |-> n, at |-> "ready", batch |-> FALSE, rows |-> 0,
   passes |-> 0, begun |-> <<>>, ran |-> FALSE, failure |-> "none", caller |-> c]

Init ==
  /\ accelerated \in Accelerators
  /\ session = [s \in Ids |-> [Fresh EXCEPT !.live = FALSE]]
  /\ mutex = None
  /\ context = [t \in Threads |-> "caller"]
  /\ message = [t \in Threads |-> 0]
  /\ stack = [t \in Threads |-> <<>>]
  /\ latest = [s \in Ids |-> 0]
  /\ calls = 0
  /\ held = {Caller}
  /\ destructions = 0

Depth(t) == Len(stack[t])
Current(t) == stack[t][Depth(t)]
Mine(t) == session[Current(t).session]

At(t, step) == Depth(t) > 0 /\ Current(t).at = step

(* Outside every call, or inside the log callback of one. *)
MayCall(t) == Depth(t) = 0 \/ At(t, "log")

(* The frames of calls that have acquired session s and not given it back. *)
Inside(s) ==
  {f \in Threads \X (1..MaxNesting) :
     LET t == f[1]
         i == f[2]
     IN  i <= Depth(t) /\ stack[t][i].session = s /\ stack[t][i].at # "log"}

(* The innermost call of t goes on as c. *)
Continue(t, c) == stack' = [stack EXCEPT ![t][Depth(t)] = c]

Goto(t, step) == Continue(t, [Current(t) EXCEPT !.at = step])

Return(t) == stack' = [stack EXCEPT ![t] = SubSeq(@, 1, Depth(t) - 1)]

Transient(t) == <<t, Depth(t)>>

model == <<held, destructions>>
accelerator == <<mutex, context>>

-----------------------------------------------------------------------------
(* jb_session_create_json, by itself or in jb_session_create, when it       *)
(* succeeds; a creation that fails leaves only its message.                 *)
Create(t, s) ==
  /\ MayCall(t)
  /\ Caller \in held
  /\ ~session[s].live
  /\ Inside(s) = {}
  /\ Model!Acquire(s)
  /\ session' = [session EXCEPT ![s] = Fresh]
  /\ latest' = [latest EXCEPT ![s] = 0]
  /\ message' = [message EXCEPT ![t] = 0]
  /\ UNCHANGED <<accelerated, accelerator, stack, calls>>

(* jb_session_free.  Freeing device memory makes the library's context      *)
(* current, if it can, and does not make the caller's current again.        *)
SessionFree(t, s) ==
  /\ MayCall(t)
  /\ session[s].live
  /\ Inside(s) = {}
  /\ session' = [session EXCEPT ![s] = [Fresh EXCEPT !.live = FALSE]]
  /\ latest' = [latest EXCEPT ![s] = 0]
  /\ \E c \in {context[t]} \cup (IF session[s].device THEN {"cuda"} ELSE {}) :
       context' = [context EXCEPT ![t] = c]
  /\ Model!Drop(s)
  /\ UNCHANGED <<accelerated, mutex, message, stack, calls>>

(* jb_model_free of the caller's own reference; sessions may outlive it. *)
ModelFree(t) ==
  /\ MayCall(t)
  /\ Model!Drop(Caller)
  /\ UNCHANGED <<accelerated, session, accelerator, message, stack, latest, calls>>

(* The thread that dropped the last reference destroys the model. *)
ModelDestroy ==
  /\ Model!Destroy
  /\ UNCHANGED <<accelerated, session, accelerator, message, stack, latest, calls>>

-----------------------------------------------------------------------------
(* jb_session_acquire *)

(* Definitions called Faulty... are mistakes the runs must be able to tell   *)
(* from the code: each replaces the definition it precedes, in turn.        *)

(* The busy flag is set without being tested. *)
FaultyCanAcquire(s) == TRUE

CanAcquire(s) == ~session[s].busy

Decide(t, s) ==
  /\ MayCall(t)
  /\ Depth(t) < MaxNesting
  /\ calls < MaxCalls
  /\ session[s].live
  /\ calls' = calls + 1
  /\ \/ /\ CanAcquire(s)
        /\ session' = [session EXCEPT ![s].busy = TRUE]
        /\ stack' = [stack EXCEPT ![t] = Append(@, Started(s, calls', context[t]))]
        /\ UNCHANGED message
     \/ /\ ~CanAcquire(s)
        /\ message' = [message EXCEPT ![t] = calls']
        /\ UNCHANGED <<session, stack>>
  /\ UNCHANGED <<accelerated, accelerator, latest, model>>

(* The call fails outside its error frame, or before its cleanup is armed: *)
(* nothing is to be undone.                                                *)
Reject(t, failure) ==
  /\ message' = [message EXCEPT ![t] = Current(t).number]
  /\ Continue(t, [Current(t) EXCEPT !.at = "release", !.failure = failure])
  /\ UNCHANGED accelerator

(* A poisoned session is not refused. *)
FaultyReady(t) ==
  /\ At(t, "ready")
  /\ Goto(t, "validate")
  /\ UNCHANGED <<accelerated, session, accelerator, message, latest, calls, model>>

(* jb_session_ready *)
Ready(t) ==
  /\ At(t, "ready")
  /\ \/ /\ ~Mine(t).poisoned
        /\ Goto(t, "validate")
        /\ UNCHANGED <<session, accelerator, message>>
     \/ /\ Mine(t).poisoned
        /\ Reject(t, "unusable")
        /\ UNCHANGED session
  /\ UNCHANGED <<accelerated, latest, calls, model>>

(* The start of each jb_session_decide*_call: arguments and typed inputs    *)
(* are checked, some before and some after the cleanup record is set up,    *)
(* and all before the cleanup is pushed.                                    *)
ResetCleanup(r) == [r EXCEPT !.locked = FALSE, !.saved = "caller"]

Validate(t) ==
  /\ At(t, "validate")
  /\ LET reset == [session EXCEPT ![Current(t).session] = ResetCleanup(@)] IN
     \/ /\ Reject(t, "request")
        /\ session' \in {session, reset}
     \/ \E rows \in 1..MaxRows :
          /\ session' = reset
          /\ Continue(t, [Current(t) EXCEPT !.at = "lock", !.rows = rows])
          /\ UNCHANGED <<accelerator, message>>
  /\ UNCHANGED <<accelerated, latest, calls, model>>

-----------------------------------------------------------------------------
(* The phases of the failed call stay active. *)
FaultyCleanedUp(r) == [r EXCEPT !.poisoned = @ \/ r.phases # {}]

(* jb_call_cleanup's part of the session: an active phase poisons it. *)
CleanedUp(r) ==
  [r EXCEPT !.poisoned = @ \/ r.phases # {}, !.phases = {}]

(* The caller's context is not made current again... *)
FaultyUnlockContext(t) ==
  /\ mutex' = IF Mine(t).locked THEN None ELSE mutex
  /\ UNCHANGED context

(* ... or the mutex is not unlocked. *)
FaultyUnlockMutex(t) == UNCHANGED accelerator

(* jb_accel_call_unlock, as the session's cleanup record says. *)
Unlock(t) ==
  IF Mine(t).locked
    THEN /\ mutex' = None
         /\ context' = [context EXCEPT ![t] = Mine(t).saved]
    ELSE UNCHANGED accelerator

(* die() once the cleanup is armed: it runs, and the call fails. *)
Fail(t, failure) ==
  /\ session' = [session EXCEPT ![Current(t).session] = CleanedUp(@)]
  /\ Unlock(t)
  /\ message' = [message EXCEPT ![t] = Current(t).number]
  /\ Continue(t, [Current(t) EXCEPT !.at = "release", !.failure = failure])

(* jb_accel_call_lock up to the mutex. *)
Lock(t) ==
  /\ At(t, "lock")
  /\ \/ /\ ~accelerated
        /\ Goto(t, "prepare")
        /\ UNCHANGED <<session, accelerator, message>>
     \/ /\ accelerated /\ mutex = None
        /\ mutex' = t
        /\ Goto(t, "context")
        /\ UNCHANGED <<session, context, message>>
  /\ UNCHANGED <<accelerated, latest, calls, model>>

LockFails(t) ==
  /\ At(t, "lock")
  /\ accelerated
  /\ Fail(t, "resource")
  /\ UNCHANGED <<accelerated, latest, calls, model>>

(* jb_accel_call_lock once in the mutex: it undoes its own lock if the      *)
(* context cannot be entered, since the cleanup record does not know it yet. *)
EnterContext(t) ==
  /\ At(t, "context")
  /\ \/ /\ session' = [session EXCEPT ![Current(t).session].locked = TRUE,
                                      ![Current(t).session].saved = context[t]]
        /\ context' = [context EXCEPT ![t] = "cuda"]
        /\ Goto(t, "prepare")
        /\ UNCHANGED <<mutex, message>>
     \/ /\ session' = [session EXCEPT ![Current(t).session] = CleanedUp(@)]
        /\ mutex' = None
        /\ message' = [message EXCEPT ![t] = Current(t).number]
        /\ Continue(t, [Current(t) EXCEPT !.at = "release", !.failure = "resource"])
        /\ UNCHANGED context
  /\ UNCHANGED <<accelerated, latest, calls, model>>

-----------------------------------------------------------------------------
(* dg_job_prepare*: one request is parsed, or all of them when the batch    *)
(* may run as one microbatch (several requests, an installed prefix).       *)
Prepare(t) ==
  /\ At(t, "prepare")
  /\ \/ Fail(t, "request")
     \/ Fail(t, "resource")
     \/ \E batch \in BOOLEAN, passes \in 1..MaxPasses :
          /\ batch => Current(t).rows > 1 /\ ~Current(t).ran
          /\ Continue(t, [Current(t) EXCEPT !.at = "execute", !.batch = batch,
                                            !.passes = passes])
          /\ UNCHANGED <<session, accelerator, message>>
  /\ UNCHANGED <<accelerated, latest, calls, model>>

(* The phases still to begin, outermost first. *)
Nested(c) == IF c.batch THEN <<"control", "kv", "work">> ELSE <<"kv", "work">>

NextPhase(c) == Nested(c)[Len(c.begun) + 1]

Begun(r, phase) ==
  [r EXCEPT !.phases = @ \cup {phase},
            !.device = @ \/ (accelerated /\ phase = "work")]

(* dg_control_begin, dg_worker_kv_begin, dg_workspace_begin: refused when   *)
(* the phase is active or its storage cannot grow.  Each forward pass then  *)
(* sees to its device memory.                                               *)
BeginPhase(t) ==
  LET c == Current(t) IN
  /\ At(t, "execute")
  /\ c.passes > 0
  /\ Len(c.begun) < Len(Nested(c))
  /\ \/ /\ NextPhase(c) \notin Mine(t).phases
        /\ session' = [session EXCEPT ![c.session] = Begun(@, NextPhase(c))]
        /\ Continue(t, [c EXCEPT !.begun = Append(@, NextPhase(c)), !.ran = TRUE])
        /\ UNCHANGED <<accelerator, message>>
     \/ Fail(t, "resource")
  /\ UNCHANGED <<accelerated, latest, calls, model>>

(* The end of the K/V is taken for the end of a pass. *)
FaultyEndsPass(c) == Last(c.begun) \in {"work", "kv"}

EndsPass(c) == Last(c.begun) = "work"

(* The flag of a phase that ended is not cleared. *)
FaultyEnded(r, phase) == r

Ended(r, phase) == [r EXCEPT !.phases = @ \ {phase}]

(* dg_workspace_end after each pass; dg_worker_kv_end and dg_control_end    *)
(* after the last.  Each refuses a phase that is not active, and whatever   *)
(* fails inside a phase, in a kernel or on the device, fails here.          *)
EndPhase(t) ==
  LET c == Current(t) IN
  /\ At(t, "execute")
  /\ c.begun # <<>>
  /\ EndsPass(c) \/ c.passes = 0
  /\ \/ /\ Last(c.begun) \in Mine(t).phases
        /\ session' = [session EXCEPT ![c.session] = Ended(@, Last(c.begun))]
        /\ Continue(t, [c EXCEPT !.begun = Front(@),
                                 !.passes = IF EndsPass(c) THEN @ - 1 ELSE @,
                                 !.at = IF Len(c.begun) = 1 THEN "format" ELSE @])
        /\ UNCHANGED <<accelerator, message>>
     \/ Fail(t, "resource")
  /\ UNCHANGED <<accelerated, latest, calls, model>>

(* Answers are normalised and formatted; then the next row, or the end. *)
Format(t) ==
  LET left == IF Current(t).batch THEN 0 ELSE Current(t).rows - 1 IN
  /\ At(t, "format")
  /\ \/ Fail(t, "resource")
     \/ /\ Continue(t, [Current(t) EXCEPT !.at = IF left = 0 THEN "finish" ELSE "prepare",
                                          !.rows = left])
        /\ UNCHANGED <<session, accelerator, message>>
  /\ UNCHANGED <<accelerated, latest, calls, model>>

(* The successful end of jb_session_decide*_call: only the JSON calls clear *)
(* the thread's message.                                                    *)
Finish(t) ==
  /\ At(t, "finish")
  /\ Unlock(t)
  /\ Goto(t, "release")
  /\ \E m \in {0, message[t]} : message' = [message EXCEPT ![t] = m]
  /\ UNCHANGED <<accelerated, session, latest, calls, model>>

-----------------------------------------------------------------------------
(* jb_session_release up to the callback. *)

(* Success does not clear the error of the call before. *)
FaultyGivenBack(r, error) ==
  [r EXCEPT !.busy = FALSE, !.error = IF error = 0 THEN @ ELSE error]

GivenBack(r, error) == [r EXCEPT !.busy = FALSE, !.error = error]

ReleaseSucceeded(t) ==
  /\ At(t, "release")
  /\ Current(t).failure = "none"
  /\ session' = [session EXCEPT ![Current(t).session] = GivenBack(@, 0)]
  /\ latest' = [latest EXCEPT ![Current(t).session] = 0]
  /\ Return(t)
  /\ UNCHANGED <<accelerated, accelerator, message, calls, model>>

(* The model is not retained for the callback. *)
FaultyReleaseFailed(t) ==
  /\ At(t, "release")
  /\ Current(t).failure # "none"
  /\ session' = [session EXCEPT ![Current(t).session] = GivenBack(@, message[t])]
  /\ latest' = [latest EXCEPT ![Current(t).session] = Current(t).number]
  /\ Goto(t, "log")
  /\ UNCHANGED <<accelerated, accelerator, message, calls, model>>

ReleaseFailed(t) ==
  /\ At(t, "release")
  /\ Current(t).failure # "none"
  /\ session' = [session EXCEPT ![Current(t).session] = GivenBack(@, message[t])]
  /\ latest' = [latest EXCEPT ![Current(t).session] = Current(t).number]
  /\ Model!Acquire(Transient(t))
  /\ Goto(t, "log")
  /\ UNCHANGED <<accelerated, accelerator, message, calls>>

(* The callback returns, and with it the call. *)
Logged(t) ==
  /\ At(t, "log")
  /\ Model!Drop(Transient(t))
  /\ Return(t)
  /\ UNCHANGED <<accelerated, session, accelerator, message, latest, calls>>

Step(t) ==
  \/ Ready(t)
  \/ Validate(t)
  \/ Lock(t)
  \/ EnterContext(t)
  \/ Prepare(t)
  \/ BeginPhase(t)
  \/ EndPhase(t)
  \/ Format(t)
  \/ Finish(t)
  \/ ReleaseSucceeded(t)
  \/ ReleaseFailed(t)
  \/ Logged(t)

Next ==
  \/ \E t \in Threads :
       \/ \E s \in Ids : Create(t, s) \/ SessionFree(t, s) \/ Decide(t, s)
       \/ ModelFree(t)
       \/ LockFails(t)
       \/ Step(t)
  \/ ModelDestroy

Spec == Init /\ [][Next]_vars

(* Each thread that is in a call goes on with it.  Whether callers make     *)
(* calls, and what a callback calls, is theirs to choose; nothing promises  *)
(* that an attempt to lock the mutex fails.                                 *)
FairSpec == Spec /\ \A t \in Threads : WF_vars(Step(t))

-----------------------------------------------------------------------------
(* One call at a time works on a session, whichever threads call it and     *)
(* whatever a log callback calls, and the busy flag is set exactly while    *)
(* one does (api.inc:574-592).                                              *)
OneCallAtATime ==
  \A s \in Ids : /\ \A f, g \in Inside(s) : f = g
                  /\ session[s].busy <=> Inside(s) # {}

(* A session no call works on has no phase of its workspace active, however *)
(* the last call ended: the next call finds it as after creation.           *)
IdleIsQuiescent ==
  \A s \in Ids : Inside(s) = {} => session[s].phases = {}

(* A thread is in the accelerator's mutex exactly while its innermost call  *)
(* runs, the library's context is current while it does, and the context    *)
(* the call was made in is current again once it has ended: no failure      *)
(* leaks the lock or the context, and no callback runs under the lock       *)
(* (cuda.inc:2147-2166).                                                    *)
Running(t) == \E step \in {"prepare", "execute", "format", "finish"} : At(t, step)

LockFollowsCall ==
  \A t \in Threads :
    /\ mutex = t <=> accelerated /\ (Running(t) \/ At(t, "context"))
    /\ accelerated /\ Running(t) => context[t] = "cuda"
    /\ At(t, "release") => context[t] = Current(t).caller

(* The model exists as long as a session does, a call works on one, or a    *)
(* callback runs, even if the callback frees the session and the caller its *)
(* own reference (api.inc:590-596).                                         *)
ModelOutlivesUse ==
  (\E s \in Ids : session[s].live) \/ (\E t \in Threads : Depth(t) > 0)
    => destructions = 0

(* A call that fails, other than for a session poisoned before it, leaves   *)
(* the session poisoned if it was inside a phase and usable if it was not:  *)
(* an invalid request never costs the session, even as a later row of a     *)
(* batch whose earlier rows have run (jb.h:191-193, api.inc:37-39).         *)
PoisonFollowsPhase ==
  \A t \in Threads :
    At(t, "release") /\ Current(t).failure \in {"request", "resource"}
      => /\ Mine(t).poisoned <=> Current(t).begun # <<>>
         /\ Current(t).failure = "request" => ~Mine(t).poisoned

(* A poisoned session never runs again: it stays poisoned, with no phase    *)
(* active, until it is freed (api.inc:600-606).                             *)
PoisonIsFinal ==
  [][\A s \in Ids :
       session[s].poisoned /\ session'[s].live
         => session'[s].poisoned /\ session'[s].phases = {}]_vars

(* An idle session's error is that of its latest decide, and empty if that  *)
(* succeeded, whichever threads have called it and failed in between        *)
(* (jb.h:201-204).                                                          *)
ErrorIsLatest ==
  \A s \in Ids : Inside(s) = {} => session[s].error = latest[s]

(* Every call returns: no thread waits for a session or the mutex for ever, *)
(* whatever its callbacks call.                                             *)
EveryCallReturns == \A t \in Threads : Depth(t) > 0 ~> Depth(t) = 0

(* "A failure after inference workspace execution begins poisons it"        *)
(* (jb.h:192), whether or not a phase is active when it comes.              *)
PoisonedAfterExecution ==
  \A t \in Threads :
    At(t, "release") /\ Current(t).failure = "resource" /\ Current(t).ran
      => Mine(t).poisoned

(* jb_last_error() "describes the calling thread's most recent failure"     *)
(* (jb.h:173): when a call returns its failure, the thread's message is     *)
(* that failure's, or a later one's.                                        *)
LastErrorDescribesFailure ==
  [][\A t \in Threads :
       Depth(t)' < Depth(t) /\ Current(t).failure # "none"
         => message'[t] >= Current(t).number]_vars

=============================================================================
