---------------------------- MODULE SwapFallback ----------------------------
(* The swap model's session pool (app/roop/session_pool.py) and the fallback  *)
(* off a broken TensorRT engine (_infer and _rebuild_without_trt of           *)
(* app/roop/processors/FaceSwapInsightFace.py), taken by several workers at   *)
(* once. Nothing but the pools' own locks protects the attributes of the      *)
(* model object: each read and write of them is a step of its own.            *)
EXTENDS Integers, Sequences, FiniteSets

CONSTANTS
    Callers,        \* workers that swap faces
    Calls,          \* inferences each of them asks for
    Size,           \* sessions of the first pool, and at most of a later one
    BuildFails,     \* building a session on CUDA may fail
    MaxPools        \* pools that are ever made: the first, and one per call at most

ASSUME CallersAssumption == IsFiniteSet(Callers)
ASSUME PoolAssumption == Calls \in Nat \ {0} /\ Size \in Nat \ {0}
ASSUME BuildAssumption == BuildFails \in BOOLEAN

VARIABLES
    pools,      \* the SessionPool objects in the order they were made
    pool,       \* self.pool: its number, 0 for None
    onTrt,      \* self.model_swap_insightface still runs on TensorRT
    disabled,   \* self._trt_disabled
    pressure,   \* the card is short of memory
    caller      \* per worker: its step, its call, what it holds

poolVars == <<pools, pool, onTrt, disabled, pressure, caller>>

NewPool(n, trt) == [size |-> n, free |-> 1 .. n, active |-> 0, closing |-> FALSE, trt |-> trt]

PoolInit == /\ pools = <<NewPool(Size, 1 .. Size)>> /\ pool = 1 /\ onTrt = TRUE
        /\ disabled = FALSE /\ pressure = FALSE
        /\ caller = [t \in Callers |-> [at |-> "idle", calls |-> 0, single |-> TRUE, clean |-> FALSE,
                                        again |-> FALSE, ref |-> 0, item |-> 0]]

At(t, step) == caller[t].at = step
To(t, step) == caller' = [caller EXCEPT ![t].at = step]

Rebuilding(t) == caller[t].at \in {"build", "look", "take", "unset", "release", "wait", "publish", "mark"}

\* The fallback is over: no later call finds a reason to begin it again.
Settled == disabled /\ \A t \in Callers : ~Rebuilding(t)

-------------------------------------------------------------------------------
(* _infer.                                                                    *)

\* A call for one face, or (a batch) for several. `clean` records whether the fallback was over.
Begin(t) ==
    /\ At(t, "idle") /\ caller[t].calls < Calls
    /\ \E single \in BOOLEAN :
         caller' = [caller EXCEPT ![t] = [at |-> "check", calls |-> @.calls + 1, single |-> single,
                                          clean |-> Settled, again |-> FALSE, ref |-> 0, item |-> 0]]
    /\ UNCHANGED <<pools, pool, onTrt, disabled, pressure>>

\* `if self.pool is not None`
Check(t) ==
    /\ At(t, "check")
    /\ To(t, IF pool # 0 THEN "get" ELSE "direct")
    /\ UNCHANGED <<pools, pool, onTrt, disabled, pressure>>

\* An exception of the first attempt leads to the fallback, one of the second leaves the call.
Fail(t) == To(t, IF caller[t].again THEN "raised" ELSE "failed")

\* `self.pool.lease()` reads the attribute again, and None has no lease.
Get(t) ==
    /\ At(t, "get")
    /\ IF pool = 0 THEN Fail(t)
       ELSE caller' = [caller EXCEPT ![t].at = "lease", ![t].ref = pool]
    /\ UNCHANGED <<pools, pool, onTrt, disabled, pressure>>

\* A session that still runs on TensorRT may fail. CUDA does what it is asked for.
Outcomes(trt) == IF trt THEN {"idle", "failed"} ELSE {"idle"}

Ended(t, outcome) == IF outcome = "failed" /\ caller[t].again THEN "raised" ELSE outcome

Direct(t) ==
    /\ At(t, "direct")
    /\ \E o \in Outcomes(onTrt) : To(t, Ended(t, o))
    /\ UNCHANGED <<pools, pool, onTrt, disabled, pressure>>

\* Only a single-face call on an engine not yet given up falls back.
TryFallback(t) ==
    /\ At(t, "failed")
    /\ To(t, IF caller[t].single /\ ~disabled THEN "build" ELSE "raised")
    /\ UNCHANGED <<pools, pool, onTrt, disabled, pressure>>

\* The exception leaves _infer: the worker keeps the original frame and goes on.
Raised(t) ==
    /\ At(t, "raised")
    /\ To(t, "idle")
    /\ UNCHANGED <<pools, pool, onTrt, disabled, pressure>>

-------------------------------------------------------------------------------
(* SessionPool.lease and release.                                             *)

NotifiedNobody(p, f) == f

\* notify_all of a pool's condition.
Notified(p, f) == [t \in Callers |->
    IF f[t].ref = p /\ f[t].at = "asleep" THEN [f[t] EXCEPT !.at = "lease"] ELSE f[t]]

\* refresh_pressure: under pressure no lease beyond those that are out, but always one.
Limit(p) == IF pressure /\ pools[p].active > 1 THEN pools[p].active
            ELSE IF pressure THEN 1 ELSE pools[p].size

Lent(q, i) == [q EXCEPT !.free = @ \ {i}, !.active = @ + 1]

Returned(q, i) == [q EXCEPT !.free = @ \cup {i}, !.active = @ - 1]

Closed(q) == [q EXCEPT !.closing = TRUE]
Emptied(q) == [q EXCEPT !.size = 0, !.free = {}]

\* The worker's next step, with the pool and the session it then holds.
Moved(t, step, ref, item) == [caller EXCEPT ![t] = [@ EXCEPT !.at = step, !.ref = ref, !.item = item]]

\* One turn of the loop: refused if the pool is closing, else admitted or put to sleep; the
\* refresh in it wakes the other sleepers.
Lease(t) ==
    LET p == caller[t].ref IN
    /\ At(t, "lease")
    /\ IF pools[p].closing THEN Fail(t) /\ UNCHANGED pools
       ELSE IF pools[p].active < Limit(p)
       THEN \E i \in pools[p].free :
              /\ pools' = [pools EXCEPT ![p] = Lent(@, i)]
              /\ caller' = Notified(p, Moved(t, "run", p, i))
       ELSE /\ caller' = [Notified(p, caller) EXCEPT ![t].at = "asleep"]
            /\ UNCHANGED pools
    /\ UNCHANGED <<pool, onTrt, disabled, pressure>>

\* The session runs, and the lease is given back whether or not it fails.
Run(t) ==
    LET p == caller[t].ref IN
    /\ At(t, "run")
    /\ pools' = [pools EXCEPT ![p] = Returned(@, caller[t].item)]
    /\ \E o \in Outcomes(caller[t].item \in pools[p].trt) :
         caller' = Notified(p, Moved(t, Ended(t, o), 0, 0))
    /\ UNCHANGED <<pool, onTrt, disabled, pressure>>

\* release, first half: no new leases. The attribute read earlier may be None.
Release(t) ==
    /\ At(t, "release")
    /\ IF caller[t].ref = 0 THEN To(t, "raised") /\ UNCHANGED pools
       ELSE To(t, "wait") /\ pools' = [pools EXCEPT ![caller[t].ref] = Closed(@)]
    /\ UNCHANGED <<pool, onTrt, disabled, pressure>>

IdleAnyway(p) == TRUE

\* release, second half: every lease is back; sleepers are woken to find the pool closed.
Idle(p) == pools[p].active = 0

Wait(t) ==
    LET p == caller[t].ref IN
    /\ At(t, "wait") /\ Idle(p)
    /\ pools' = [pools EXCEPT ![p] = Emptied(@)]
    /\ caller' = Notified(p, Moved(t, "publish", 0, 0))
    /\ UNCHANGED <<pool, onTrt, disabled, pressure>>

-------------------------------------------------------------------------------
(* _rebuild_without_trt.                                                      *)

BuildBeside(t) ==
    /\ At(t, "build")
    /\ \/ To(t, "look")
       \/ BuildFails /\ To(t, "raised")
    /\ UNCHANGED <<pools, pool, onTrt, disabled, pressure>>

Build(t) ==
    /\ At(t, "build")
    /\ \/ onTrt' = FALSE /\ To(t, "look")
       \/ BuildFails /\ To(t, "raised") /\ UNCHANGED onTrt
    /\ UNCHANGED <<pools, pool, disabled, pressure>>

Look(t) ==
    /\ At(t, "look")
    /\ To(t, IF pool # 0 THEN "take" ELSE "mark")
    /\ UNCHANGED <<pools, pool, onTrt, disabled, pressure>>

Take(t) ==
    /\ At(t, "take")
    /\ caller' = [caller EXCEPT ![t].at = "unset", ![t].ref = pool]
    /\ UNCHANGED <<pools, pool, onTrt, disabled, pressure>>

UnsetLater(t) ==
    /\ At(t, "unset")
    /\ To(t, "release")
    /\ UNCHANGED <<pools, pool, onTrt, disabled, pressure>>

Unset(t) ==
    /\ At(t, "unset")
    /\ pool' = 0 /\ To(t, "release")
    /\ UNCHANGED <<pools, onTrt, disabled, pressure>>

\* The new pool: the session built first, and as many more as the card has room for.
Publish(t) ==
    /\ At(t, "publish")
    /\ \/ /\ Len(pools) < MaxPools
          /\ \E n \in 1 .. Size : pools' = Append(pools, NewPool(n, IF onTrt THEN {1} ELSE {}))
          /\ pool' = Len(pools) + 1 /\ To(t, "mark")
       \/ BuildFails /\ To(t, "raised") /\ UNCHANGED <<pools, pool>>
    /\ UNCHANGED <<onTrt, disabled, pressure>>

\* self._trt_disabled = True, and the second attempt of _infer.
Mark(t) ==
    /\ At(t, "mark")
    /\ disabled' = TRUE
    /\ caller' = [caller EXCEPT ![t].at = "check", ![t].again = TRUE]
    /\ UNCHANGED <<pools, pool, onTrt, pressure>>

-------------------------------------------------------------------------------

Caller(t) ==
    \/ Check(t) \/ Get(t) \/ Direct(t) \/ TryFallback(t) \/ Raised(t)
    \/ Lease(t) \/ Run(t) \/ Release(t) \/ Wait(t)
    \/ Build(t) \/ Look(t) \/ Take(t) \/ Unset(t) \/ Publish(t) \/ Mark(t)

\* The memory of the card fills and empties; no pool is told.
Memory == pressure' = ~pressure /\ UNCHANGED <<pools, pool, onTrt, disabled, caller>>

PoolNext == (\E t \in Callers : Begin(t) \/ Caller(t)) \/ Memory

\* A worker that can go on does, and a model run or a build ends.
PoolFairness == \A t \in Callers : WF_poolVars(Caller(t))

PoolSpec == PoolInit /\ [][PoolNext]_poolVars /\ PoolFairness

-------------------------------------------------------------------------------
(* What the pool and the fallback promise.                                    *)

Steps == {"idle", "check", "get", "lease", "asleep", "run", "direct", "failed", "raised", "build",
          "look", "take", "unset", "release", "wait", "publish", "mark"}

Pools == [size : 0 .. Size, free : SUBSET (1 .. Size), active : 0 .. Size,
          closing : BOOLEAN, trt : SUBSET (1 .. Size)]

CallerRec == [at : Steps, calls : 0 .. Calls, single : BOOLEAN, clean : BOOLEAN, again : BOOLEAN,
            ref : Nat, item : 0 .. Size]

PoolTypeOK ==
    /\ pools \in Seq(Pools) /\ pool \in 0 .. Len(pools)
    /\ onTrt \in BOOLEAN /\ disabled \in BOOLEAN /\ pressure \in BOOLEAN
    /\ caller \in [Callers -> CallerRec] /\ \A t \in Callers : caller[t].ref <= Len(pools)

RunsIn(p) == {t \in Callers : caller[t].at = "run" /\ caller[t].ref = p}

\* Whatever fails, is closed or is rebuilt: a session of a pool is with one worker at most, and
\* the sessions that are out, those in the queue and the count of leases always agree.
LeasesExact ==
    \A p \in DOMAIN pools :
        /\ pools[p].active = Cardinality(RunsIn(p))
        /\ \A t \in RunsIn(p) : caller[t].item \in (1 .. pools[p].size) \ pools[p].free
        /\ \A t, u \in RunsIn(p) : caller[t].item = caller[u].item => t = u
        /\ Cardinality(pools[p].free) + pools[p].active = pools[p].size

\* However many workers take the fallback at once, self.pool never names a pool that is being
\* closed: a closed pool is only met by a worker that read the attribute before.
PublishedIsOpen == pool # 0 => ~pools[pool].closing

\* A call that begins after the fallback is complete does not fail: no straggler of the
\* fallback takes the sessions away under it, and none of them is on the broken engine.
CleanCallsSucceed == \A t \in Callers : caller[t].clean => ~At(t, "raised")

\* Every call comes back and every release ends: nobody sleeps beside a free session, or on a
\* pool that was closed.
CallsReturn == \A t \in Callers : ~At(t, "idle") ~> At(t, "idle")
=============================================================================
