---------------------------- MODULE JobLifecycle ----------------------------
(***************************************************************************)
(* What the queue promises about its jobs, without runners, threads, files *)
(* or globals: docs/development/JOB_CONTRACT.md read as four phases, as    *)
(* app/routes_queue.py implements it.  Jobs run one at a time, a job that  *)
(* ended runs again only because somebody asked for it, and a restart puts *)
(* the interrupted job back among the waiting ones.                        *)
(***************************************************************************)
CONSTANT Jobs
VARIABLE phase

Phases == {"absent", "waiting", "running", "ended"}

Running == {j \in Jobs : phase[j] = "running"}

\* All the jobs of S move to phase p.
Move(S, p) == phase' = [j \in Jobs |-> IF j \in S THEN p ELSE phase[j]]

Init == phase \in [Jobs -> {"absent", "waiting"}]

\* A new id is added, or copied from another job.
Arrive(j) == phase[j] = "absent" /\ Move({j}, "waiting")

\* Jobs that are not running leave the list, or the whole list is emptied.
Leave(S) == (S \cap Running = {} \/ S = Jobs) /\ Move(S, "absent")

\* A job starts, alone.
Begin(j) == phase[j] = "waiting" /\ Running = {} /\ Move({j}, "running")

\* Its run is over, or its checkpoint was refused and it waits again.
End(j) == phase[j] = "running" /\ \E p \in {"ended", "waiting"} : Move({j}, p)

\* A waiting job is cancelled, a finished one asked for again.
Withdraw(j) == phase[j] = "waiting" /\ Move({j}, "ended")
Again(S)    == (\A j \in S : phase[j] = "ended") /\ Move(S, "waiting")

\* The process died and came back.
Restart == Move(Running, "waiting")

Next ==
    \/ \E j \in Jobs : Arrive(j) \/ Begin(j) \/ End(j) \/ Withdraw(j)
    \/ \E S \in SUBSET Jobs : Leave(S) \/ Again(S)
    \/ Restart

Spec == Init /\ [][Next]_phase
=============================================================================
