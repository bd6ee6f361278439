----------------------------- MODULE JobService -----------------------------
(***************************************************************************)
(* What running a job on a worker promises: the files a job produced are   *)
(* applied to the master's file system at most once, a job is reported as  *)
(* run only after they were, and a job that is reported as failed (and may *)
(* be run again elsewhere) has left nothing behind.                        *)
(***************************************************************************)
CONSTANT Task

VARIABLES
  job,     \* "sent", "ok" or "err"
  applied  \* jobs whose files are in the master's file system

Init ==
  /\ job = [t \in Task |-> "sent"]
  /\ applied = {}

Apply(S) ==
  /\ S \cap applied = {}
  /\ \A t \in S : job[t] = "sent"
  /\ applied' = applied \cup S
  /\ UNCHANGED job

Report(t) ==
  /\ job[t] = "sent"
  /\ job' = [job EXCEPT ![t] = IF t \in applied THEN "ok" ELSE "err"]
  /\ UNCHANGED applied

Next == \/ \E S \in SUBSET Task : Apply(S)
        \/ \E t \in Task : Report(t)

Spec == Init /\ [][Next]_<<job, applied>>
=============================================================================
