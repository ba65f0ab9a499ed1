------------------------------- MODULE TestRun -------------------------------
(***************************************************************************)
(* What a run of tests promises, whatever the tests do and however they    *)
(* are scheduled: the invocations start in order, at most `jobs` at a time  *)
(* and one suite after the other; each gets one verdict, for good, and the  *)
(* run's result says whether all of them passed or were skipped.            *)
(***************************************************************************)
EXTENDS Integers, Sequences, FiniteSets

CONSTANTS Verdicts

VARIABLES suites,   \* the suite of each invocation, in order
          jobs, failFast,
          status,   \* of each invocation: "waiting", "running" or its verdict
          result    \* "none", "success" (0), "failure" (1) or "aborted"

vars == <<suites, jobs, failFast, status, result>>

Good == {"PASSED", "SKIP"}
Items == DOMAIN suites
In(st) == {i \in Items : status[i] = st}
Bad == {i \in Items : status[i] \in Verdicts \ Good}

Init ==
  /\ suites \in Seq(Nat) /\ jobs \in Nat \ {0} /\ failFast \in BOOLEAN
  /\ status = [i \in DOMAIN suites |-> "waiting"]
  /\ result = "none"

\* i is next: nothing waits before it and no earlier suite is still running.
MayBegin(i) ==
  /\ result = "none" /\ status[i] = "waiting"
  /\ \A j \in 1 .. i - 1 : status[j] # "waiting"
  /\ \A j \in In("running") : suites[j] = suites[i]
  /\ ~ (failFast /\ Bad # {})

Begin(i) ==
  /\ MayBegin(i) /\ Cardinality(In("running")) < jobs
  /\ status' = [status EXCEPT ![i] = "running"]
  /\ UNCHANGED <<suites, jobs, failFast, result>>

SkipIt(i) ==
  /\ MayBegin(i)
  /\ status' = [status EXCEPT ![i] = "SKIP"]
  /\ UNCHANGED <<suites, jobs, failFast, result>>

Report(i, v) ==
  /\ result = "none" /\ status[i] = "running"
  /\ status' = [status EXCEPT ![i] = v]
  /\ UNCHANGED <<suites, jobs, failFast, result>>

End ==
  /\ result = "none" /\ In("running") = {}
  /\ In("waiting") = {} \/ (failFast /\ Bad # {})
  /\ result' = IF \A i \in Items : status[i] \in Good THEN "success" ELSE "failure"
  /\ UNCHANGED <<suites, jobs, failFast, status>>

Abort ==
  /\ result = "none" /\ result' = "aborted"
  /\ UNCHANGED <<suites, jobs, failFast, status>>

Next ==
  \/ \E i \in In("waiting") : Begin(i) \/ SkipIt(i)
  \/ \E i \in In("running"), v \in Verdicts : Report(i, v)
  \/ End \/ Abort

Spec == Init /\ [][Next]_vars
=============================================================================
