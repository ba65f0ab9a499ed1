-------------------------------- MODULE Triax --------------------------------
(***************************************************************************)
(* The runner of triax.h: triax_run, the loop over a suite that starts the  *)
(* invocations in slots, and triaxi_collect_from_active, which waits for    *)
(* one of them, kills those that are past their deadline, and reports.      *)
(* It is one process; the isolated tests of TriaxTest are others.  This is  *)
(* the POSIX branch of the code.                                            *)
(***************************************************************************)
EXTENDS TriaxTest, SequencesExt

VARIABLES rpc,      \* where the runner is
          ri,       \* the index in `active` it looks at
          su,       \* the suite it runs
          next,     \* the next invocation, an index of run.todo
          failed,   \* failed_fast of triaxi_suite_run
          stop,     \* failed_fast of triax_run
          active,   \* the slots, those in flight first
          nactive,
          process,  \* slot->process is set
          late,     \* the test's deadline has passed
          verdict,  \* what was reported of each invocation; gives the counts
          result

runVars == <<rpc, ri, su, next, failed, stop, active, nactive, process, late, verdict, result>>
vars == <<testVars, runVars>>

Ended == {"done", "fatal", "unreachable", "exited", "signalled"}

-----------------------------------------------------------------------------
NoVerdict == "none"

Init ==
  /\ plan \in DOMAIN Plans
  /\ inv = [s \in Slots |-> 0]
  /\ state = [s \in Slots |-> "SETUP"] /\ exit = [s \in Slots |-> NoExit]
  /\ log = [s \in Slots |-> EmptyLog] /\ ctl = [s \in Slots |-> Ctl("none")]
  /\ proc = [s \in Slots |-> NoProc] /\ did = [s \in Slots |-> Undecided]
  /\ rpc = "suite" /\ ri = 1 /\ su = 1 /\ next = 1 /\ failed = FALSE /\ stop = FALSE
  /\ active = [i \in 1 .. run.jobs |-> i] /\ nactive = 0
  /\ process = [s \in Slots |-> FALSE] /\ late = [s \in Slots |-> FALSE]
  /\ verdict = [i \in DOMAIN run.todo |-> NoVerdict]
  /\ result = "none"

-----------------------------------------------------------------------------
(* triaxi_suite_run: starting the tests of a suite *)

Good == {"PASSED", "SKIP"}
IsBad(v) == v \in Outcomes \ Good

Todo == run.todo

Pending == next <= Len(Todo) /\ Todo[next].suite = su
Launching == rpc = "suite" /\ Pending /\ ~failed /\ ~stop

TakeSlot == active[nactive + 1]

\* A test that is skipped by its attributes is reported without being started.
SkipByAttr ==
  /\ Launching /\ Todo[next].skipped
  /\ verdict' = [verdict EXCEPT ![next] = "SKIP"]
  /\ next' = next + 1
  /\ UNCHANGED <<testVars, rpc, ri, su, failed, stop, active, nactive, process, late, result>>

\* All slots are taken, or the suite has nothing left to start: wait for a result.
Collecting ==
  /\ rpc = "suite" /\ nactive > 0
  /\ \/ Launching /\ ~Todo[next].skipped /\ nactive = run.jobs
     \/ ~Launching
  /\ rpc' = "poll" /\ ri' = 1
  /\ UNCHANGED <<testVars, su, next, failed, stop, active, nactive, process, late, verdict,
                 result>>

\* active[nactive++] = h
Activate(s) ==
  /\ active' = [active EXCEPT ![nactive + 1] = s]
  /\ nactive' = nactive + 1
  /\ next' = next + 1
  /\ rpc' = "suite"

\* triaxi_test_start, up to the fork.
MayStart == Launching /\ ~Todo[next].skipped /\ nactive < run.jobs

Prepare(s, ex) ==
  /\ inv' = [inv EXCEPT ![s] = next]
  /\ state' = [state EXCEPT ![s] = "SETUP"]
  /\ exit' = [exit EXCEPT ![s] = ex]
  /\ late' = [late EXCEPT ![s] = FALSE]

\* Malformed parameters, or a timeout that nothing could enforce: an error, and no
\* test is run.
Rejected(t) == t.malformed \/ (t.timeout /\ ~t.isolated /\ ~run.debug)

StartRejected ==
  /\ MayStart /\ Rejected(Todo[next])
  /\ LET s == TakeSlot
     IN  /\ Prepare(s, Exit("ERROR", "0"))
         /\ did' = [did EXCEPT ![s].how = "misuse"]
         /\ Activate(s)
  /\ UNCHANGED <<plan, log, ctl, proc, ri, su, failed, stop, process, verdict, result>>

StartIsolated ==
  /\ MayStart /\ ~Rejected(Todo[next]) /\ Todo[next].isolated /\ ~run.debug
  /\ LET s == TakeSlot
     IN  /\ Prepare(s, NoExit)
         /\ proc' = [proc EXCEPT ![s] = Forked]
         /\ ctl' = [ctl EXCEPT ![s] = Ctl("setpgid")]
  /\ rpc' = "forked"
  /\ UNCHANGED <<plan, log, did, ri, su, next, failed, stop, active, nactive, process, verdict,
                 result>>

\* fork() has returned in the runner.
RecordChild ==
  /\ rpc = "forked"
  /\ process' = [process EXCEPT ![TakeSlot] = TRUE]
  /\ Activate(TakeSlot)
  /\ UNCHANGED <<testVars, ri, su, failed, stop, late, verdict, result>>

StartInline ==
  /\ MayStart /\ ~Rejected(Todo[next]) /\ (~Todo[next].isolated \/ run.debug)
  /\ LET s == TakeSlot
     IN  /\ Prepare(s, NoExit)
         /\ ctl' = [ctl EXCEPT ![s] = Ctl("enter")]
  /\ rpc' = "inline"
  /\ UNCHANGED <<plan, log, proc, did, ri, su, next, failed, stop, active, nactive, process,
                 verdict, result>>

\* triaxi_run_func has returned: the result waits in its slot to be collected.
Park ==
  /\ rpc = "inline" /\ ctl[TakeSlot].pc = "end"
  /\ Activate(TakeSlot)
  /\ UNCHANGED <<testVars, ri, su, failed, stop, process, late, verdict, result>>

\* exit() in a test that shares the runner's process.
ExitInline ==
  /\ rpc = "inline" /\ InUser(TakeSlot) /\ May(TakeSlot, "exit")
  /\ rpc' = "exited"
  /\ UNCHANGED <<testVars, ri, su, next, failed, stop, active, nactive, process, late, verdict,
                 result>>

\* Seeded fault of EndSuite: a failure in the last tests of a suite does not stop the run.
EndSuiteGoOn ==
  /\ rpc = "suite" /\ ~Launching /\ nactive = 0 /\ su <= Len(run.suites) /\ ~stop
  /\ stop' = failed
  /\ next' = Max({next} \cup {i + 1 : i \in {j \in DOMAIN Todo : Todo[j].suite = su}})
  /\ su' = su + 1 /\ failed' = FALSE
  /\ UNCHANGED <<testVars, rpc, ri, active, nactive, process, late, verdict, result>>

\* The end of triaxi_suite_run, and of triax_run.
EndSuite ==
  /\ rpc = "suite" /\ ~Launching /\ nactive = 0 /\ su <= Len(run.suites) /\ ~stop
  /\ LET mine == {i \in DOMAIN Todo : Todo[i].suite = su}
     IN  /\ stop' = (run.failFast /\ \E i \in mine : IsBad(verdict[i]))
         /\ next' = Max({next} \cup {i + 1 : i \in mine})
  /\ su' = su + 1 /\ failed' = FALSE
  /\ UNCHANGED <<testVars, rpc, ri, active, nactive, process, late, verdict, result>>

EndRun ==
  /\ rpc = "suite" /\ nactive = 0 /\ (stop \/ su > Len(run.suites))
  /\ rpc' = "done"
  /\ LET good == {i \in DOMAIN Todo : verdict[i] \in Good}
     IN  result' = IF Cardinality(good) # Len(Todo) THEN "failure" ELSE "success"
  /\ UNCHANGED <<testVars, ri, su, next, failed, stop, active, nactive, process, late, verdict>>

-----------------------------------------------------------------------------
(* triaxi_collect_from_active *)

Killed(s) ==
  IF proc[s].st = "alive"
  THEN [proc[s] EXCEPT !.st = "zombie", !.status = Exit("FAULT", "kill"), !.desc = FALSE]
  ELSE [proc[s] EXCEPT !.desc = FALSE]

\* Seeded fault of Fix: what waitpid says replaces what the test wrote.
FixAlways(s, ex) == ex

\* A verdict the test wrote itself stands.
Fix(s, ex) == IF exit[s].type = "NONE" THEN ex ELSE exit[s]

\* Seeded fault of Reaped: the group is left alone when its root ended by itself.
ReapedRootOnly(s, terminated) == [NoProc EXCEPT !.desc = proc[s].desc]

\* What is left of the process group of s once its root has been reaped.
Reaped(s, terminated) ==
  [NoProc EXCEPT !.desc = proc[s].desc /\ ~terminated]

\* triaxi_fatal_f in the runner: the groups it knows of get a signal, and it aborts.
Fatal(s, v) ==
  /\ rpc' = v
  /\ proc' = [r \in Slots |-> IF r # s /\ process[r] /\ proc[r].group THEN Killed(r) ELSE proc[r]]
  /\ UNCHANGED <<plan, inv, state, exit, log, ctl, did, ri, su, next, failed, stop, active,
                 nactive, process, late, verdict, result>>

\* active[i] = active[--*inflight], active[*inflight] = h
SwapOut(i) == [active EXCEPT ![i] = active[nactive], ![nactive] = active[i]]

\* triaxi_collect_active_at, with the test's final exit: report it, empty the slot,
\* and put the slot behind those that are in flight.
CollectAt(i, ex, terminated) ==
  LET s == active[i]
      v == Interpret(state[s], ex, log[s])
  IN  IF v \in {"fatal", "unreachable"}
      THEN Fatal(s, v)
      ELSE /\ verdict' = [verdict EXCEPT ![inv[s]] = v]
           /\ exit' = [exit EXCEPT ![s] = ex]
           /\ log' = [log EXCEPT ![s] = EmptyLog]
           /\ proc' = [proc EXCEPT ![s] = Reaped(s, terminated \/ process[s])]
           /\ process' = [process EXCEPT ![s] = FALSE]
           /\ active' = SwapOut(i)
           /\ nactive' = nactive - 1
           /\ failed' = (failed \/ (Pending /\ run.failFast /\ IsBad(v)))
           /\ rpc' = "suite" /\ ri' = 1
           /\ inv' = [inv EXCEPT ![s] = 0] /\ ctl' = [ctl EXCEPT ![s] = Ctl("none")]
           /\ did' = [did EXCEPT ![s] = Undecided] /\ late' = [late EXCEPT ![s] = FALSE]
           /\ UNCHANGED <<plan, state, su, next, stop, result>>

Here == active[ri]
Waitable(s) == process[s] /\ proc[s].st = "zombie"
Looking(pc) == rpc = pc /\ UNCHANGED <<su, next, failed, stop, active, nactive, process, verdict,
                                      result>>

Status(s) == proc[s].status

\* A result that waits in its slot.
CollectParked ==
  /\ rpc = "poll" /\ ~process[Here]
  /\ CollectAt(ri, exit[Here], FALSE)

\* The test has ended: seen by the first probe, or by one of the two that follow
\* once its deadline has passed.
CollectEnded ==
  /\ rpc \in {"poll", "late", "third"} /\ Waitable(Here)
  /\ CollectAt(ri, Fix(Here, Status(Here)), FALSE)

\* Still running.  The loop goes round; with one test left that has no deadline the
\* runner blocks instead.
LookOn ==
  /\ Looking("poll") /\ process[Here] /\ ~Waitable(Here)
  /\ Untimed(Here) \/ ~late[Here]
  /\ ~ (nactive = 1 /\ Untimed(Here))
  /\ ri' = (ri % nactive) + 1
  /\ UNCHANGED <<testVars, rpc, late>>

Overdue ==
  /\ Looking("poll") /\ process[Here] /\ ~Waitable(Here)
  /\ ~Untimed(Here) /\ late[Here]
  /\ rpc' = "late"
  /\ UNCHANGED <<testVars, ri, late>>

StillThere ==
  /\ Looking("late") /\ ~Waitable(Here)
  /\ rpc' = "kill"
  /\ UNCHANGED <<testVars, ri, late>>

Mark(s, p) ==
  /\ proc' = [proc EXCEPT ![s] = p]
  /\ did' = [did EXCEPT ![s].killed = proc[s].st = "alive"]

\* Seeded fault of KillGroup: a group that is not there yet counts as dead.
KillGroupOnly ==
  /\ Looking("kill")
  /\ IF proc[Here].group THEN Mark(Here, Killed(Here)) ELSE UNCHANGED <<proc, did>>
  /\ rpc' = "wait"
  /\ UNCHANGED <<plan, inv, state, exit, log, ctl, ri, late>>

\* kill(-pid): the whole group, which is there once the child has made it.
KillGroup ==
  /\ Looking("kill")
  /\ IF proc[Here].group
     THEN Mark(Here, Killed(Here)) /\ rpc' = "wait"
     ELSE rpc' = "third" /\ UNCHANGED <<proc, did>>
  /\ UNCHANGED <<plan, inv, state, exit, log, ctl, ri, late>>

\* kill(pid): the child, whose group was not there a moment ago.
KillChild ==
  /\ Looking("third") /\ ~Waitable(Here)
  /\ Mark(Here, [Killed(Here) EXCEPT !.desc = proc[Here].desc])
  /\ rpc' = "wait"
  /\ UNCHANGED <<plan, inv, state, exit, log, ctl, ri, late>>

\* The blocking waitpid after the kill, and terminate_group for what is left.
CollectKilled ==
  /\ rpc = "wait" /\ Waitable(Here)
  /\ CollectAt(ri, Fix(Here, IF Status(Here) = Exit("FAULT", "kill")
                             THEN Exit("TIMEOUT", "0") ELSE Status(Here)), TRUE)

-----------------------------------------------------------------------------
(* The rest of the world: the clock, descendants, and a signal to the runner. *)

DeadlinePasses(s) ==
  /\ inv[s] # 0 /\ ~Untimed(s) /\ ~late[s] /\ rpc \notin Ended
  /\ late' = [late EXCEPT ![s] = TRUE]
  /\ UNCHANGED <<testVars, rpc, ri, su, next, failed, stop, active, nactive, process, verdict,
                 result>>

DescendantEnds(s) ==
  /\ proc[s].desc /\ rpc \notin Ended
  /\ proc' = [proc EXCEPT ![s].desc = FALSE]
  /\ UNCHANGED <<plan, inv, state, exit, log, ctl, did, runVars>>

\* triaxi_sighandler_termination in the runner, at any moment.
Signalled ==
  /\ run.interrupts /\ rpc \notin Ended
  /\ rpc' = "signalled"
  /\ proc' = [s \in Slots |-> IF process[s] /\ proc[s].group THEN Killed(s) ELSE proc[s]]
  /\ UNCHANGED <<plan, inv, state, exit, log, ctl, did, ri, su, next, failed, stop, active,
                 nactive, process, late, verdict, result>>

TestRuns(s) == rpc \notin Ended /\ TestStep(s) /\ UNCHANGED runVars

RunnerStep ==
  \/ SkipByAttr \/ Collecting \/ StartRejected \/ StartIsolated \/ RecordChild
  \/ StartInline \/ Park \/ EndSuite \/ EndRun
  \/ CollectParked \/ CollectEnded \/ LookOn \/ Overdue \/ StillThere
  \/ KillGroup \/ KillChild \/ CollectKilled

\* The runner is gone.
Over == rpc \in Ended /\ UNCHANGED vars

Next ==
  \/ RunnerStep \/ ExitInline \/ Signalled \/ Over
  \/ \E s \in Slots : TestRuns(s) \/ DeadlinePasses(s) \/ DescendantEnds(s)

\* The runner and the clock go on.  A test that nothing bounds goes on too, and its
\* body, whatever it asserts on the way, returns in the end.
Fairness ==
  /\ WF_vars(RunnerStep)
  /\ \A s \in Slots : /\ WF_vars(DeadlinePasses(s))
                       /\ WF_vars(inv[s] # 0 /\ Untimed(s) /\ TestRuns(s))
                       /\ SF_vars(inv[s] # 0 /\ Untimed(s) /\ rpc \notin Ended
                                  /\ BodyReturns(s) /\ UNCHANGED runVars)

Spec == Init /\ [][Next]_vars /\ Fairness

-----------------------------------------------------------------------------
(* Properties *)

InFlight == {active[i] : i \in 1 .. nactive}
Starting == IF rpc \in {"forked", "inline"} THEN {TakeSlot} ELSE {}

\* The array of slots stays a permutation under the swaps of
\* triaxi_collect_active_at, its first part are the slots with a test in them, no two
\* of them have the same, and a slot is free only when nothing is left in it.
SlotsExact ==
  /\ \A i, j \in 1 .. run.jobs : active[i] = active[j] => i = j
  /\ rpc \notin Ended => {s \in Slots : inv[s] # 0} = InFlight \cup Starting
  /\ \A r, s \in Slots : inv[r] = inv[s] /\ inv[r] # 0 => r = s
  /\ \A s \in Slots : inv[s] = 0 => ~process[s] /\ log[s] = EmptyLog

\* A slot is given back only when no process of its last test lives on.  When a signal
\* ends the runner, the only tests that survive it are those whose group was not
\* there yet or whose number it did not have yet.
Contained ==
  /\ \A s \in Slots : inv[s] = 0 => proc[s] = NoProc
  /\ rpc = "signalled" =>
       \A s \in Slots : proc[s].st = "alive" =>
         ctl[s].pc = "setpgid" \/ (~process[s] /\ s \in {active[i] : i \in nactive + 1 .. run.jobs})

\* A slot that is free is free: none of its records, and no process, is left over from
\* the test it held, however tests were reaped, killed and swapped out of order.
SlotsFree == SlotsExact /\ Contained

\* What a test deserves, from what its code did (the outcomes of triax.h:2707).
Deserved(d) ==
  IF \/ d.how = "misuse"
     \/ d.how \in {"crash", "exit", "expected"} /\ d.where \in {"init", "fini"}
  THEN "ERROR"
  ELSE CASE d.how = "crash" -> "UCRASH"
         [] d.how = "exit"  -> "UEXIT"
         [] d.how = "throw" -> "UEXCEPT"
         [] d.how = "skip"  -> "SKIP"
         [] d.how = "expected" /\ ~d.met -> "FAIL"
         [] OTHER -> IF d.bad THEN "FAIL" ELSE "PASSED"

\* One that the runner killed has timed out, unless its code had come to its end.
Allowed(s) ==
  LET d == did[s]
      over == ctl[s].pc \in {"abort", "finish", "commit", "end"}
  IN  IF ~d.killed THEN {Deserved(d)}
      ELSE IF over THEN {Deserved(d), "TIMEOUT"} ELSE {"TIMEOUT"}

\* The verdict reported of an invocation is the one that invocation deserves: not
\* that of another test that had the slot, not a timeout for a test that ended by
\* itself while it was about to be killed, nor a pass for one that did not finish.
VerdictsTrue ==
  [][\A i \in DOMAIN verdict : verdict'[i] # verdict[i] =>
       IF Todo[i].skipped THEN verdict'[i] = "SKIP"
       ELSE \E s \in Slots : inv[s] = i /\ verdict'[i] \in Allowed(s)]_vars

\* The cells of triaxi_test_interpret that are marked impossible are, but for one: a
\* test killed after it wrote a result and before it left the assertion.
CellsImpossible ==
  /\ rpc # "unreachable"
  /\ rpc = "fatal" => did[Here].killed /\ ctl[Here].pc = "res"

\* The comments in triaxi_test_interpret claim there is no exception.
NoFatal == rpc # "fatal"

\* The runner as an abstract run of tests.
StatusOf(i) ==
  IF verdict[i] # NoVerdict THEN verdict[i]
  ELSE IF \E s \in Slots : inv[s] = i THEN "running" ELSE "waiting"

Abstract == INSTANCE TestRun WITH
  Verdicts <- Outcomes,
  suites <- [i \in DOMAIN Todo |-> Todo[i].suite],
  jobs <- run.jobs,
  failFast <- run.failFast,
  status <- [i \in DOMAIN Todo |-> StatusOf(i)],
  result <- CASE rpc = "done" -> result [] rpc \in Ended \ {"done"} -> "aborted" [] OTHER -> "none"

ImplementsRun == Abstract!Spec

\* A run comes to its end, whatever the tests that have a timeout do.
RunEnds == <>(rpc \in Ended)
=============================================================================
