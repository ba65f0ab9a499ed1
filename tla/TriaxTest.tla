------------------------------ MODULE TriaxTest ------------------------------
(***************************************************************************)
(* What a run of triax.h consists of, from the suites and tests that are    *)
(* registered, the filters and tags that select among them and the          *)
(* settings; and a test while it runs: triaxi_run_func, the protocol of the *)
(* assertion macros, and what the code of a test and of its fixtures may   *)
(* do in between.  A test runs in a slot: either in a process of its own,   *)
(* forked for it, or inline in the runner.                                  *)
(*                                                                         *)
(* An isolated test can be killed between any two of its stores to the      *)
(* memory it shares with the runner (state, exit, log), so each of them is  *)
(* a step.                                                                 *)
(***************************************************************************)
EXTENDS TriaxVerdict, Integers, Sequences, SequencesExt

CONSTANTS Plans,    \* the runs, by name (see MCTriax for the fields of suites and tests)
          Slots,    \* TRIAXI_global.slots
          Asserts,  \* the assertions a test may make
          Faults,   \* the signals a test may die of by itself
          Codes     \* the codes it may exit with

ASSUME PlansAssumption ==
  \A n \in DOMAIN Plans :
    /\ Plans[n].njobs \in Nat /\ Plans[n].failFast \in BOOLEAN
    /\ Plans[n].suites \in Seq(Range(Plans[n].suites))
    /\ \A suite \in Range(Plans[n].suites) :
         /\ suite.tests \in Seq(Range(suite.tests))
         /\ \A t \in Range(suite.tests) : t.params \in Nat

-----------------------------------------------------------------------------
(* The run.  Filters are pairs of names, and tags are sets: how they are     *)
(* written on a command line is left out.                                    *)

SuiteFilter(p, suite) == p.filters = {} \/ \E f \in p.filters : f.suite = suite.name

TestFilter(p, suite, t) ==
  p.filters = {} \/ \E f \in p.filters : f.suite = suite.name /\ f.test \in {"", t.name}

TagsMatch(p, suite, t) == p.tags = {} \/ p.tags \cap (suite.tags \cup t.tags) # {}

\* One run of test t of suite n, with what decides whether it is skipped.
Invocation(t, n, skipped) ==
  [f \in DOMAIN t \cup {"suite", "skipped"} |->
     CASE f = "suite" -> n [] f = "skipped" -> skipped [] OTHER -> t[f]]

\* The invocations of suite n: one for each parameter of each selected test.
OfSuite(p, n) ==
  LET suite == p.suites[n]
      Repeated(t) ==
        IF TestFilter(p, suite, t) /\ TagsMatch(p, suite, t)
        THEN [pi \in 1 .. Max({t.params, 1}) |-> Invocation(t, n, suite.skip \/ t.skip)]
        ELSE <<>>
  IN  IF SuiteFilter(p, suite)
      THEN FlattenSeq([ti \in DOMAIN suite.tests |-> Repeated(suite.tests[ti])])
      ELSE <<>>

\* triaxi_runner_init: debugging takes one job and breaks at failed assertions.
RunOf(p) ==
  [suites     |-> p.suites,
   todo       |-> FlattenSeq([n \in DOMAIN p.suites |-> OfSuite(p, n)]),
   jobs       |-> IF p.debug THEN 1 ELSE Max({1, p.njobs}),
   failFast   |-> p.failFast,
   debug      |-> p.debug,
   brk        |-> p.break \/ p.debug,
   interrupts |-> p.interrupts]

Runs == [n \in DOMAIN Plans |-> RunOf(Plans[n])]

-----------------------------------------------------------------------------
\* The runner allocates a slot for each of its jobs, and numbers them from one.
ASSUME SlotsAssumption == \A n \in DOMAIN Plans : 1 .. Runs[n].jobs \subseteq Slots

\* SIGKILL is left to the runner: of a test that raises it by itself no one could tell
\* whether the runner killed it.
ASSUME FaultsAssumption == "kill" \notin Faults

ASSUME AssertsAssumption ==
  Asserts \subseteq [type : {"plain", "fault", "exit"}, ae : BOOLEAN, neg : BOOLEAN,
                     cr : {ANY} \cup Faults \cup Codes]

VARIABLES plan,   \* the run, one of Plans; it never changes
          inv,    \* the invocation in each slot, an index of run.todo, or 0
          state,  \* shared->state
          exit,   \* shared->exit
          log,    \* the assertion log
          ctl,    \* where the test is in triaxi_run_func
          proc,   \* what the operating system knows of the test's process group
          did     \* history: what the code of the test really did

run == Runs[plan]

testVars == <<plan, inv, state, exit, log, ctl, proc, did>>

-----------------------------------------------------------------------------
\* pc: "none", "setpgid", "enter", "init" and "fini" (the fixture loops), "initfn" and
\* "finfn" (in a fixture), "body", "hdr" (header written), "pred" (the asserted
\* expression), "res" (result written), "break", "abort", "finish", "commit", "end".
\* fi: the fixture loop's index.  res: TRIAXI_ExecOutcome.  fault: the signal caught.
\* now: the assertion being evaluated.
NoAssert == [type |-> "none"]
Ctl(pc) == [pc |-> pc, fi |-> 0, res |-> "RETURNED", fault |-> "0", now |-> NoAssert]

\* st: "none", "alive", or "zombie" until the runner reaps it, with status; group:
\* setpgid has been called; desc: a descendant is alive in the group.
NoProc == [st |-> "none", status |-> NoExit, group |-> FALSE, desc |-> FALSE]
Forked == [NoProc EXCEPT !.st = "alive"]

\* how the user's code ended, in which phase, whether a crash or an exit was the
\* expected one, whether some assertion has failed, and whether the runner killed it.
Undecided == [how |-> "running", where |-> "setup", met |-> FALSE, bad |-> FALSE,
              killed |-> FALSE]

TestOf(s)   == run.todo[inv[s]]
Isolated(s) == TestOf(s).isolated /\ ~run.debug
Untimed(s)  == ~TestOf(s).timeout \/ run.debug

At(s, pc) == ctl[s].pc = pc /\ (Isolated(s) => proc[s].st = "alive")

Goto(s, pc) == ctl' = [ctl EXCEPT ![s].pc = pc]

Longjmp(s, res) ==
  ctl' = [ctl EXCEPT ![s].pc = IF res \in {"CRASHED", "ERROR"} THEN "finish" ELSE "fini",
                     ![s].res = res, ![s].fi = 4, ![s].now = NoAssert]

Did(s, how, where, met) ==
  did' = [did EXCEPT ![s].how = how, ![s].where = where, ![s].met = met]

-----------------------------------------------------------------------------
(* triaxi_run_func *)

SetGroup(s) ==
  /\ At(s, "setpgid")
  /\ proc' = [proc EXCEPT ![s].group = TRUE]
  /\ Goto(s, "enter")
  /\ UNCHANGED <<plan, inv, state, exit, log, did>>

Enter(s) ==
  /\ At(s, "enter")
  /\ exit' = [exit EXCEPT ![s] = NoExit]
  /\ Goto(s, "init")
  /\ UNCHANGED <<plan, inv, state, log, proc, did>>

\* The fixtures of the run, the suite and the test, in this order.
NextInit(s) ==
  /\ At(s, "init")
  /\ LET left == {f \in TestOf(s).inits : f > ctl[s].fi}
     IN  IF left # {}
         THEN /\ state' = [state EXCEPT ![s] = "INIT"]
              /\ ctl' = [ctl EXCEPT ![s].pc = "initfn", ![s].fi = Min(left)]
         ELSE /\ state' = [state EXCEPT ![s] = "TEST"]
              /\ Goto(s, "body")
  /\ UNCHANGED <<plan, inv, exit, log, proc, did>>

NextFini(s) ==
  /\ At(s, "fini")
  /\ LET left == {f \in TestOf(s).finis : f < ctl[s].fi}
     IN  IF left # {}
         THEN /\ state' = [state EXCEPT ![s] = "FINI"]
              /\ ctl' = [ctl EXCEPT ![s].pc = "finfn", ![s].fi = Max(left)]
         ELSE /\ state' = [state EXCEPT ![s] = "CLEANUP"]
              /\ Goto(s, "finish")
  /\ UNCHANGED <<plan, inv, exit, log, proc, did>>

\* The first of the two last stores.  A crash gets here only without isolation.
Finish(s) ==
  /\ At(s, "finish")
  /\ CASE ctl[s].res \in {"RETURNED", "ASSERTED"} ->
            /\ state' = [state EXCEPT ![s] = "DONE"]
            /\ Goto(s, "commit")
            /\ UNCHANGED exit
       [] ctl[s].res = "SKIPPED" ->
            /\ state' = [state EXCEPT ![s] = "SKIPPED"]
            /\ Goto(s, "commit")
            /\ UNCHANGED exit
       [] ctl[s].res = "EXCEPTION" ->
            /\ state' = [state EXCEPT ![s] = "TEST"]
            /\ Goto(s, "commit")
            /\ UNCHANGED exit
       [] ctl[s].res = "CRASHED" ->
            /\ exit' = [exit EXCEPT ![s] = Exit("FAULT", ctl[s].fault)]
            /\ Goto(s, "end")
            /\ UNCHANGED state
       [] ctl[s].res = "ERROR" ->
            /\ Goto(s, "end")
            /\ UNCHANGED <<state, exit>>
  /\ UNCHANGED <<plan, inv, log, proc, did>>

Commit(s) ==
  /\ At(s, "commit")
  /\ exit' = [exit EXCEPT ![s] =
                Exit(IF ctl[s].res = "EXCEPTION" THEN "EXCEPTION" ELSE "EXIT", "0")]
  /\ Goto(s, "end")
  /\ UNCHANGED <<plan, inv, state, log, proc, did>>

\* _exit(0) of an isolated test.
Leave(s) ==
  /\ Isolated(s) /\ At(s, "end")
  /\ proc' = [proc EXCEPT ![s].st = "zombie", ![s].status = Exit("EXIT", "0")]
  /\ UNCHANGED <<plan, inv, state, exit, log, ctl, did>>

-----------------------------------------------------------------------------
(* What the code of the test and of its fixtures does. *)

\* Bound: what the code of this test may do besides returning.
May(s, deed) == deed \in TestOf(s).does

InUser(s) == \E pc \in {"initfn", "body", "pred", "finfn"} : At(s, pc)

Where(s) == CASE ctl[s].pc = "initfn" -> "init" [] ctl[s].pc = "finfn" -> "fini"
              [] ctl[s].pc = "pred" -> "assert" [] OTHER -> "test"

\* A signal ends an isolated test.  Without isolation the handler jumps back into
\* triaxi_run_func, which keeps the number of the signal.
Die(s, sig) ==
  IF Isolated(s)
  THEN /\ proc' = [proc EXCEPT ![s].st = "zombie", ![s].status = Exit("FAULT", sig)]
       /\ UNCHANGED ctl
  ELSE /\ ctl' = [ctl EXCEPT ![s].pc = "finish", ![s].res = "CRASHED", ![s].fault = sig,
                             ![s].now = NoAssert]
       /\ UNCHANGED proc

\* The open assertion, if any, expected this end of the process.
Meets(s, type, code) ==
  LET k == ctl[s].now
  IN  k.type = type /\ ~k.neg /\ k.cr \in {ANY, code}

Crash(s) ==
  /\ InUser(s) /\ May(s, "crash")
  /\ \E sig \in Faults :
       /\ Die(s, sig)
       /\ Did(s, IF ctl[s].now.type = "fault" THEN "expected" ELSE "crash", Where(s),
              Meets(s, "fault", sig))
  /\ UNCHANGED <<plan, inv, state, exit, log>>

\* exit(): it also ends the runner when the test is not isolated (see Triax).
CallExit(s) ==
  /\ InUser(s) /\ Isolated(s) /\ May(s, "exit")
  /\ \E code \in Codes :
       /\ proc' = [proc EXCEPT ![s].st = "zombie", ![s].status = Exit("EXIT", code)]
       /\ Did(s, IF ctl[s].now.type = "exit" THEN "expected" ELSE "exit", Where(s),
              Meets(s, "exit", code))
  /\ UNCHANGED <<plan, inv, state, exit, log, ctl>>

\* triaxi_user_error_f up to its longjmp, or up to its abort().
UserError(s) ==
  /\ exit' = [exit EXCEPT ![s] = Exit("ERROR", "0")]
  /\ IF state[s] \in {"TEST", "IN_ASSERT"} THEN Longjmp(s, "ERROR") ELSE Goto(s, "abort")
  /\ Did(s, "misuse", Where(s), FALSE)
  /\ UNCHANGED proc

\* An assertion or triax_skip() in a fixture or inside the expression of another
\* assertion, or a parameter that is not there, wherever it is asked for.
Misuse(s) ==
  /\ InUser(s) /\ May(s, "misuse")
  /\ UserError(s)
  /\ UNCHANGED <<plan, inv, state, log>>

FixtureReturns(s) ==
  /\ \/ At(s, "initfn") /\ Goto(s, "init")
     \/ At(s, "finfn") /\ Goto(s, "fini")
  /\ UNCHANGED <<plan, inv, state, exit, log, proc, did>>

BodyReturns(s) ==
  /\ At(s, "body")
  /\ Longjmp(s, "RETURNED")
  /\ Did(s, "return", "test", FALSE)
  /\ UNCHANGED <<plan, inv, state, exit, log, proc>>

\* triax_skip()
Skip(s) ==
  /\ At(s, "body") /\ May(s, "skip")
  /\ state' = [state EXCEPT ![s] = "TEST"]
  /\ Longjmp(s, "SKIPPED")
  /\ Did(s, "skip", "test", FALSE)
  /\ UNCHANGED <<plan, inv, exit, log, proc>>

\* A C++ test lets an exception escape; `state` stays what it was.
Throw(s) ==
  /\ At(s, "body") \/ At(s, "pred")
  /\ May(s, "throw")
  /\ Longjmp(s, "EXCEPTION")
  /\ Did(s, "throw", "test", FALSE)
  /\ UNCHANGED <<plan, inv, state, exit, log, proc>>

\* The body starts a process of its own, which stays in the group.
Spawn(s) ==
  /\ Isolated(s) /\ At(s, "body") /\ May(s, "spawn")
  /\ proc' = [proc EXCEPT ![s].desc = TRUE]
  /\ UNCHANGED <<plan, inv, state, exit, log, ctl, did>>

-----------------------------------------------------------------------------
(* The assertion macros. *)

\* triaxi_log_hdr up to the write; an exit assertion first asks for isolation.
BeginAssert(s) ==
  /\ At(s, "body") /\ May(s, "assert")
  /\ \E k \in Asserts :
       IF k.type = "exit" /\ ~Isolated(s)
       THEN UserError(s) /\ UNCHANGED log
       ELSE /\ log' = [log EXCEPT ![s] = WithHdr(@, k)]
            /\ ctl' = [ctl EXCEPT ![s].pc = "hdr", ![s].now = k]
            /\ UNCHANGED <<exit, proc, did>>
  /\ UNCHANGED <<plan, inv, state>>

EnterAssert(s) ==
  /\ At(s, "hdr")
  /\ state' = [state EXCEPT ![s] = "IN_ASSERT"]
  /\ Goto(s, "pred")
  /\ UNCHANGED <<plan, inv, exit, log, proc, did>>

\* The expression holds, or it ran to its end where no fault or exit was to come.
PredHolds(s) ==
  /\ At(s, "pred")
  /\ ctl[s].now.type = "plain" \/ ctl[s].now.neg
  /\ state' = [state EXCEPT ![s] = "TEST"]
  /\ ctl' = [ctl EXCEPT ![s].pc = "body", ![s].now = NoAssert]
  /\ UNCHANGED <<plan, inv, exit, log, proc, did>>

\* triaxi_log_res up to the write.
PredFails(s) ==
  /\ At(s, "pred")
  /\ ctl[s].now.type = "plain" \/ ~ctl[s].now.neg
  /\ log' = [log EXCEPT ![s] = WithRes(@)]
  /\ did' = [did EXCEPT ![s].bad = TRUE]
  /\ Goto(s, "res")
  /\ UNCHANGED <<plan, inv, state, exit, proc>>

\* Seeded fault of AfterRes: the debugger is called before the state is reset.
AfterResLate(s) ==
  /\ At(s, "res")
  /\ IF run.brk
     THEN Goto(s, "break") /\ UNCHANGED <<state, did>>
     ELSE /\ state' = [state EXCEPT ![s] = "TEST"]
          /\ Longjmp(s, "ASSERTED") /\ Did(s, "return", "test", FALSE)
  /\ UNCHANGED <<plan, inv, exit, log, proc>>

\* The rest of triaxi_log_res and of the macro: an assertion, unlike an
\* expectation, leaves the test.
AfterRes(s) ==
  /\ At(s, "res")
  /\ state' = [state EXCEPT ![s] = "TEST"]
  /\ CASE run.brk -> Goto(s, "break") /\ UNCHANGED did
       [] ~run.brk /\ ctl[s].now.ae -> Longjmp(s, "ASSERTED") /\ Did(s, "return", "test", FALSE)
       [] ~run.brk /\ ~ctl[s].now.ae ->
            /\ ctl' = [ctl EXCEPT ![s].pc = "body", ![s].now = NoAssert]
            /\ UNCHANGED did
  /\ UNCHANGED <<plan, inv, exit, log, proc>>

\* triaxi_debug_break() without a debugger.
Break(s) ==
  /\ At(s, "break")
  /\ Die(s, "trap")
  /\ Did(s, "crash", "test", FALSE)
  /\ UNCHANGED <<plan, inv, state, exit, log>>

\* Its abort(): the error is in the shared memory already.
Abort(s) ==
  /\ At(s, "abort")
  /\ Die(s, "abrt")
  /\ UNCHANGED <<plan, inv, state, exit, log, did>>

\* The steps of the framework, and those of the user's code.
FrameworkStep(s) ==
  \/ SetGroup(s) \/ Enter(s) \/ NextInit(s) \/ NextFini(s) \/ Finish(s) \/ Commit(s)
  \/ Leave(s) \/ EnterAssert(s) \/ AfterRes(s) \/ Break(s) \/ Abort(s)

UserStep(s) ==
  \/ Crash(s) \/ CallExit(s) \/ Misuse(s) \/ FixtureReturns(s) \/ BodyReturns(s) \/ Skip(s)
  \/ Throw(s) \/ Spawn(s) \/ BeginAssert(s) \/ PredHolds(s) \/ PredFails(s)

TestStep(s) == inv[s] # 0 /\ (FrameworkStep(s) \/ UserStep(s))
=============================================================================
