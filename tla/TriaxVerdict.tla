---------------------------- MODULE TriaxVerdict ----------------------------
(***************************************************************************)
(* How the runner of triax.h classifies a test that has ended, from what   *)
(* the test left behind: the phase it was in (TRIAXI_State), the reason it *)
(* ended (TRIAXI_Exit) and its log of assertions.                          *)
(*                                                                         *)
(* The log is a sequence of headers, each followed by a result when the    *)
(* assertion failed.  Two things about it decide a verdict: whether it has  *)
(* a result at all, and the header at its end that has none.                *)
(***************************************************************************)
States == {"SETUP", "INIT", "TEST", "IN_ASSERT", "FINI", "CLEANUP", "DONE", "SKIPPED"}

Outcomes == {"SKIP", "PASSED", "FAIL", "UCRASH", "UEXIT", "UEXCEPT", "TIMEOUT", "ERROR"}

ANY == "any"      \* TRIAX_EXIT_ANY, TRIAX_FAULT_ANY: UINT32_MAX

NoHdr == [type |-> "none"]

\* A header names the kind of assertion ("plain", "fault" or "exit"); for the last
\* two also the code it expects and whether the expectation is negated.
Hdr(k) == [type |-> k.type, neg |-> k.neg, cr |-> k.cr]

EmptyLog == [failed |-> FALSE, last |-> NoHdr]

WithHdr(log, k) == [log EXCEPT !.last = Hdr(k)]

\* The result completes the last header.
WithRes(log) == [failed |-> TRUE, last |-> NoHdr]

Exit(type, code) == [type |-> type, code |-> code]
NoExit == Exit("NONE", "0")

\* state_hdr: the log holds no assertion that is still open.
AtHdr(state, exit, soFar) ==
  CASE state \in {"SETUP", "INIT", "FINI", "CLEANUP"} ->
         IF exit.type = "TIMEOUT" THEN "TIMEOUT" ELSE "ERROR"
    [] state = "TEST" ->
         CASE exit.type = "TIMEOUT"   -> "TIMEOUT"
           [] exit.type = "ERROR"     -> "ERROR"
           [] exit.type = "FAULT"     -> "UCRASH"
           [] exit.type = "EXIT"      -> "UEXIT"
           [] exit.type = "EXCEPTION" -> "UEXCEPT"
           [] OTHER                   -> "unreachable"
    [] state = "IN_ASSERT" -> IF exit.type = "ERROR" THEN "ERROR" ELSE "fatal"
    [] state = "DONE" -> soFar
    [] OTHER -> "unreachable"

\* What an assertion that waited for an exit or a fault says of the one that came.
Expected(hdr, code, soFar) ==
  IF hdr.neg \/ hdr.cr \notin {ANY, code} THEN "FAIL" ELSE soFar

\* state_res: the last header has no result.
AtRes(state, exit, soFar, hdr) ==
  IF state # "IN_ASSERT"
  THEN AtHdr(state, exit, soFar)
  ELSE CASE exit.type = "TIMEOUT"   -> "TIMEOUT"
         [] exit.type = "ERROR"     -> "ERROR"
         [] exit.type = "EXCEPTION" -> "UEXCEPT"
         [] exit.type = "EXIT"  -> IF hdr.type = "exit"
                                   THEN Expected(hdr, exit.code, soFar) ELSE "UEXIT"
         [] exit.type = "FAULT" -> IF hdr.type = "fault"
                                   THEN Expected(hdr, exit.code, soFar) ELSE "UCRASH"
         [] OTHER -> "unreachable"

Interpret(state, exit, log) ==
  LET soFar == IF log.failed THEN "FAIL" ELSE "PASSED"
  IN  IF state = "SKIPPED" THEN "SKIP"
      ELSE IF log.last = NoHdr THEN AtHdr(state, exit, soFar)
      ELSE AtRes(state, exit, soFar, log.last)
=============================================================================
