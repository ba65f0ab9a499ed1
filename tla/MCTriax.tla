------------------------------ MODULE MCTriax ------------------------------
(***************************************************************************)
(* Small runs on at most two slots.  A run of one test lets it do all that  *)
(* a test can do; in the runs of several, which are there for the way the   *)
(* slots are shared, each does less.                                        *)
(***************************************************************************)
EXTENDS Triax

Deeds == {"assert", "crash", "exit", "misuse", "skip", "throw", "spawn"}

Test(name, does) ==
  [name |-> name, tags |-> {}, params |-> 0, skip |-> FALSE, isolated |-> TRUE,
   timeout |-> FALSE, malformed |-> FALSE, inits |-> {}, finis |-> {}, does |-> does]

Timed(name, does)  == [Test(name, does) EXCEPT !.timeout = TRUE]
Inline(name, does) == [Test(name, does) EXCEPT !.isolated = FALSE]

Suite(name, tests) == [name |-> name, tags |-> {}, skip |-> FALSE, tests |-> tests]

Plan(suites) ==
  [suites |-> suites, njobs |-> 2, failFast |-> FALSE, debug |-> FALSE, break |-> FALSE,
   filters |-> {}, tags |-> {}, interrupts |-> FALSE]

\* One test that may do everything, in its own process and in the runner's.
Alone(t) == Plan(<<Suite("s", <<[t EXCEPT !.inits = {1, 3}, !.finis = {2}]>>)>>)

OneTest ==
  [k \in {"alone"} \X BOOLEAN \X BOOLEAN |->
     [Alone(Timed("t", Deeds)) EXCEPT !.break = k[2], !.debug = k[3], !.interrupts = TRUE]]
  @@ [k \in {"untimed"} \X {TRUE} \X BOOLEAN |->
        Alone([Test("t", Deeds \ {"spawn"}) EXCEPT !.isolated = k[3]])]

\* Three tests on two slots: one is reused.
Shared ==
  [k \in {"reused"} \X {TRUE} \X BOOLEAN |->
     [Plan(<<Suite("s", <<Timed("a", {"crash"}), Test("b", {"skip"}), Timed("c", {})>>)>>)
        EXCEPT !.failFast = k[3]]]
  @@ [k \in {"parked"} \X {TRUE} \X BOOLEAN |->
        [Plan(<<Suite("s", <<Timed("a", {"spawn"}), Inline("b", {"crash"}), Test("c", {"misuse"})>>)>>)
           EXCEPT !.failFast = k[3], !.interrupts = TRUE]]

\* Two suites; tests that the filters, the tags or their attributes leave out, that
\* are rejected, that run once for each parameter.
Mixed ==
  [k \in {"whole", "filtered"} \X BOOLEAN \X BOOLEAN |->
     [Plan(<<Suite("s", <<Test("a", {"exit"}), [Inline("b", {}) EXCEPT !.timeout = TRUE],
                          [Test("c", {}) EXCEPT !.skip = TRUE, !.tags = {"x"}]>>),
             Suite("u", <<[Inline("d", {"skip"}) EXCEPT !.params = 2, !.tags = {"x"}],
                          [Test("e", {}) EXCEPT !.malformed = TRUE]>>)>>)
        EXCEPT !.failFast = k[2], !.tags = IF k[3] THEN {"x"} ELSE {},
               !.filters = IF k[1] = "whole" THEN {}
                           ELSE {[suite |-> "u", test |-> ""], [suite |-> "s", test |-> "c"]}]]

MCPlans == OneTest @@ Shared @@ Mixed

MCAsserts ==
  [type : {"plain"}, ae : BOOLEAN, neg : {FALSE}, cr : {ANY}]
  \cup [type : {"fault"}, ae : {FALSE}, neg : {FALSE}, cr : {"segv"}]
  \cup [type : {"fault"}, ae : {TRUE}, neg : {TRUE}, cr : {ANY}]
  \cup [type : {"exit"}, ae : {TRUE}, neg : {FALSE}, cr : {"3"}]
  \cup [type : {"exit"}, ae : {FALSE}, neg : {TRUE}, cr : {ANY}]
=============================================================================
