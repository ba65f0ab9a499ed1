----------------------------- MODULE TriaxProofs ------------------------------
(*****************************************************************************)
(* For every plan, number of slots, assertion, fault and exit code: a slot   *)
(* of the runner that is free holds nothing of the test it held before, the  *)
(* verdict that the runner reports is the one that the code of the test      *)
(* deserves, no test comes to a cell of the verdict table that is marked     *)
(* impossible, and the run is one of TestRun: a test waits, runs and gets its*)
(* outcome.                                                                  *)
(*****************************************************************************)
EXTENDS Triax, NatFacts

-----------------------------------------------------------------------------
(* The runs *)

\* f is FlattenSeq of the first k sequences, and of each shorter run of them.
FlattensTo(ss, k, f) == f = [i \in 1 .. k |-> IF i = 1 THEN ss[i] ELSE f[i - 1] \o ss[i]]

\* The recursion of FlattenSeq has a solution.
LEMMA FlattenExists ==
  ASSUME NEW S, NEW ss \in Seq(Seq(S)), NEW n \in Nat, n <= Len(ss)
  PROVE  \E f : FlattensTo(ss, n, f)
<1> DEFINE Bad == {k \in Nat : k <= Len(ss) /\ ~ \E f : FlattensTo(ss, k, f)}
<1>1. SUFFICES ASSUME Bad # {}
               PROVE  FALSE
  OBVIOUS
<1>2. PICK k \in Bad : \A e \in Bad : k <= e
  BY <1>1, LeastExists
<1>3. CASE k = 0
  <2>1. FlattensTo(ss, 0, [i \in 1 .. 0 |-> ss[i]])
    BY DEF FlattensTo
  <2>2. QED
    BY <1>2, <1>3, <2>1
<1>4. CASE k # 0
  <2>1. k \in Nat /\ k - 1 \in Nat /\ k - 1 <= Len(ss) /\ k - 1 < k
    BY <1>2, <1>4
  <2>2. PICK f : FlattensTo(ss, k - 1, f)
    <3>1. k - 1 \notin Bad
      <4> HIDE DEF Bad
      <4>1. QED
        BY <1>2, <2>1
    <3>2. QED
      BY <2>1, <3>1
  <2> DEFINE g == [i \in 1 .. k |-> IF i < k THEN f[i] ELSE IF i = 1 THEN ss[i] ELSE f[i - 1] \o ss[i]]
  <2>3. \A i \in 1 .. k : g[i] = IF i = 1 THEN ss[i] ELSE g[i - 1] \o ss[i]
    <3>1. SUFFICES ASSUME NEW i \in 1 .. k
                   PROVE  g[i] = IF i = 1 THEN ss[i] ELSE g[i - 1] \o ss[i]
      OBVIOUS
    <3>2. i # 1 => i - 1 \in 1 .. k /\ i - 1 < k /\ g[i - 1] = f[i - 1]
      BY <2>1, <3>1
    <3>3. CASE i < k
      <4>1. i \in 1 .. (k - 1)
        BY <2>1, <3>1, <3>3
      <4>2. f[i] = IF i = 1 THEN ss[i] ELSE f[i - 1] \o ss[i]
        BY <2>2, <4>1 DEF FlattensTo
      <4>3. QED
        BY <3>1, <3>2, <3>3, <4>2
    <3>4. CASE ~ (i < k)
      BY <3>1, <3>2, <3>4
    <3>5. QED
      BY <3>3, <3>4
  <2>4. FlattensTo(ss, k, g)
    <3>1. g = [i \in 1 .. k |-> g[i]]
      OBVIOUS
    <3> HIDE DEF g
    <3>2. QED
      BY <2>3, <3>1 DEF FlattensTo
  <2>5. QED
    BY <1>2, <2>4
<1>5. QED
  BY <1>3, <1>4

\* Putting sequences one behind the other makes a sequence.
LEMMA FlattenIsSeq ==
  ASSUME NEW S, NEW ss \in Seq(Seq(S))
  PROVE  FlattenSeq(ss) \in Seq(S)
<1> DEFINE n == Len(ss)
           fl == CHOOSE f : FlattensTo(ss, n, f)
<1>1. n \in Nat /\ \A i \in 1 .. n : ss[i] \in Seq(S)
  OBVIOUS
<1>2. FlattensTo(ss, n, fl)
  BY <1>1, FlattenExists
<1>3. CASE n = 0
  BY <1>3 DEF FlattenSeq
<1>4. CASE n # 0
  <2>1. FlattenSeq(ss) = fl[n]
    BY <1>4 DEF FlattenSeq, FlattensTo
  <2> HIDE DEF n, fl
  <2> DEFINE Bad == {i \in Nat : i \in 1 .. n /\ fl[i] \notin Seq(S)}
  <2>2. Bad = {}
    <3>1. SUFFICES ASSUME Bad # {}
                   PROVE  FALSE
      OBVIOUS
    <3>2. PICK i \in Bad : \A e \in Bad : i <= e
      BY <3>1, LeastExists
    <3>3. i \in 1 .. n /\ fl[i] = IF i = 1 THEN ss[i] ELSE fl[i - 1] \o ss[i]
      BY <1>2, <3>2 DEF FlattensTo
    <3>4. i # 1 => i - 1 \in 1 .. n /\ i - 1 < i
      BY <1>1, <3>3
    <3>5. i # 1 => fl[i - 1] \in Seq(S)
      BY <3>2, <3>4
    <3>6. fl[i] \in Seq(S)
      BY <1>1, <3>3, <3>5
    <3>7. QED
      BY <3>2, <3>6
  <2>3. QED
    BY <1>1, <1>4, <2>1, <2>2, SMTT(30)
<1>5. QED
  BY <1>3, <1>4

\* Where the sequences name their places, the one they make is in order.
LEMMA FlattenInOrder ==
  ASSUME NEW S, NEW ss \in Seq(Seq(S)),
         \A n \in 1 .. Len(ss) : \A i \in DOMAIN ss[n] : ss[n][i].suite = n
  PROVE  LET f == FlattenSeq(ss)
         IN  /\ \A i \in DOMAIN f : f[i].suite \in 1 .. Len(ss)
             /\ \A i, j \in DOMAIN f : i <= j => f[i].suite <= f[j].suite
<1> DEFINE n == Len(ss)
           fl == CHOOSE f : FlattensTo(ss, n, f)
           InOrder(f, k) == /\ f \in Seq(S)
                            /\ \A i \in DOMAIN f : f[i].suite \in 1 .. k
                            /\ \A i, j \in DOMAIN f : i <= j => f[i].suite <= f[j].suite
<1>1. /\ n \in Nat /\ \A i \in 1 .. n : ss[i] \in Seq(S)
      /\ \A m \in 1 .. n : \A i \in DOMAIN ss[m] : ss[m][i].suite = m
  OBVIOUS
<1>2. FlattensTo(ss, n, fl)
  BY <1>1, FlattenExists
<1>3. CASE n = 0
  <2>1. FlattenSeq(ss) = ss
    BY <1>3 DEF FlattenSeq
  <2>2. QED
    BY <1>3, <2>1
<1>4. CASE n # 0
  <2>1. FlattenSeq(ss) = fl[n]
    BY <1>4 DEF FlattenSeq, FlattensTo
  <2> HIDE DEF n, fl, InOrder
  <2> DEFINE Bad == {i \in Nat : i \in 1 .. n /\ ~ InOrder(fl[i], i)}
  <2>2. Bad = {}
    <3>1. SUFFICES ASSUME Bad # {}
                   PROVE  FALSE
      OBVIOUS
    <3>2. PICK k \in Bad : \A e \in Bad : k <= e
      BY <3>1, LeastExists
    <3>3. k \in 1 .. n /\ fl[k] = IF k = 1 THEN ss[k] ELSE fl[k - 1] \o ss[k]
      BY <1>2, <3>2 DEF FlattensTo
    <3>4. CASE k = 1
      <4>1. fl[k] \in Seq(S) /\ \A i \in DOMAIN fl[k] : fl[k][i].suite = 1
        BY <1>1, <3>3, <3>4
      <4>2. InOrder(fl[k], k)
        BY <3>4, <4>1 DEF InOrder
      <4>3. QED
        BY <3>2, <4>2
    <3>5. CASE k # 1
      <4>1. k - 1 \in 1 .. n /\ k - 1 < k /\ k \in Nat /\ k - 1 \in Nat
        BY <1>1, <3>3, <3>5
      <4>2. InOrder(fl[k - 1], k - 1)
        BY <3>2, <4>1
      <4> DEFINE a == fl[k - 1]
                 b == ss[k]
                 f == a \o b
      <4>3. /\ a \in Seq(S) /\ \A i \in DOMAIN a : a[i].suite \in 1 .. k - 1
            /\ \A i, j \in DOMAIN a : i <= j => a[i].suite <= a[j].suite
        BY <4>2 DEF InOrder
      <4>4. b \in Seq(S) /\ \A i \in DOMAIN b : b[i].suite = k
        BY <1>1, <3>3
      <4> HIDE DEF a, b
      <4>5. /\ f \in Seq(S) /\ Len(a) \in Nat /\ Len(b) \in Nat
            /\ DOMAIN a = 1 .. Len(a) /\ DOMAIN b = 1 .. Len(b)
            /\ DOMAIN f = 1 .. Len(a) + Len(b)
            /\ \A i \in 1 .. Len(a) + Len(b) : f[i] = IF i <= Len(a) THEN a[i] ELSE b[i - Len(a)]
        BY <4>3, <4>4
      <4> HIDE DEF f
      <4>6. ASSUME NEW i \in DOMAIN f
            PROVE  /\ i <= Len(a) => i \in DOMAIN a /\ f[i].suite = a[i].suite
                   /\ i > Len(a) => f[i].suite = k
        <5>1. i \in 1 .. Len(a) + Len(b) /\ i \in Nat /\ f[i] = IF i <= Len(a) THEN a[i] ELSE b[i - Len(a)]
          BY <4>5, <4>6
        <5>2. CASE i <= Len(a)
          BY <4>5, <5>1, <5>2
        <5>3. CASE i > Len(a)
          <6>1. i - Len(a) \in DOMAIN b /\ f[i] = b[i - Len(a)]
            BY <4>5, <5>1, <5>3
          <6>2. QED
            BY <4>4, <4>5, <5>1, <5>3, <6>1
        <5>4. QED
          BY <4>5, <5>1, <5>2, <5>3
      <4>7. \A i \in DOMAIN f : f[i].suite \in 1 .. k
        BY <4>1, <4>3, <4>5, <4>6
      <4>8. ASSUME NEW i \in DOMAIN f, NEW j \in DOMAIN f, i <= j
            PROVE  f[i].suite <= f[j].suite
        <5>1. CASE j <= Len(a)
          <6>1. i \in Nat /\ j \in Nat /\ Len(a) \in Nat
            BY <4>5, <4>8
          <6>2. i <= Len(a)
            BY <4>8, <5>1, <6>1
          <6>3. /\ i \in DOMAIN a /\ f[i].suite = a[i].suite
                /\ j \in DOMAIN a /\ f[j].suite = a[j].suite
            BY <4>6, <4>8, <5>1, <6>2
          <6>4. a[i].suite <= a[j].suite
            BY <4>3, <4>8, <6>3
          <6>5. QED
            BY <6>3, <6>4
        <5>2. CASE j > Len(a)
          BY <4>1, <4>5, <4>6, <4>7, <4>8, <5>2
        <5>3. QED
          BY <4>5, <5>1, <5>2
      <4>9. InOrder(f, k)
        BY <4>5, <4>7, <4>8 DEF InOrder
      <4>10. QED
        BY <3>2, <3>3, <3>5, <4>9 DEF f, a, b
    <3>6. QED
      BY <3>4, <3>5
  <2>3. InOrder(fl[n], n)
    BY <1>1, <1>4, <2>2
  <2>4. QED
    BY <2>1, <2>3 DEF InOrder, n
<1>5. QED
  BY <1>3, <1>4

\* The largest of some bounded numbers is one of them.
LEMMA MaxIs ==
  ASSUME NEW S, S \subseteq Nat, S # {}, NEW b \in Nat, \A x \in S : x <= b
  PROVE  Max(S) \in S /\ \A x \in S : x <= Max(S)
<1>1. \E m \in S : \A x \in S : x <= m
  BY GreatestExists
<1>2. \E m \in S : \A x \in S : m >= x
  BY <1>1
<1>3. QED
  BY <1>2 DEF Max

\* The invocations of one suite are a sequence, and of that suite.
LEMMA OfSuiteIsSeq ==
  ASSUME NEW q \in DOMAIN Plans, NEW n \in DOMAIN Plans[q].suites
  PROVE  \E S : OfSuite(Plans[q], n) \in Seq(S) /\ \A x \in S : x.suite = n
<1> DEFINE p == Plans[q]
           suite == p.suites[n]
           item(t) == Invocation(t, n, suite.skip \/ t.skip)
           S == {item(t) : t \in Range(suite.tests)}
           rep(t) == IF TestFilter(p, suite, t) /\ TagsMatch(p, suite, t)
                     THEN [pi \in 1 .. Max({t.params, 1}) |-> item(t)] ELSE <<>>
           ss == [ti \in DOMAIN suite.tests |-> rep(suite.tests[ti])]
<1>1. suite \in Range(p.suites)
  BY DEF Range
<1>2. suite.tests \in Seq(Range(suite.tests)) /\ \A t \in Range(suite.tests) : t.params \in Nat
  BY <1>1, PlansAssumption
<1>3. ASSUME NEW t \in Range(suite.tests)
      PROVE  rep(t) \in Seq(S)
  <2>1. t.params \in Nat
    BY <1>2, <1>3
  <2>2. Max({t.params, 1}) \in Nat
    <3>1. t.params + 1 \in Nat /\ {t.params, 1} \subseteq Nat
          /\ \A x \in {t.params, 1} : x <= t.params + 1
      BY <2>1
    <3>2. Max({t.params, 1}) \in {t.params, 1}
      BY <3>1, MaxIs
    <3>3. QED
      BY <3>1, <3>2
  <2> DEFINE x == item(t)
             m == Max({t.params, 1})
  <2>3. x \in S /\ m \in Nat
    BY <2>2
  <2> HIDE DEF S, x, m
  <2>4. [pi \in 1 .. m |-> x] \in Seq(S)
    BY <2>3
  <2>5. QED
    BY <2>4 DEF x, m
<1>8. \A x \in S : x.suite = n
  BY DEF Invocation
<1> HIDE DEF S, rep
<1>4. ss \in Seq(Seq(S))
  <2>1. \A ti \in DOMAIN suite.tests : suite.tests[ti] \in Range(suite.tests)
    BY DEF Range
  <2>2. DOMAIN suite.tests = 1 .. Len(suite.tests) /\ Len(suite.tests) \in Nat
    BY <1>2
  <2>3. QED
    BY <1>3, <2>1, <2>2
<1>5. FlattenSeq(ss) \in Seq(S)
  BY <1>4, FlattenIsSeq
<1>6. OfSuite(p, n) = IF SuiteFilter(p, suite) THEN FlattenSeq(ss) ELSE <<>>
  BY DEF OfSuite, rep
<1>7. QED
  BY <1>5, <1>6, <1>8

\* The invocations of a run are a sequence, and in the order of their suites.
LEMMA TodoIs ==
  ASSUME NEW q \in DOMAIN Plans
  PROVE  LET todo == Runs[q].todo
         IN  /\ Len(todo) \in Nat /\ DOMAIN todo = 1 .. Len(todo)
             /\ Len(Runs[q].suites) \in Nat
             /\ \A i \in DOMAIN todo : todo[i].suite \in 1 .. Len(Runs[q].suites)
             /\ \A i, j \in DOMAIN todo : i <= j => todo[i].suite <= todo[j].suite
<1> DEFINE p == Plans[q]
           ss == [n \in DOMAIN p.suites |-> OfSuite(p, n)]
<1>1. Runs[q] = RunOf(p)
  BY DEF Runs
<1>2. DOMAIN p.suites = 1 .. Len(p.suites) /\ Len(p.suites) \in Nat
  BY PlansAssumption
<1>3. ASSUME NEW n \in DOMAIN p.suites
      PROVE  \E S : OfSuite(p, n) \in Seq(S) /\ \A i \in DOMAIN OfSuite(p, n) : OfSuite(p, n)[i].suite = n
  <2>1. PICK S : OfSuite(p, n) \in Seq(S) /\ \A x \in S : x.suite = n
    BY OfSuiteIsSeq
  <2> DEFINE o == OfSuite(p, n)
  <2>2. o \in Seq(S)
    BY <2>1
  <2> HIDE DEF o
  <2>3. \A i \in DOMAIN o : o[i] \in S
    BY <2>2
  <2>4. QED
    BY <2>1, <2>3 DEF o
<1>4. PICK S : ss \in Seq(Seq(S))
  <2> DEFINE T == UNION {Range(OfSuite(p, n)) : n \in DOMAIN p.suites}
  <2>1. ASSUME NEW n \in DOMAIN p.suites
        PROVE  OfSuite(p, n) \in Seq(T)
    <3>1. PICK S : OfSuite(p, n) \in Seq(S)
      BY <1>3
    <3> DEFINE o == OfSuite(p, n)
    <3>2. \A i \in DOMAIN o : o[i] \in T
      BY DEF Range
    <3> HIDE DEF T, o
    <3>3. o \in Seq(S)
      BY <3>1 DEF o
    <3>4. o \in Seq(T)
      BY <3>2, <3>3
    <3>5. QED
      BY <3>4 DEF o
  <2> HIDE DEF T
  <2>2. ss \in Seq(Seq(T))
    BY <1>2, <2>1
  <2>3. QED
    BY <2>2
<1>5. Len(ss) = Len(p.suites) /\ \A n \in 1 .. Len(ss) : \A i \in DOMAIN ss[n] : ss[n][i].suite = n
  <2>1. DOMAIN ss = 1 .. Len(p.suites)
    BY <1>2
  <2>2. Len(ss) = Len(p.suites)
    BY <1>2, <2>1
  <2>3. ASSUME NEW n \in 1 .. Len(ss)
        PROVE  \A i \in DOMAIN ss[n] : ss[n][i].suite = n
    <3>1. n \in DOMAIN p.suites /\ ss[n] = OfSuite(p, n)
      BY <1>2, <2>2, <2>3
    <3>2. QED
      BY <1>3, <3>1
  <2>4. QED
    BY <2>2, <2>3
<1>6. Runs[q].todo = FlattenSeq(ss) /\ Runs[q].suites = p.suites
  BY <1>1 DEF RunOf
<1> HIDE DEF ss
<1>7. FlattenSeq(ss) \in Seq(S)
  BY <1>4, FlattenIsSeq
<1>8. /\ \A i \in DOMAIN FlattenSeq(ss) : FlattenSeq(ss)[i].suite \in 1 .. Len(ss)
      /\ \A i, j \in DOMAIN FlattenSeq(ss) : i <= j => FlattenSeq(ss)[i].suite <= FlattenSeq(ss)[j].suite
  BY <1>4, <1>5, FlattenInOrder
<1>9. QED
  BY <1>2, <1>5, <1>6, <1>7, <1>8

\* A run has at least one job, each with a slot, and its invocations are a sequence.
LEMMA RunIs ==
  ASSUME NEW q \in DOMAIN Plans
  PROVE  /\ Runs[q].jobs \in Nat \ {0} /\ 1 .. Runs[q].jobs \subseteq Slots
         /\ Len(Runs[q].todo) \in Nat /\ DOMAIN Runs[q].todo = 1 .. Len(Runs[q].todo)
         /\ Runs[q].failFast \in BOOLEAN
<1> DEFINE p == Plans[q]
<1>1. Runs[q] = RunOf(p)
  BY DEF Runs
<1>2. p.njobs \in Nat
  BY PlansAssumption
<1>3. Max({1, p.njobs}) \in Nat \ {0}
  <2>1. /\ p.njobs + 1 \in Nat /\ {1, p.njobs} \subseteq Nat /\ 1 \in {1, p.njobs}
        /\ \A x \in {1, p.njobs} : x <= p.njobs + 1
    BY <1>2
  <2>2. Max({1, p.njobs}) \in {1, p.njobs} /\ \A x \in {1, p.njobs} : x <= Max({1, p.njobs})
    BY <2>1, MaxIs
  <2>3. QED
    BY <2>1, <2>2
<1>4. Runs[q].jobs \in Nat \ {0}
  BY <1>1, <1>3 DEF RunOf
<1>5. Runs[q].failFast \in BOOLEAN
  BY <1>1, PlansAssumption DEF RunOf
<1>6. QED
  BY <1>4, <1>5, TodoIs, SlotsAssumption

-----------------------------------------------------------------------------
(* The invariant *)

Busy == {"poll", "late", "kill", "third", "wait"}   \* looking at a test
Begun == {"forked", "inline"}                       \* starting one

ExecOutcomes == {"RETURNED", "ASSERTED", "SKIPPED", "EXCEPTION", "CRASHED", "ERROR"}

IsCtl(c)  == /\ c = [pc |-> c.pc, fi |-> c.fi, res |-> c.res, fault |-> c.fault, now |-> c.now]
             /\ c.res \in ExecOutcomes
IsProc(p) == p = [st |-> p.st, status |-> p.status, group |-> p.group, desc |-> p.desc]

Shape ==
  /\ plan \in DOMAIN Plans
  /\ inv \in [Slots -> Nat] /\ next \in Nat \ {0}
  /\ active \in [1 .. run.jobs -> Slots] /\ nactive \in 0 .. run.jobs
  /\ process \in [Slots -> BOOLEAN]
  /\ DOMAIN ctl = Slots /\ \A s \in Slots : IsCtl(ctl[s])
  /\ DOMAIN proc = Slots /\ \A s \in Slots : IsProc(proc[s])
  /\ DOMAIN log = Slots

\* The tests are in the slots in flight and, between a start and its end, in the
\* next one; the runner looks at one that is in flight, and kills processes only.
Placed ==
  /\ \A i, j \in 1 .. run.jobs : active[i] = active[j] => i = j
  /\ rpc \in Begun => nactive < run.jobs
  /\ rpc \in Busy => ri \in 1 .. nactive
  /\ rpc \in Busy \ {"poll"} => process[Here]
  /\ rpc \notin Ended => {s \in Slots : inv[s] # 0} = InFlight \cup Starting

\* The invocations in the slots are of the past, but for the one that is starting.
Numbered ==
  /\ \A r, s \in Slots : inv[r] = inv[s] /\ inv[r] # 0 => r = s
  /\ rpc \notin Ended =>
       \A s \in Slots : inv[s] < next \/ (rpc \in Begun /\ s = TakeSlot /\ inv[s] = next)

Emptied ==
  \A s \in Slots : inv[s] = 0 => ctl[s].pc = "none" /\ ~process[s] /\ log[s] = EmptyLog
                                  /\ proc[s] = NoProc

\* The child of slot s runs, as the runner knows but between fork and its return.
Running(s) == process[s] \/ (rpc = "forked" /\ s = TakeSlot)

\* A live child whose group is not there has not made it yet.
InGroup(s) == proc[s].st = "alive" => proc[s].group \/ ctl[s].pc = "setpgid"

\* The isolated tests, and they alone, have processes; what was rejected has none.
Housed ==
  rpc \notin Ended => \A s \in Slots :
    /\ ~ Running(s) => proc[s] = NoProc
    /\ Running(s) <=> inv[s] # 0 /\ ctl[s].pc # "none" /\ Isolated(s)
    /\ ctl[s].pc = "setpgid" => Isolated(s)
    /\ InGroup(s)

\* What a signal to the runner leaves behind.
Survivors ==
  rpc = "signalled" =>
    \A s \in Slots : proc[s].st = "alive" =>
      ctl[s].pc = "setpgid" \/ (~process[s] /\ s \in {active[i] : i \in nactive + 1 .. run.jobs})

SlotsInv == Shape /\ Placed /\ Numbered /\ Emptied /\ Housed /\ Survivors

-----------------------------------------------------------------------------
(* The steps of a test *)

\* g is f except perhaps at slot s.
OnlyAt(f, g, s) == DOMAIN g = Slots /\ \A r \in Slots \ {s} : g[r] = f[r]

\* What all that a test may do has in common: it concerns its own slot, and the
\* processes of isolated tests.
TestEffect(s) ==
  /\ UNCHANGED <<plan, inv>>
  /\ OnlyAt(ctl, ctl', s) /\ OnlyAt(proc, proc', s) /\ OnlyAt(log, log', s)
  /\ IsCtl(ctl'[s]) /\ IsProc(proc'[s])
  /\ ctl[s].pc # "none" /\ ctl'[s].pc # "none"
  /\ ctl'[s].pc = "setpgid" => ctl[s].pc = "setpgid"
  /\ proc'[s] = proc[s] \/ Isolated(s) \/ ctl[s].pc = "setpgid"
  /\ InGroup(s) => InGroup(s)'

\* How the code of the test was left, and by which signal.
SameUse(c, d) == d.res = c.res /\ d.fault = c.fault

\* Moving on within triaxi_run_func.
LEMMA GotoIs ==
  ASSUME Shape, NEW s \in Slots, NEW x, Goto(s, x)
  PROVE  /\ OnlyAt(ctl, ctl', s) /\ IsCtl(ctl'[s]) /\ ctl'[s].pc = x
         /\ SameUse(ctl[s], ctl'[s]) /\ ctl'[s].now = ctl[s].now
BY DEF Shape, Goto, OnlyAt, IsCtl, SameUse

\* triaxi_longjmp leaves the code of the test.
LEMMA LongjmpIs ==
  ASSUME Shape, NEW s \in Slots, NEW res \in ExecOutcomes, Longjmp(s, res)
  PROVE  /\ OnlyAt(ctl, ctl', s) /\ IsCtl(ctl'[s])
         /\ ctl'[s].pc = IF res \in {"CRASHED", "ERROR"} THEN "finish" ELSE "fini"
         /\ ctl'[s].res = res /\ ctl'[s].now = NoAssert
<1> DEFINE p == IF res \in {"CRASHED", "ERROR"} THEN "finish" ELSE "fini"
           c1 == [ctl EXCEPT ![s].pc = p]
           c2 == [c1 EXCEPT ![s].res = res]
           c3 == [c2 EXCEPT ![s].fi = 4]
           c4 == [c3 EXCEPT ![s].now = NoAssert]
<1>1. ctl' = c4
  BY DEF Longjmp
<1> HIDE DEF p
<1>2. OnlyAt(ctl, c1, s) /\ IsCtl(c1[s]) /\ c1[s].pc = p
  BY DEF Shape, OnlyAt, IsCtl
<1> HIDE DEF c1
<1>3. OnlyAt(ctl, c2, s) /\ IsCtl(c2[s]) /\ c2[s].pc = p /\ c2[s].res = res
  BY <1>2 DEF OnlyAt, IsCtl
<1> HIDE DEF c2
<1>4. OnlyAt(ctl, c3, s) /\ IsCtl(c3[s]) /\ c3[s].pc = p /\ c3[s].res = res
  BY <1>3 DEF OnlyAt, IsCtl
<1> HIDE DEF c3
<1>5. OnlyAt(ctl, c4, s) /\ IsCtl(c4[s]) /\ c4[s].pc = p /\ c4[s].res = res /\ c4[s].now = NoAssert
  BY <1>4 DEF OnlyAt, IsCtl
<1>6. QED
  BY <1>1, <1>5 DEF p

\* Leaving the operating system's view of the processes, or the log, alone.
LEMMA SameIs ==
  ASSUME Shape, NEW s \in Slots
  PROVE  /\ OnlyAt(ctl, ctl, s) /\ OnlyAt(proc, proc, s) /\ OnlyAt(log, log, s)
         /\ IsCtl(ctl[s]) /\ IsProc(proc[s])
BY DEF Shape, OnlyAt

\* Replacing what is known of one slot.
LEMMA ReplacedIs ==
  ASSUME NEW f, DOMAIN f = Slots, NEW s \in Slots, NEW v
  PROVE  OnlyAt(f, [f EXCEPT ![s] = v], s) /\ [f EXCEPT ![s] = v][s] = v
BY DEF OnlyAt

\* A process makes its group.
LEMMA GroupIs ==
  ASSUME Shape, NEW s \in Slots, NEW x, proc' = [proc EXCEPT ![s].group = x]
  PROVE  /\ OnlyAt(proc, proc', s) /\ IsProc(proc'[s])
         /\ proc'[s].group = x /\ proc'[s].st = proc[s].st /\ proc'[s].desc = proc[s].desc
<1> DEFINE p == proc[s]
<1>1. DOMAIN proc = Slots /\ p = [st |-> p.st, status |-> p.status, group |-> p.group, desc |-> p.desc]
  BY DEF Shape, IsProc
<1>2. OnlyAt(proc, proc', s) /\ proc'[s] = [p EXCEPT !.group = x]
  BY <1>1 DEF OnlyAt
<1> HIDE DEF p
<1>3. [p EXCEPT !.group = x] = [st |-> p.st, status |-> p.status, group |-> x, desc |-> p.desc]
  BY <1>1
<1>4. QED
  BY <1>2, <1>3 DEF IsProc, p

\* A process has, or no longer has, a descendant.
LEMMA DescendantIs ==
  ASSUME Shape, NEW s \in Slots, NEW x, proc' = [proc EXCEPT ![s].desc = x]
  PROVE  /\ OnlyAt(proc, proc', s) /\ IsProc(proc'[s])
         /\ proc'[s].desc = x /\ proc'[s].st = proc[s].st /\ proc'[s].group = proc[s].group
         /\ proc'[s].status = proc[s].status
<1> DEFINE p == proc[s]
<1>1. DOMAIN proc = Slots /\ p = [st |-> p.st, status |-> p.status, group |-> p.group, desc |-> p.desc]
  BY DEF Shape, IsProc
<1>2. OnlyAt(proc, proc', s) /\ proc'[s] = [p EXCEPT !.desc = x]
  BY <1>1 DEF OnlyAt
<1> HIDE DEF p
<1>3. [p EXCEPT !.desc = x] = [st |-> p.st, status |-> p.status, group |-> p.group, desc |-> x]
  BY <1>1
<1>4. QED
  BY <1>2, <1>3 DEF IsProc, p

\* A process ends, and can be waited for.
LEMMA ExitedIs ==
  ASSUME Shape, NEW s \in Slots, NEW x, proc' = [proc EXCEPT ![s].st = "zombie", ![s].status = x]
  PROVE  OnlyAt(proc, proc', s) /\ IsProc(proc'[s]) /\ proc'[s].st = "zombie" /\ proc'[s].status = x
<1> DEFINE p  == proc[s]
           p1 == [p EXCEPT !.st = "zombie"]
           p2 == [p1 EXCEPT !.status = x]
<1>1. DOMAIN proc = Slots /\ p = [st |-> p.st, status |-> p.status, group |-> p.group, desc |-> p.desc]
  BY DEF Shape, IsProc
<1>2. OnlyAt(proc, proc', s) /\ proc'[s] = p2
  BY <1>1 DEF OnlyAt
<1> HIDE DEF p
<1>3. p1 = [st |-> "zombie", status |-> p.status, group |-> p.group, desc |-> p.desc]
  BY <1>1
<1> HIDE DEF p1
<1>4. p2 = [st |-> "zombie", status |-> x, group |-> p.group, desc |-> p.desc]
  BY <1>3
<1> HIDE DEF p2
<1>5. IsProc(p2) /\ p2.st = "zombie" /\ p2.status = x
  BY <1>4 DEF IsProc
<1>6. QED
  BY <1>2, <1>5

\* A signal ends the process of an isolated test, or the code of another one.
LEMMA DieIs ==
  ASSUME Shape, NEW s \in Slots, NEW sig, Die(s, sig)
  PROVE  \/ /\ Isolated(s) /\ ctl' = ctl /\ OnlyAt(proc, proc', s) /\ IsProc(proc'[s])
            /\ proc'[s].st = "zombie" /\ proc'[s].status = Exit("FAULT", sig)
         \/ /\ ~Isolated(s) /\ proc' = proc /\ OnlyAt(ctl, ctl', s) /\ IsCtl(ctl'[s])
            /\ ctl'[s].pc = "finish" /\ ctl'[s].res = "CRASHED" /\ ctl'[s].fault = sig
            /\ ctl'[s].now = NoAssert
<1>1. CASE Isolated(s)
  BY <1>1, ExitedIs DEF Die
<1>2. CASE ~Isolated(s)
  <2> DEFINE c1 == [ctl EXCEPT ![s].pc = "finish"]
             c2 == [c1 EXCEPT ![s].res = "CRASHED"]
             c3 == [c2 EXCEPT ![s].fault = sig]
             c4 == [c3 EXCEPT ![s].now = NoAssert]
  <2>1. ctl' = c4 /\ proc' = proc
    BY <1>2 DEF Die
  <2>2. OnlyAt(ctl, c1, s) /\ IsCtl(c1[s]) /\ c1[s].pc = "finish"
    BY DEF Shape, OnlyAt, IsCtl
  <2> HIDE DEF c1
  <2>3. OnlyAt(ctl, c2, s) /\ IsCtl(c2[s]) /\ c2[s].pc = "finish" /\ c2[s].res = "CRASHED"
    BY <2>2 DEF OnlyAt, IsCtl, ExecOutcomes
  <2> HIDE DEF c2
  <2>4. OnlyAt(ctl, c3, s) /\ IsCtl(c3[s]) /\ c3[s].pc = "finish" /\ c3[s].res = "CRASHED"
        /\ c3[s].fault = sig
    BY <2>3 DEF OnlyAt, IsCtl
  <2> HIDE DEF c3
  <2>5. OnlyAt(ctl, c4, s) /\ IsCtl(c4[s]) /\ c4[s].pc = "finish" /\ c4[s].res = "CRASHED"
        /\ c4[s].fault = sig /\ c4[s].now = NoAssert
    BY <2>4 DEF OnlyAt, IsCtl
  <2>6. QED
    BY <1>2, <2>1, <2>5
<1>3. QED
  BY <1>1, <1>2

\* Moving on to a fixture.
LEMMA CtlFiIs ==
  ASSUME Shape, NEW s \in Slots, NEW x, NEW y, ctl' = [ctl EXCEPT ![s].pc = x, ![s].fi = y]
  PROVE  /\ OnlyAt(ctl, ctl', s) /\ IsCtl(ctl'[s]) /\ ctl'[s].pc = x
         /\ SameUse(ctl[s], ctl'[s]) /\ ctl'[s].now = ctl[s].now
<1> DEFINE f1 == [ctl EXCEPT ![s].pc = x]
           f2 == [f1 EXCEPT ![s].fi = y]
<1>1. ctl' = f2
  OBVIOUS
<1>2. OnlyAt(ctl, f1, s) /\ IsCtl(f1[s]) /\ f1[s].pc = x
      /\ SameUse(ctl[s], f1[s]) /\ f1[s].now = ctl[s].now
  BY DEF Shape, OnlyAt, IsCtl, SameUse
<1> HIDE DEF f1
<1>3. OnlyAt(ctl, f2, s) /\ IsCtl(f2[s]) /\ f2[s].pc = x
      /\ SameUse(ctl[s], f2[s]) /\ f2[s].now = ctl[s].now
  BY <1>2 DEF OnlyAt, IsCtl, SameUse
<1>4. QED
  BY <1>1, <1>3

\* Moving on to, or past, an assertion.
LEMMA CtlNowIs ==
  ASSUME Shape, NEW s \in Slots, NEW x, NEW y, ctl' = [ctl EXCEPT ![s].pc = x, ![s].now = y]
  PROVE  /\ OnlyAt(ctl, ctl', s) /\ IsCtl(ctl'[s]) /\ ctl'[s].pc = x
         /\ SameUse(ctl[s], ctl'[s]) /\ ctl'[s].now = y
<1> DEFINE f1 == [ctl EXCEPT ![s].pc = x]
           f2 == [f1 EXCEPT ![s].now = y]
<1>1. ctl' = f2
  OBVIOUS
<1>2. OnlyAt(ctl, f1, s) /\ IsCtl(f1[s]) /\ f1[s].pc = x /\ SameUse(ctl[s], f1[s])
  BY DEF Shape, OnlyAt, IsCtl, SameUse
<1> HIDE DEF f1
<1>3. OnlyAt(ctl, f2, s) /\ IsCtl(f2[s]) /\ f2[s].pc = x /\ SameUse(ctl[s], f2[s])
      /\ f2[s].now = y
  BY <1>2 DEF OnlyAt, IsCtl, SameUse
<1>4. QED
  BY <1>1, <1>3

\* setpgid(0, 0) in the child.
LEMMA SetGroupActs ==
  ASSUME Shape, NEW s \in Slots, SetGroup(s)
  PROVE  TestEffect(s)
<1>1. OnlyAt(ctl, ctl', s) /\ IsCtl(ctl'[s]) /\ ctl'[s].pc = "enter" /\ ctl[s].pc = "setpgid"
  BY GotoIs DEF SetGroup, At
<1>2. OnlyAt(proc, proc', s) /\ IsProc(proc'[s]) /\ proc'[s].group = TRUE
  BY GroupIs DEF SetGroup
<1>3. QED
  BY <1>1, <1>2, SameIs DEF SetGroup, TestEffect, InGroup

\* triaxi_run_func on entry.
LEMMA EnterActs ==
  ASSUME Shape, NEW s \in Slots, Enter(s)
  PROVE  TestEffect(s)
<1>1. OnlyAt(ctl, ctl', s) /\ IsCtl(ctl'[s]) /\ ctl'[s].pc = "init" /\ ctl[s].pc = "enter"
  BY GotoIs DEF Enter, At
<1>2. QED
  BY <1>1, SameIs DEF Enter, TestEffect, InGroup

\* A step that leaves its process alone and moves on within triaxi_run_func.
LEMMA MovedOn ==
  ASSUME Shape, NEW s \in Slots, UNCHANGED <<plan, inv, proc>>,
         OnlyAt(ctl, ctl', s), IsCtl(ctl'[s]), OnlyAt(log, log', s),
         ctl[s].pc \notin {"none", "setpgid"}, ctl'[s].pc \notin {"none", "setpgid"}
  PROVE  TestEffect(s)
BY SameIs DEF TestEffect, InGroup

\* A step that leaves triaxi_run_func alone and ends the process of an isolated test.
LEMMA EndedIs ==
  ASSUME Shape, NEW s \in Slots, UNCHANGED <<plan, inv, ctl, log>>, Isolated(s),
         OnlyAt(proc, proc', s), IsProc(proc'[s]), proc'[s].st = "zombie",
         ctl[s].pc \notin {"none", "setpgid"}
  PROVE  TestEffect(s)
BY SameIs DEF TestEffect, InGroup

\* The fixtures before a test.
LEMMA NextInitActs ==
  ASSUME Shape, NEW s \in Slots, NextInit(s)
  PROVE  TestEffect(s)
<1>1. ctl[s].pc = "init" /\ UNCHANGED <<plan, inv, proc, log>>
  BY DEF NextInit, At
<1>2. OnlyAt(ctl, ctl', s) /\ IsCtl(ctl'[s]) /\ ctl'[s].pc \in {"initfn", "body"}
  <2> DEFINE left == {f \in TestOf(s).inits : f > ctl[s].fi}
             m == Min(left)
  <2>1. ctl' = [ctl EXCEPT ![s].pc = "initfn", ![s].fi = m] \/ Goto(s, "body")
    BY DEF NextInit
  <2> HIDE DEF m
  <2>2. QED
    BY <2>1, CtlFiIs, GotoIs
<1>3. QED
  BY <1>1, <1>2, SameIs, MovedOn

\* The fixtures after it.
LEMMA NextFiniActs ==
  ASSUME Shape, NEW s \in Slots, NextFini(s)
  PROVE  TestEffect(s)
<1>1. ctl[s].pc = "fini" /\ UNCHANGED <<plan, inv, proc, log>>
  BY DEF NextFini, At
<1>2. OnlyAt(ctl, ctl', s) /\ IsCtl(ctl'[s]) /\ ctl'[s].pc \in {"finfn", "finish"}
  <2> DEFINE left == {f \in TestOf(s).finis : f < ctl[s].fi}
             m == Max(left)
  <2>1. ctl' = [ctl EXCEPT ![s].pc = "finfn", ![s].fi = m] \/ Goto(s, "finish")
    BY DEF NextFini
  <2> HIDE DEF m
  <2>2. QED
    BY <2>1, CtlFiIs, GotoIs
<1>3. QED
  BY <1>1, <1>2, SameIs, MovedOn

\* The first of the two last stores.
LEMMA FinishActs ==
  ASSUME Shape, NEW s \in Slots, Finish(s)
  PROVE  TestEffect(s)
<1>1. ctl[s].pc = "finish" /\ UNCHANGED <<plan, inv, proc, log>>
  BY DEF Finish, At
<1>2. Goto(s, "commit") \/ Goto(s, "end")
  <2>1. ctl[s].res \in ExecOutcomes
    BY DEF Shape, IsCtl
  <2>2. QED
    BY <2>1 DEF Finish, ExecOutcomes
<1>3. OnlyAt(ctl, ctl', s) /\ IsCtl(ctl'[s]) /\ ctl'[s].pc \in {"commit", "end"}
  BY <1>2, GotoIs
<1>4. QED
  BY <1>1, <1>3, SameIs, MovedOn

\* The second of them.
LEMMA CommitActs ==
  ASSUME Shape, NEW s \in Slots, Commit(s)
  PROVE  TestEffect(s)
<1>1. ctl[s].pc = "commit" /\ UNCHANGED <<plan, inv, proc, log>> /\ Goto(s, "end")
  BY DEF Commit, At
<1>2. OnlyAt(ctl, ctl', s) /\ IsCtl(ctl'[s]) /\ ctl'[s].pc = "end"
  BY <1>1, GotoIs
<1>3. QED
  BY <1>1, <1>2, SameIs, MovedOn

\* _exit(0).
LEMMA LeaveActs ==
  ASSUME Shape, NEW s \in Slots, Leave(s)
  PROVE  TestEffect(s)
<1>1. ctl[s].pc = "end" /\ UNCHANGED <<plan, inv, ctl, log>> /\ Isolated(s)
  BY DEF Leave, At
<1>2. OnlyAt(proc, proc', s) /\ IsProc(proc'[s]) /\ proc'[s].st = "zombie"
  BY ExitedIs DEF Leave
<1>3. QED
  BY <1>1, <1>2, EndedIs

\* The asserted expression is evaluated.
LEMMA EnterAssertActs ==
  ASSUME Shape, NEW s \in Slots, EnterAssert(s)
  PROVE  TestEffect(s)
<1>1. ctl[s].pc = "hdr" /\ UNCHANGED <<plan, inv, proc, log>> /\ Goto(s, "pred")
  BY DEF EnterAssert, At
<1>2. OnlyAt(ctl, ctl', s) /\ IsCtl(ctl'[s]) /\ ctl'[s].pc = "pred"
  BY <1>1, GotoIs
<1>3. QED
  BY <1>1, <1>2, SameIs, MovedOn

\* A failed assertion leaves the test, an expectation does not.
LEMMA AfterResActs ==
  ASSUME Shape, NEW s \in Slots, AfterRes(s)
  PROVE  TestEffect(s)
<1>1. ctl[s].pc = "res" /\ UNCHANGED <<plan, inv, proc, log>>
  BY DEF AfterRes, At
<1>2. \/ Goto(s, "break")
      \/ Longjmp(s, "ASSERTED")
      \/ ctl' = [ctl EXCEPT ![s].pc = "body", ![s].now = NoAssert]
  BY DEF AfterRes
<1>3. OnlyAt(ctl, ctl', s) /\ IsCtl(ctl'[s]) /\ ctl'[s].pc \in {"break", "finish", "fini", "body"}
  <2>1. "ASSERTED" \in ExecOutcomes
    BY DEF ExecOutcomes
  <2>2. QED
    BY <1>2, <2>1, GotoIs, LongjmpIs, CtlNowIs
<1>4. QED
  BY <1>1, <1>3, SameIs, MovedOn

\* Dying of a signal, in the code of a test or of its fixtures.
LEMMA DieActs ==
  ASSUME Shape, NEW s \in Slots, NEW sig, Die(s, sig), UNCHANGED <<plan, inv, log>>,
         ctl[s].pc \notin {"none", "setpgid"}
  PROVE  TestEffect(s)
BY DieIs, SameIs, MovedOn, EndedIs

\* A debugger is asked for, and there is none.
LEMMA BreakActs ==
  ASSUME Shape, NEW s \in Slots, Break(s)
  PROVE  TestEffect(s)
BY DieActs DEF Break, At

\* The code of an isolated fixture is aborted.
LEMMA AbortActs ==
  ASSUME Shape, NEW s \in Slots, Abort(s)
  PROVE  TestEffect(s)
BY DieActs DEF Abort, At

\* triaxi_user_error_f.
LEMMA UserErrorActs ==
  ASSUME Shape, NEW s \in Slots, UserError(s), UNCHANGED <<plan, inv, log>>,
         ctl[s].pc \notin {"none", "setpgid"}
  PROVE  TestEffect(s)
<1>1. CASE Goto(s, "abort") /\ UNCHANGED proc
  <2>1. OnlyAt(ctl, ctl', s) /\ IsCtl(ctl'[s]) /\ ctl'[s].pc = "abort"
    BY <1>1, GotoIs
  <2>2. QED
    BY <1>1, <2>1, SameIs, MovedOn
<1>2. CASE Longjmp(s, "ERROR") /\ UNCHANGED proc
  <2>1. "ERROR" \in ExecOutcomes
    BY DEF ExecOutcomes
  <2>2. OnlyAt(ctl, ctl', s) /\ IsCtl(ctl'[s]) /\ ctl'[s].pc \in {"finish", "fini"}
    BY <1>2, <2>1, LongjmpIs
  <2>3. QED
    BY <1>2, <2>2, SameIs, MovedOn
<1>3. QED
  BY <1>1, <1>2 DEF UserError

\* The code of a test crashes.
LEMMA CrashActs ==
  ASSUME Shape, NEW s \in Slots, Crash(s)
  PROVE  TestEffect(s)
BY DieActs DEF Crash, InUser, At

\* It calls exit().
LEMMA CallExitActs ==
  ASSUME Shape, NEW s \in Slots, CallExit(s)
  PROVE  TestEffect(s)
<1>1. ctl[s].pc \notin {"none", "setpgid"} /\ UNCHANGED <<plan, inv, ctl, log>> /\ Isolated(s)
  BY DEF CallExit, InUser, At
<1>2. PICK code : proc' = [proc EXCEPT ![s].st = "zombie", ![s].status = Exit("EXIT", code)]
  BY DEF CallExit
<1>3. OnlyAt(proc, proc', s) /\ IsProc(proc'[s]) /\ proc'[s].st = "zombie"
  BY <1>2, ExitedIs
<1>4. QED
  BY <1>1, <1>3, EndedIs

\* It misuses the framework.
LEMMA MisuseActs ==
  ASSUME Shape, NEW s \in Slots, Misuse(s)
  PROVE  TestEffect(s)
<1>1. ctl[s].pc \notin {"none", "setpgid"} /\ UNCHANGED <<plan, inv, log>> /\ UserError(s)
  BY DEF Misuse, InUser, At
<1>2. QED
  BY <1>1, UserErrorActs

\* A fixture returns.
LEMMA FixtureReturnsActs ==
  ASSUME Shape, NEW s \in Slots, FixtureReturns(s)
  PROVE  TestEffect(s)
<1>1. ctl[s].pc \notin {"none", "setpgid"} /\ UNCHANGED <<plan, inv, proc, log>>
  BY DEF FixtureReturns, At
<1>2. Goto(s, "init") \/ Goto(s, "fini")
  BY DEF FixtureReturns
<1>3. OnlyAt(ctl, ctl', s) /\ IsCtl(ctl'[s]) /\ ctl'[s].pc \in {"init", "fini"}
  BY <1>2, GotoIs
<1>4. QED
  BY <1>1, <1>3, SameIs, MovedOn

\* The code of the test leaves it.
LEMMA LongjmpActs ==
  ASSUME Shape, NEW s \in Slots, NEW res \in ExecOutcomes, Longjmp(s, res),
         UNCHANGED <<plan, inv, proc, log>>, ctl[s].pc \notin {"none", "setpgid"}
  PROVE  TestEffect(s)
<1>1. OnlyAt(ctl, ctl', s) /\ IsCtl(ctl'[s]) /\ ctl'[s].pc \in {"finish", "fini"}
  BY LongjmpIs
<1>2. QED
  BY <1>1, SameIs, MovedOn

\* It returns, ...
LEMMA BodyReturnsActs ==
  ASSUME Shape, NEW s \in Slots, BodyReturns(s)
  PROVE  TestEffect(s)
<1>1. ctl[s].pc = "body" /\ UNCHANGED <<plan, inv, proc, log>> /\ Longjmp(s, "RETURNED")
  BY DEF BodyReturns, At
<1>2. "RETURNED" \in ExecOutcomes
  BY DEF ExecOutcomes
<1>3. QED
  BY <1>1, <1>2, LongjmpActs

\* ... is skipped, ...
LEMMA SkipActs ==
  ASSUME Shape, NEW s \in Slots, Skip(s)
  PROVE  TestEffect(s)
<1>1. ctl[s].pc = "body" /\ UNCHANGED <<plan, inv, proc, log>> /\ Longjmp(s, "SKIPPED")
  BY DEF Skip, At
<1>2. "SKIPPED" \in ExecOutcomes
  BY DEF ExecOutcomes
<1>3. QED
  BY <1>1, <1>2, LongjmpActs

\* ... or throws.
LEMMA ThrowActs ==
  ASSUME Shape, NEW s \in Slots, Throw(s)
  PROVE  TestEffect(s)
<1>1. ctl[s].pc \notin {"none", "setpgid"} /\ UNCHANGED <<plan, inv, proc, log>> /\ Longjmp(s, "EXCEPTION")
  BY DEF Throw, At
<1>2. "EXCEPTION" \in ExecOutcomes
  BY DEF ExecOutcomes
<1>3. QED
  BY <1>1, <1>2, LongjmpActs

\* It starts a process.
LEMMA SpawnActs ==
  ASSUME Shape, NEW s \in Slots, Spawn(s)
  PROVE  TestEffect(s)
<1>1. ctl[s].pc = "body" /\ UNCHANGED <<plan, inv, ctl, log>> /\ Isolated(s)
      /\ proc' = [proc EXCEPT ![s].desc = TRUE]
  BY DEF Spawn, At
<1>2. OnlyAt(proc, proc', s) /\ IsProc(proc'[s]) /\ proc'[s].st = proc[s].st
      /\ proc'[s].group = proc[s].group
  BY <1>1, DescendantIs
<1>3. QED
  BY <1>1, <1>2, SameIs DEF TestEffect, InGroup

\* It asserts something.
LEMMA BeginAssertActs ==
  ASSUME Shape, NEW s \in Slots, BeginAssert(s)
  PROVE  TestEffect(s)
<1>1. ctl[s].pc = "body" /\ UNCHANGED <<plan, inv>>
  BY DEF BeginAssert, At
<1>2. PICK k \in Asserts :
        \/ UserError(s) /\ UNCHANGED log
        \/ /\ log' = [log EXCEPT ![s] = WithHdr(@, k)]
           /\ ctl' = [ctl EXCEPT ![s].pc = "hdr", ![s].now = k]
           /\ UNCHANGED proc
  BY DEF BeginAssert
<1>3. CASE UserError(s) /\ UNCHANGED log
  BY <1>1, <1>3, UserErrorActs
<1>4. CASE /\ log' = [log EXCEPT ![s] = WithHdr(@, k)]
           /\ ctl' = [ctl EXCEPT ![s].pc = "hdr", ![s].now = k]
           /\ UNCHANGED proc
  <2>1. OnlyAt(ctl, ctl', s) /\ IsCtl(ctl'[s]) /\ ctl'[s].pc = "hdr"
    BY <1>4, CtlNowIs
  <2>2. OnlyAt(log, log', s)
    <3> DEFINE v == WithHdr(log[s], k)
    <3>1. DOMAIN log = Slots /\ log' = [log EXCEPT ![s] = v]
      BY <1>4 DEF Shape
    <3> HIDE DEF v
    <3>2. QED
      BY <3>1, ReplacedIs
  <2>3. QED
    BY <1>1, <1>4, <2>1, <2>2, MovedOn
<1>5. QED
  BY <1>2, <1>3, <1>4

\* What it asserted holds, ...
LEMMA PredHoldsActs ==
  ASSUME Shape, NEW s \in Slots, PredHolds(s)
  PROVE  TestEffect(s)
<1>1. ctl[s].pc = "pred" /\ UNCHANGED <<plan, inv, proc, log>>
      /\ ctl' = [ctl EXCEPT ![s].pc = "body", ![s].now = NoAssert]
  BY DEF PredHolds, At
<1>2. OnlyAt(ctl, ctl', s) /\ IsCtl(ctl'[s]) /\ ctl'[s].pc = "body"
  BY <1>1, CtlNowIs
<1>3. QED
  BY <1>1, <1>2, SameIs, MovedOn

\* ... or does not.
LEMMA PredFailsActs ==
  ASSUME Shape, NEW s \in Slots, PredFails(s)
  PROVE  TestEffect(s)
<1> DEFINE v == WithRes(log[s])
<1>1. ctl[s].pc = "pred" /\ UNCHANGED <<plan, inv, proc>> /\ Goto(s, "res")
      /\ log' = [log EXCEPT ![s] = v] /\ DOMAIN log = Slots
  BY DEF PredFails, At, Shape
<1> HIDE DEF v
<1>2. OnlyAt(log, log', s)
  BY <1>1, ReplacedIs
<1>3. OnlyAt(ctl, ctl', s) /\ IsCtl(ctl'[s]) /\ ctl'[s].pc = "res"
  BY <1>1, GotoIs
<1>4. QED
  BY <1>1, <1>2, <1>3, MovedOn

\* Each step of a test.
LEMMA TestStepActs ==
  ASSUME Shape, NEW s \in Slots, TestStep(s)
  PROVE  TestEffect(s) /\ inv[s] # 0
<1>1. inv[s] # 0 /\ (FrameworkStep(s) \/ UserStep(s))
  BY DEF TestStep
<1>2. CASE FrameworkStep(s)
  BY <1>1, <1>2, SetGroupActs, EnterActs, NextInitActs, NextFiniActs, FinishActs, CommitActs,
     LeaveActs, EnterAssertActs, AfterResActs, BreakActs, AbortActs DEF FrameworkStep
<1>3. CASE UserStep(s)
  BY <1>1, <1>3, CrashActs, CallExitActs, MisuseActs, FixtureReturnsActs, BodyReturnsActs, SkipActs,
     ThrowActs, SpawnActs, BeginAssertActs, PredHoldsActs, PredFailsActs DEF UserStep
<1>4. QED
  BY <1>1, <1>2, <1>3

-----------------------------------------------------------------------------
(* The invariant is kept *)

\* What the invariant says of the array of slots.
LEMMA ActiveIs ==
  ASSUME Shape
  PROVE  /\ run.jobs \in Nat \ {0} /\ nactive \in Nat /\ nactive <= run.jobs
         /\ \A i \in 1 .. run.jobs : active[i] \in Slots
         /\ InFlight \subseteq Slots
         /\ nactive < run.jobs => TakeSlot \in Slots /\ nactive + 1 \in 1 .. run.jobs
<1>1. run.jobs \in Nat \ {0}
  BY RunIs DEF Shape, run
<1>2. nactive \in Nat /\ nactive <= run.jobs /\ \A i \in 1 .. run.jobs : active[i] \in Slots
  BY <1>1 DEF Shape
<1>3. InFlight \subseteq Slots
  BY <1>1, <1>2 DEF InFlight
<1>4. nactive < run.jobs => TakeSlot \in Slots /\ nactive + 1 \in 1 .. run.jobs
  BY <1>1, <1>2 DEF TakeSlot
<1>5. QED
  BY <1>1, <1>2, <1>3, <1>4

\* A step that concerns one slot with a test in it, and of which the runner knows nothing.
LEMMA EffectKeeps ==
  ASSUME SlotsInv, NEW s \in Slots, TestEffect(s), inv[s] # 0, rpc \notin Ended, UNCHANGED runVars
  PROVE  SlotsInv'
<1>1. /\ plan' = plan /\ inv' = inv /\ rpc' = rpc /\ ri' = ri /\ next' = next
      /\ active' = active /\ nactive' = nactive /\ process' = process
  BY DEF TestEffect, runVars
<1>2. run' = run /\ InFlight' = InFlight /\ Starting' = Starting /\ Here' = Here /\ TakeSlot' = TakeSlot
  BY <1>1 DEF run, InFlight, Starting, Here, TakeSlot
<1>3. \A r \in Slots : (Isolated(r) <=> Isolated(r)') /\ (Running(r) <=> Running(r)')
  BY <1>1, <1>2 DEF Isolated, TestOf, Running
<1>4. /\ DOMAIN ctl' = Slots /\ DOMAIN proc' = Slots /\ DOMAIN log' = Slots
      /\ \A r \in Slots \ {s} : ctl'[r] = ctl[r] /\ proc'[r] = proc[r] /\ log'[r] = log[r]
  BY DEF TestEffect, OnlyAt
<1>5. Shape'
  <2>1. \A r \in Slots : IsCtl(ctl'[r]) /\ IsProc(proc'[r])
    BY <1>4 DEF SlotsInv, Shape, TestEffect
  <2>2. QED
    BY <1>1, <1>2, <1>4, <2>1 DEF SlotsInv, Shape
<1>6. Placed'
  BY <1>1, <1>2 DEF SlotsInv, Placed
<1>7. Numbered'
  BY <1>1, <1>2 DEF SlotsInv, Numbered
<1>8. Emptied'
  BY <1>1, <1>4 DEF SlotsInv, Emptied
<1>9. Housed'
  <2>1. SUFFICES ASSUME NEW r \in Slots
                 PROVE  /\ ~ Running(r)' => proc'[r] = NoProc
                        /\ Running(r)' <=> inv'[r] # 0 /\ ctl'[r].pc # "none" /\ Isolated(r)'
                        /\ ctl'[r].pc = "setpgid" => Isolated(r)'
                        /\ InGroup(r)'
    BY DEF Housed
  <2>2. /\ ~ Running(r) => proc[r] = NoProc
        /\ Running(r) <=> inv[r] # 0 /\ ctl[r].pc # "none" /\ Isolated(r)
        /\ ctl[r].pc = "setpgid" => Isolated(r)
        /\ InGroup(r)
    BY DEF SlotsInv, Housed
  <2>3. CASE r = s
    BY <1>1, <1>3, <2>2, <2>3 DEF TestEffect
  <2>4. CASE r # s
    BY <1>1, <1>3, <1>4, <2>2, <2>4 DEF InGroup
  <2>5. QED
    BY <2>3, <2>4
<1>10. Survivors'
  BY <1>1 DEF Survivors, Ended
<1>11. QED
  BY <1>5, <1>6, <1>7, <1>8, <1>9, <1>10 DEF SlotsInv

\* A test goes on.
LEMMA TestRunsKeeps ==
  ASSUME SlotsInv, NEW s \in Slots, TestRuns(s)
  PROVE  SlotsInv'
BY TestStepActs, EffectKeeps DEF TestRuns, SlotsInv

\* A descendant of a test ends.
LEMMA DescendantEndsKeeps ==
  ASSUME SlotsInv, NEW s \in Slots, DescendantEnds(s)
  PROVE  SlotsInv'
<1>1. proc[s].desc /\ rpc \notin Ended /\ UNCHANGED <<plan, inv, log, ctl, runVars>>
      /\ proc' = [proc EXCEPT ![s].desc = FALSE]
  BY DEF DescendantEnds
<1>2. OnlyAt(proc, proc', s) /\ IsProc(proc'[s]) /\ proc'[s].st = proc[s].st
      /\ proc'[s].group = proc[s].group
  BY <1>1, DescendantIs DEF SlotsInv
<1>3. proc[s] # NoProc
  BY <1>1 DEF NoProc
<1>4. inv[s] # 0 /\ ctl[s].pc # "none" /\ Isolated(s)
  BY <1>1, <1>3 DEF SlotsInv, Housed
<1>5. TestEffect(s)
  BY <1>1, <1>2, <1>4, SameIs DEF TestEffect, InGroup, SlotsInv
<1>6. QED
  BY <1>1, <1>4, <1>5, EffectKeeps

\* The runner does not take, fill or empty a slot; it may do something to the process
\* of one.
Onward(s) ==
  /\ UNCHANGED <<plan, inv, log, ctl, active, nactive, process>>
  /\ OnlyAt(proc, proc', s) /\ IsProc(proc'[s]) /\ InGroup(s)'
  /\ proc' = proc \/ Running(s)
  /\ next' \in Nat /\ next' >= next

\* The runner goes on with the tests in flight.
LEMMA OnwardKeeps ==
  ASSUME SlotsInv, NEW s \in Slots, Onward(s), rpc \notin Ended \cup Begun,
         rpc' \in {"suite"} \cup Busy,
         rpc' \in Busy => ri' \in 1 .. nactive,
         rpc' \in Busy \ {"poll"} => process[Here']
  PROVE  SlotsInv'
<1>1. /\ plan' = plan /\ inv' = inv /\ log' = log /\ ctl' = ctl
      /\ active' = active /\ nactive' = nactive /\ process' = process
      /\ next' \in Nat /\ next' >= next
  BY DEF Onward
<1>2. rpc \notin Ended /\ rpc' \notin Ended /\ rpc \notin Begun /\ rpc' \notin Begun
  BY DEF Ended, Begun, Busy
<1>3. run' = run /\ InFlight' = InFlight /\ Starting' = {} /\ Starting = {}
  BY <1>1, <1>2 DEF run, InFlight, Starting, Begun
<1>4. \A r \in Slots : (Isolated(r) <=> Isolated(r)') /\ (Running(r) <=> process[r])
                       /\ (Running(r)' <=> process[r])
  BY <1>1, <1>2, <1>3 DEF Isolated, TestOf, Running, Begun
<1>5. DOMAIN proc' = Slots /\ \A r \in Slots \ {s} : proc'[r] = proc[r]
  BY DEF Onward, OnlyAt
<1>6. next \in Nat \ {0}
  BY DEF SlotsInv, Shape
<1>7. Shape'
  <2>1. \A r \in Slots : IsProc(proc'[r])
    BY <1>5 DEF SlotsInv, Shape, Onward
  <2>2. next' \in Nat \ {0}
    BY <1>1, <1>6
  <2>3. QED
    BY <1>1, <1>3, <1>5, <2>1, <2>2 DEF SlotsInv, Shape
<1>8. Placed'
  BY <1>1, <1>2, <1>3 DEF SlotsInv, Placed
<1>9. Numbered'
  <2>1. ASSUME NEW r \in Slots
        PROVE  inv[r] < next'
    <3>1. inv[r] \in Nat /\ inv[r] < next
      BY <1>2 DEF SlotsInv, Shape, Numbered
    <3>2. QED
      BY <1>1, <1>6, <3>1
  <2>2. QED
    BY <1>1, <1>2, <2>1 DEF SlotsInv, Numbered
<1>10. Emptied'
  <2>1. \A r \in Slots : inv[r] = 0 => ~Running(r)
    BY <1>2 DEF SlotsInv, Housed
  <2>2. \A r \in Slots : inv[r] = 0 => proc'[r] = proc[r]
    BY <1>5, <2>1 DEF Onward
  <2>3. QED
    BY <1>1, <2>2 DEF SlotsInv, Emptied
<1>11. Housed'
  <2>1. SUFFICES ASSUME NEW r \in Slots
                 PROVE  /\ ~ Running(r)' => proc'[r] = NoProc
                        /\ Running(r)' <=> inv'[r] # 0 /\ ctl'[r].pc # "none" /\ Isolated(r)'
                        /\ ctl'[r].pc = "setpgid" => Isolated(r)'
                        /\ InGroup(r)'
    BY DEF Housed
  <2>2. /\ ~ Running(r) => proc[r] = NoProc
        /\ Running(r) <=> inv[r] # 0 /\ ctl[r].pc # "none" /\ Isolated(r)
        /\ ctl[r].pc = "setpgid" => Isolated(r)
        /\ InGroup(r)
    BY <1>2 DEF SlotsInv, Housed
  <2>3. CASE r = s
    BY <1>1, <1>4, <2>2, <2>3 DEF Onward
  <2>4. CASE r # s
    BY <1>1, <1>4, <1>5, <2>2, <2>4 DEF InGroup
  <2>5. QED
    BY <2>3, <2>4
<1>12. Survivors'
  BY <1>2 DEF Survivors, Ended
<1>13. QED
  BY <1>7, <1>8, <1>9, <1>10, <1>11, <1>12 DEF SlotsInv

\* Doing nothing to the processes.
LEMMA OnwardIs ==
  ASSUME SlotsInv, NEW s \in Slots, rpc \notin Ended, next' \in Nat, next' >= next,
         UNCHANGED <<plan, inv, log, ctl, proc, active, nactive, process>>
  PROVE  Onward(s)
BY SameIs DEF SlotsInv, Housed, InGroup, Onward

\* There is a slot.
LEMMA SomeSlot ==
  ASSUME Shape
  PROVE  \E s \in Slots : TRUE
<1>1. 1 \in 1 .. run.jobs
  BY ActiveIs
<1>2. QED
  BY <1>1, ActiveIs

\* A test that is skipped without being started.
LEMMA SkipByAttrKeeps ==
  ASSUME SlotsInv, SkipByAttr
  PROVE  SlotsInv'
<1>1. PICK s \in Slots : TRUE
  BY SomeSlot DEF SlotsInv
<1>2. next \in Nat
  BY DEF SlotsInv, Shape
<1>3. rpc = "suite" /\ rpc' = "suite" /\ next' = next + 1
      /\ UNCHANGED <<plan, inv, log, ctl, proc, active, nactive, process>>
  BY DEF SkipByAttr, Launching, testVars
<1>4. rpc \notin Ended \cup Begun /\ rpc' \notin Busy /\ next' \in Nat /\ next' >= next
  BY <1>2, <1>3 DEF Ended, Begun, Busy
<1>5. Onward(s)
  BY <1>3, <1>4, OnwardIs
<1>6. QED
  BY <1>3, <1>4, <1>5, OnwardKeeps

\* The end of a suite.
LEMMA EndSuiteKeeps ==
  ASSUME SlotsInv, EndSuite
  PROVE  SlotsInv'
<1> DEFINE after == {i + 1 : i \in {i \in DOMAIN Todo : Todo[i].suite = su}}
<1>1. PICK s \in Slots : TRUE
  BY SomeSlot DEF SlotsInv
<1>2. next \in Nat /\ Len(Todo) \in Nat /\ DOMAIN Todo = 1 .. Len(Todo)
  BY RunIs DEF SlotsInv, Shape, Todo, run
<1>3. rpc = "suite" /\ rpc' = "suite" /\ next' = Max({next} \cup after)
      /\ UNCHANGED <<plan, inv, log, ctl, proc, active, nactive, process>>
  BY DEF EndSuite, testVars
<1>4. next' \in Nat /\ next' >= next
  <2>1. \A x \in after : x \in Nat /\ x <= next + Len(Todo) + 1
    BY <1>2
  <2> HIDE DEF after
  <2> DEFINE S == {next} \cup after
             b == next + Len(Todo) + 1
  <2>2. S \subseteq Nat /\ next \in S /\ b \in Nat /\ \A x \in S : x <= b
    BY <1>2, <2>1
  <2>3. next' = Max(S)
    BY <1>3
  <2> HIDE DEF S, b
  <2>4. Max(S) \in S /\ \A x \in S : x <= Max(S)
    BY <2>2, MaxIs
  <2>5. QED
    BY <1>2, <2>2, <2>3, <2>4
<1>5. rpc \notin Ended \cup Begun /\ rpc' \notin Busy
  BY <1>3 DEF Ended, Begun, Busy
<1>6. Onward(s)
  BY <1>3, <1>4, <1>5, OnwardIs
<1>7. QED
  BY <1>3, <1>4, <1>5, <1>6, OnwardKeeps

\* The runner begins to look for a test that has ended.
LEMMA CollectingKeeps ==
  ASSUME SlotsInv, Collecting
  PROVE  SlotsInv'
<1>1. PICK s \in Slots : TRUE
  BY SomeSlot DEF SlotsInv
<1>2. next \in Nat /\ nactive \in Nat
  BY ActiveIs DEF SlotsInv, Shape
<1>3. rpc = "suite" /\ nactive > 0 /\ rpc' = "poll" /\ ri' = 1 /\ next' = next
      /\ UNCHANGED <<plan, inv, log, ctl, proc, active, nactive, process>>
  BY DEF Collecting, testVars
<1>4. rpc \notin Ended \cup Begun /\ rpc' \in Busy /\ next' \in Nat /\ next' >= next
      /\ ri' \in 1 .. nactive
  BY <1>2, <1>3 DEF Ended, Begun, Busy
<1>5. Onward(s)
  BY <1>3, <1>4, OnwardIs
<1>6. QED
  BY <1>3, <1>4, <1>5, OnwardKeeps

\* What the invariant says of the slot the runner looks at.
LEMMA HereIs ==
  ASSUME SlotsInv, rpc \in Busy
  PROVE  /\ Here \in Slots /\ ri \in 1 .. nactive /\ ri \in 1 .. run.jobs
         /\ rpc \notin Ended \cup Begun /\ (Running(Here) <=> process[Here])
         /\ next \in Nat /\ inv[Here] # 0
<1>1. ri \in 1 .. nactive /\ next \in Nat
  BY DEF SlotsInv, Placed, Shape
<1>2. ri \in 1 .. run.jobs /\ Here \in Slots
  BY <1>1, ActiveIs DEF SlotsInv, Here
<1>3. rpc \notin Ended /\ rpc \notin Begun
  BY DEF Ended, Begun, Busy
<1>4. Running(Here) <=> process[Here]
  BY <1>3 DEF Running, Begun
<1>5. Here \in InFlight
  BY <1>1 DEF Here, InFlight
<1>6. inv[Here] # 0
  BY <1>2, <1>3, <1>5 DEF SlotsInv, Placed
<1>7. QED
  BY <1>1, <1>2, <1>3, <1>4, <1>6

\* The probes of triaxi_collect_from_active that find the test running.
LEMMA LooksKeep ==
  ASSUME SlotsInv, LookOn \/ Overdue \/ StillThere
  PROVE  SlotsInv'
<1>1. rpc \in Busy /\ UNCHANGED <<plan, inv, log, ctl, proc, active, nactive, process, next>>
  BY DEF LookOn, Overdue, StillThere, Looking, Busy, testVars
<1>2. /\ Here \in Slots /\ ri \in 1 .. nactive /\ rpc \notin Ended \cup Begun /\ next \in Nat
      /\ nactive \in Nat
  BY <1>1, HereIs, ActiveIs DEF SlotsInv
<1>3. rpc' \in Busy /\ ri' \in 1 .. nactive /\ (rpc' # "poll" => process[Here'])
  <2>1. CASE LookOn
    <3>1. rpc' = "poll" /\ ri' = (ri % nactive) + 1
      BY <2>1 DEF LookOn, Looking
    <3>2. QED
      BY <1>2, <3>1 DEF Busy
  <2>2. CASE Overdue
    <3>1. rpc' = "late" /\ ri' = ri /\ process[Here]
      BY <2>2 DEF Overdue, Looking
    <3>2. QED
      BY <1>1, <1>2, <3>1 DEF Busy, Here
  <2>3. CASE StillThere
    <3>1. rpc = "late" /\ rpc' = "kill" /\ ri' = ri
      BY <2>3 DEF StillThere, Looking
    <3>2. process[Here]
      BY <1>1, <3>1 DEF SlotsInv, Placed, Busy
    <3>3. QED
      BY <1>1, <1>2, <3>1, <3>2 DEF Busy, Here
  <2>4. QED
    BY <2>1, <2>2, <2>3
<1>4. next' \in Nat /\ next' >= next
  BY <1>1, <1>2
<1>5. PICK s \in Slots : Onward(s)
  BY <1>1, <1>2, <1>4, SomeSlot, OnwardIs DEF SlotsInv
<1>6. QED
  BY <1>2, <1>3, <1>5, OnwardKeeps

\* What kill(2) leaves of a process does not live.
LEMMA KilledIs ==
  ASSUME Shape, NEW s \in Slots
  PROVE  /\ IsProc(Killed(s)) /\ Killed(s).st # "alive"
         /\ proc[s].st = "alive" => Killed(s).st = "zombie" /\ Killed(s).status = Exit("FAULT", "kill")
         /\ proc[s].st # "alive" => Killed(s).st = proc[s].st /\ Killed(s).status = proc[s].status
         /\ proc[s] = NoProc => Killed(s) = NoProc
<1> DEFINE p  == proc[s]
           x  == Exit("FAULT", "kill")
           no == FALSE
           p1 == [p EXCEPT !.st = "zombie"]
           p2 == [p1 EXCEPT !.status = x]
           p3 == [p2 EXCEPT !.desc = no]
           q  == [p EXCEPT !.desc = no]
<1>1. p = [st |-> p.st, status |-> p.status, group |-> p.group, desc |-> p.desc]
  BY DEF Shape, IsProc
<1>2. Killed(s) = IF p.st = "alive" THEN p3 ELSE q
  BY DEF Killed
<1> HIDE DEF p, x, no
<1>3. p1 = [st |-> "zombie", status |-> p.status, group |-> p.group, desc |-> p.desc]
  BY <1>1
<1> HIDE DEF p1
<1>4. p2 = [st |-> "zombie", status |-> x, group |-> p.group, desc |-> p.desc]
  BY <1>3
<1> HIDE DEF p2
<1>5. p3 = [st |-> "zombie", status |-> x, group |-> p.group, desc |-> no]
  BY <1>4
<1>6. q = [st |-> p.st, status |-> p.status, group |-> p.group, desc |-> no]
  BY <1>1
<1> HIDE DEF p3, q
<1>7. IsProc(p3) /\ p3.st = "zombie" /\ p3.status = x
  BY <1>5 DEF IsProc
<1>8. IsProc(q) /\ q.st = p.st /\ q.status = p.status
  BY <1>6 DEF IsProc
<1>9. p = NoProc => q = NoProc /\ p.st # "alive"
  <2>1. SUFFICES ASSUME p = NoProc
                 PROVE  q = NoProc /\ p.st # "alive"
    OBVIOUS
  <2>2. p.st = "none" /\ p.status = NoExit /\ p.group = FALSE
    BY <2>1 DEF NoProc
  <2>3. q = [st |-> "none", status |-> NoExit, group |-> FALSE, desc |-> no]
    BY <1>6, <2>2
  <2>4. QED
    BY <2>2, <2>3 DEF NoProc, no
<1>10. /\ p = NoProc => Killed(s) = NoProc
       /\ IsProc(Killed(s)) /\ Killed(s).st # "alive"
       /\ p.st = "alive" => Killed(s).st = "zombie" /\ Killed(s).status = x
       /\ p.st # "alive" => Killed(s).st = p.st /\ Killed(s).status = p.status
  BY <1>2, <1>7, <1>8, <1>9
<1>11. QED
  BY <1>10 DEF p, x

\* Killing the test the runner looks at.
LEMMA MarkKeeps ==
  ASSUME SlotsInv, rpc \in Busy \ {"poll"}, rpc' = "wait",
         NEW p, IsProc(p), p.st # "alive", proc' = [proc EXCEPT ![Here] = p],
         UNCHANGED <<plan, inv, log, ctl, active, nactive, process, next, ri>>
  PROVE  SlotsInv'
<1>1. /\ Here \in Slots /\ ri \in 1 .. nactive /\ rpc \notin Ended \cup Begun /\ next \in Nat
      /\ nactive \in Nat /\ (Running(Here) <=> process[Here])
  BY HereIs, ActiveIs DEF SlotsInv
<1>2. process[Here] /\ Here' = Here
  BY DEF SlotsInv, Placed, Here
<1>3. PICK s \in Slots : s = Here
  BY <1>1
<1>4. OnlyAt(proc, proc', s) /\ proc'[s] = p
  BY <1>3, ReplacedIs DEF SlotsInv, Shape
<1>5. Onward(s)
  BY <1>1, <1>2, <1>3, <1>4 DEF Onward, InGroup
<1>6. rpc' \in Busy /\ ri' \in 1 .. nactive /\ process[Here']
  BY <1>1, <1>2 DEF Busy
<1>7. QED
  BY <1>1, <1>5, <1>6, OnwardKeeps

\* kill(-pid).
LEMMA KillGroupKeeps ==
  ASSUME SlotsInv, KillGroup
  PROVE  SlotsInv'
<1>1. rpc = "kill" /\ UNCHANGED <<plan, inv, log, ctl, active, nactive, process, next, ri>>
      /\ rpc \in Busy \ {"poll"}
  BY DEF KillGroup, Looking, Busy
<1>2. /\ Here \in Slots /\ ri \in 1 .. nactive /\ rpc \notin Ended \cup Begun /\ next \in Nat
      /\ nactive \in Nat
  BY <1>1, HereIs, ActiveIs DEF SlotsInv
<1>3. CASE Mark(Here, Killed(Here)) /\ rpc' = "wait"
  <2> DEFINE p == Killed(Here)
  <2>1. IsProc(p) /\ p.st # "alive"
    BY <1>2, KilledIs DEF SlotsInv
  <2>2. proc' = [proc EXCEPT ![Here] = p]
    BY <1>3 DEF Mark
  <2> HIDE DEF p
  <2>3. QED
    BY <1>1, <1>3, <2>1, <2>2, MarkKeeps
<1>4. CASE rpc' = "third" /\ UNCHANGED proc
  <2>1. process[Here] /\ Here' = Here
    BY <1>1 DEF SlotsInv, Placed, Here
  <2>2. next' \in Nat /\ next' >= next /\ rpc' \in Busy /\ ri' \in 1 .. nactive
    BY <1>1, <1>2, <1>4 DEF Busy
  <2>3. PICK s \in Slots : Onward(s)
    BY <1>1, <1>2, <1>4, <2>2, SomeSlot, OnwardIs DEF SlotsInv
  <2>4. QED
    BY <1>2, <2>1, <2>2, <2>3, OnwardKeeps
<1>5. QED
  BY <1>3, <1>4 DEF KillGroup

\* kill(pid).
LEMMA KillChildKeeps ==
  ASSUME SlotsInv, KillChild
  PROVE  SlotsInv'
<1>1. rpc = "third" /\ UNCHANGED <<plan, inv, log, ctl, active, nactive, process, next, ri>>
      /\ rpc \in Busy \ {"poll"} /\ rpc' = "wait"
  BY DEF KillChild, Looking, Busy
<1>2. Here \in Slots
  BY <1>1, HereIs
<1> DEFINE k == Killed(Here)
           d == proc[Here].desc
           p == [k EXCEPT !.desc = d]
<1>3. proc' = [proc EXCEPT ![Here] = p]
  BY DEF KillChild, Mark
<1>4. IsProc(k) /\ k.st # "alive"
  BY <1>2, KilledIs DEF SlotsInv
<1> HIDE DEF k, d
<1>5. p = [st |-> k.st, status |-> k.status, group |-> k.group, desc |-> d]
  BY <1>4 DEF IsProc
<1> HIDE DEF p
<1>6. IsProc(p) /\ p.st # "alive"
  BY <1>4, <1>5 DEF IsProc
<1>7. QED
  BY <1>1, <1>3, <1>6, MarkKeeps

\* The runner is gone, and has at most signalled some of the processes.
LEMMA GoneIs ==
  ASSUME SlotsInv, rpc' \in Ended, UNCHANGED <<plan, inv, log, ctl, active, nactive, process, next>>,
         DOMAIN proc' = Slots, \A s \in Slots : proc'[s] \in {proc[s], Killed(s)},
         Survivors'
  PROVE  SlotsInv'
<1>1. rpc' \notin Begun /\ rpc' \notin Busy
  BY DEF Ended, Begun, Busy
<1>2. run' = run
  BY DEF run
<1>3. Shape'
  <2>1. \A s \in Slots : IsProc(proc'[s])
    BY KilledIs DEF SlotsInv, Shape
  <2>2. QED
    BY <1>2, <2>1 DEF SlotsInv, Shape
<1>4. Placed'
  BY <1>1, <1>2 DEF SlotsInv, Placed
<1>5. Numbered'
  BY DEF SlotsInv, Numbered
<1>6. Emptied'
  BY KilledIs DEF SlotsInv, Emptied
<1>7. Housed'
  BY DEF Housed
<1>8. QED
  BY <1>3, <1>4, <1>5, <1>6, <1>7 DEF SlotsInv

\* The runner comes to its end, or calls exit() for a test that is not isolated.
LEMMA EndRunKeeps ==
  ASSUME SlotsInv, EndRun \/ ExitInline
  PROVE  SlotsInv'
<1>1. rpc' \in Ended /\ rpc' # "signalled"
      /\ UNCHANGED <<plan, inv, log, ctl, proc, active, nactive, process, next>>
  BY DEF EndRun, ExitInline, Ended, testVars
<1>2. DOMAIN proc' = Slots /\ \A s \in Slots : proc'[s] \in {proc[s], Killed(s)}
  BY <1>1 DEF SlotsInv, Shape
<1>3. Survivors'
  BY <1>1 DEF Survivors
<1>4. QED
  BY <1>1, <1>2, <1>3, GoneIs

\* triaxi_fatal_f.
LEMMA FatalKeeps ==
  ASSUME SlotsInv, NEW s, NEW v \in {"fatal", "unreachable"}, Fatal(s, v)
  PROVE  SlotsInv'
<1>1. rpc' \in Ended /\ rpc' # "signalled"
      /\ UNCHANGED <<plan, inv, log, ctl, active, nactive, process, next>>
  BY DEF Fatal, Ended
<1>2. DOMAIN proc' = Slots /\ \A r \in Slots : proc'[r] \in {proc[r], Killed(r)}
  BY DEF Fatal
<1>3. Survivors'
  BY <1>1 DEF Survivors
<1>4. QED
  BY <1>1, <1>2, <1>3, GoneIs

\* A signal to the runner: it does not know of a child whose group is not there, nor
\* of the one that fork() has not yet returned.
LEMMA SignalledKeeps ==
  ASSUME SlotsInv, Signalled
  PROVE  SlotsInv'
<1>1. rpc \notin Ended /\ rpc' = "signalled"
      /\ UNCHANGED <<plan, inv, log, ctl, active, nactive, process, next>>
  BY DEF Signalled
<1>2. DOMAIN proc' = Slots
      /\ \A s \in Slots : proc'[s] = IF process[s] /\ proc[s].group THEN Killed(s) ELSE proc[s]
  BY DEF Signalled
<1>3. Survivors'
  <2>1. SUFFICES ASSUME NEW s \in Slots, proc'[s].st = "alive", ctl[s].pc # "setpgid"
                 PROVE  ~process[s] /\ s \in {active[i] : i \in nactive + 1 .. run.jobs}
    BY <1>1 DEF Survivors, run
  <2>2. proc'[s] = proc[s] /\ ~ (process[s] /\ proc[s].group)
    BY <1>2, <2>1, KilledIs DEF SlotsInv
  <2>3. proc[s].group
    BY <1>1, <2>1, <2>2 DEF SlotsInv, Housed, InGroup
  <2>4. proc[s] # NoProc
    BY <2>1, <2>2 DEF NoProc
  <2>5. Running(s)
    BY <1>1, <2>4 DEF SlotsInv, Housed
  <2>6. ~process[s] /\ rpc = "forked" /\ s = active[nactive + 1]
    BY <2>2, <2>3, <2>5 DEF Running, TakeSlot
  <2>7. nactive < run.jobs /\ nactive \in Nat /\ run.jobs \in Nat
    BY <2>6, ActiveIs DEF SlotsInv, Placed, Begun
  <2>8. nactive + 1 \in nactive + 1 .. run.jobs
    BY <2>7
  <2>9. QED
    BY <2>6, <2>8
<1>4. rpc' \in Ended /\ \A s \in Slots : proc'[s] \in {proc[s], Killed(s)}
  BY <1>1, <1>2 DEF Ended
<1>5. QED
  BY <1>1, <1>2, <1>3, <1>4, GoneIs

\* The slot that is given back goes behind those in flight, which stay the same.
LEMMA SwapOutIs ==
  ASSUME Shape, NEW i \in 1 .. nactive, NEW a, a = SwapOut(i),
         \A j, k \in 1 .. run.jobs : active[j] = active[k] => j = k
  PROVE  /\ a \in [1 .. run.jobs -> Slots]
         /\ \A j, k \in 1 .. run.jobs : a[j] = a[k] => j = k
         /\ {a[j] : j \in 1 .. nactive - 1} = InFlight \ {active[i]}
<1> DEFINE b == [active EXCEPT ![i] = active[nactive]]
<1>1. /\ run.jobs \in Nat /\ nactive \in Nat /\ nactive <= run.jobs
      /\ i \in 1 .. run.jobs /\ nactive \in 1 .. run.jobs
      /\ active \in [1 .. run.jobs -> Slots]
  BY ActiveIs DEF Shape
<1>2. a = [b EXCEPT ![nactive] = active[i]]
  BY DEF SwapOut
<1>3. b \in [1 .. run.jobs -> Slots]
      /\ \A j \in 1 .. run.jobs : b[j] = IF j = i THEN active[nactive] ELSE active[j]
  BY <1>1
<1> HIDE DEF b
<1>4. a \in [1 .. run.jobs -> Slots]
      /\ \A j \in 1 .. run.jobs : a[j] = IF j = nactive THEN active[i]
                                         ELSE IF j = i THEN active[nactive] ELSE active[j]
  BY <1>1, <1>2, <1>3
<1>5. \A j, k \in 1 .. run.jobs : a[j] = a[k] => j = k
  BY <1>1, <1>4
<1>6. {a[j] : j \in 1 .. nactive - 1} = InFlight \ {active[i]}
  <2>1. ASSUME NEW j \in 1 .. nactive - 1
        PROVE  a[j] \in InFlight \ {active[i]}
    <3>1. j \in 1 .. run.jobs /\ j \in 1 .. nactive /\ j # nactive /\ nactive \in 1 .. nactive
      BY <1>1, <2>1
    <3>2. CASE j = i
      <4>1. a[j] = active[nactive]
        BY <1>4, <3>1, <3>2
      <4>2. active[nactive] # active[i]
        BY <1>1, <3>1, <3>2
      <4>3. QED
        BY <3>1, <4>1, <4>2 DEF InFlight
    <3>3. CASE j # i
      <4>1. a[j] = active[j]
        BY <1>4, <3>1, <3>3
      <4>2. active[j] # active[i]
        BY <1>1, <3>1, <3>3
      <4>3. QED
        BY <3>1, <4>1, <4>2 DEF InFlight
    <3>4. QED
      BY <3>2, <3>3
  <2>2. ASSUME NEW r \in InFlight \ {active[i]}
        PROVE  \E j \in 1 .. nactive - 1 : r = a[j]
    <3>1. PICK k \in 1 .. nactive : r = active[k]
      BY <2>2 DEF InFlight
    <3>2. k # i /\ k \in 1 .. run.jobs
      BY <1>1, <2>2, <3>1
    <3>3. CASE k = nactive
      <4>1. i \in 1 .. nactive - 1 /\ i # nactive
        BY <1>1, <3>2, <3>3
      <4>2. a[i] = active[nactive]
        BY <1>1, <1>4, <4>1
      <4>3. QED
        BY <3>1, <3>3, <4>1, <4>2
    <3>4. CASE k # nactive
      <4>1. k \in 1 .. nactive - 1
        BY <1>1, <3>4
      <4>2. a[k] = active[k]
        BY <1>4, <3>2, <3>4
      <4>3. QED
        BY <3>1, <4>1, <4>2
    <3>5. QED
      BY <3>3, <3>4
  <2>3. QED
    BY <2>1, <2>2
<1>7. QED
  BY <1>4, <1>5, <1>6

\* triaxi_collect_active_at, when the test has a verdict.
Collected(s, terminated) ==
  /\ log' = [log EXCEPT ![s] = EmptyLog]
  /\ proc' = [proc EXCEPT ![s] = Reaped(s, terminated \/ process[s])]
  /\ process' = [process EXCEPT ![s] = FALSE]
  /\ active' = SwapOut(ri) /\ nactive' = nactive - 1
  /\ rpc' = "suite"
  /\ inv' = [inv EXCEPT ![s] = 0] /\ ctl' = [ctl EXCEPT ![s] = Ctl("none")]
  /\ plan' = plan /\ next' = next

\* No process of the test is left behind.
LEMMA ReapedIs ==
  ASSUME SlotsInv, rpc \in Busy, NEW terminated \in BOOLEAN
  PROVE  Reaped(Here, terminated \/ process[Here]) = NoProc
<1>1. Here \in Slots /\ rpc \notin Ended /\ (Running(Here) <=> process[Here])
  BY HereIs
<1> DEFINE d == proc[Here].desc /\ ~(terminated \/ process[Here])
<1>2. d = FALSE
  <2>1. CASE process[Here]
    BY <2>1
  <2>2. CASE ~process[Here]
    <3>1. proc[Here] = NoProc
      BY <1>1, <2>2 DEF SlotsInv, Housed
    <3>2. QED
      BY <3>1 DEF NoProc
  <2>3. QED
    BY <2>1, <2>2
<1>3. Reaped(Here, terminated \/ process[Here]) = [NoProc EXCEPT !.desc = d]
  BY DEF Reaped
<1> HIDE DEF d
<1>4. QED
  BY <1>2, <1>3 DEF NoProc

\* A slot that is given back.
LEMMA CollectedKeeps ==
  ASSUME SlotsInv, rpc \in Busy, NEW terminated \in BOOLEAN, Collected(Here, terminated)
  PROVE  SlotsInv'
<1> DEFINE s == Here
<1>1. /\ s \in Slots /\ ri \in 1 .. nactive /\ ri \in 1 .. run.jobs
      /\ rpc \notin Ended \cup Begun /\ next \in Nat /\ s = active[ri]
  BY HereIs DEF Here
<1>2. run.jobs \in Nat /\ nactive \in Nat /\ nactive <= run.jobs
  BY ActiveIs DEF SlotsInv
<1>3. /\ plan' = plan /\ next' = next /\ rpc' = "suite" /\ nactive' = nactive - 1
      /\ log' = [log EXCEPT ![s] = EmptyLog] /\ proc' = [proc EXCEPT ![s] = NoProc]
      /\ process' = [process EXCEPT ![s] = FALSE] /\ active' = SwapOut(ri)
      /\ inv' = [inv EXCEPT ![s] = 0] /\ ctl' = [ctl EXCEPT ![s] = Ctl("none")]
  BY ReapedIs DEF Collected
<1>4. rpc' \notin Ended /\ rpc' \notin Begun /\ rpc' \notin Busy
  BY <1>3 DEF Ended, Begun, Busy
<1> HIDE DEF s
<1>5. /\ DOMAIN inv = Slots /\ DOMAIN process = Slots /\ DOMAIN ctl = Slots
      /\ DOMAIN proc = Slots /\ DOMAIN log = Slots
  BY DEF SlotsInv, Shape
<1>6. /\ inv'[s] = 0 /\ ctl'[s] = Ctl("none") /\ log'[s] = EmptyLog /\ proc'[s] = NoProc
      /\ process'[s] = FALSE
  BY <1>1, <1>3, <1>5
<1>7. \A r \in Slots \ {s} : /\ inv'[r] = inv[r] /\ ctl'[r] = ctl[r] /\ log'[r] = log[r]
                             /\ proc'[r] = proc[r] /\ process'[r] = process[r]
  BY <1>3, <1>5
<1>8. run' = run /\ Starting' = {} /\ Starting = {}
  BY <1>1, <1>3, <1>4 DEF run, Starting, Begun
<1>9. /\ active' \in [1 .. run.jobs -> Slots]
      /\ \A j, k \in 1 .. run.jobs : active'[j] = active'[k] => j = k
      /\ {active'[j] : j \in 1 .. nactive - 1} = InFlight \ {s}
  <2>1. \A j, k \in 1 .. run.jobs : active[j] = active[k] => j = k
    BY DEF SlotsInv, Placed
  <2> DEFINE a == SwapOut(ri)
  <2> HIDE DEF a
  <2>2. /\ a \in [1 .. run.jobs -> Slots]
        /\ \A j, k \in 1 .. run.jobs : a[j] = a[k] => j = k
        /\ {a[j] : j \in 1 .. nactive - 1} = InFlight \ {active[ri]}
    BY <1>1, <2>1, SwapOutIs DEF SlotsInv, a
  <2>3. active' = a
    BY <1>3 DEF a
  <2>4. QED
    BY <1>1, <2>2, <2>3
<1>10. InFlight' = InFlight \ {s}
  BY <1>3, <1>9 DEF InFlight
<1>11. IsCtl(Ctl("none")) /\ Ctl("none").pc = "none" /\ IsProc(NoProc) /\ NoProc.st = "none"
  BY DEF Ctl, IsCtl, ExecOutcomes, IsProc, NoProc
<1>12. Shape'
  <2>1. inv' \in [Slots -> Nat] /\ process' \in [Slots -> BOOLEAN]
    BY <1>3 DEF SlotsInv, Shape
  <2>2. DOMAIN ctl' = Slots /\ DOMAIN proc' = Slots /\ DOMAIN log' = Slots
    BY <1>3, <1>5
  <2>3. \A r \in Slots : IsCtl(ctl'[r]) /\ IsProc(proc'[r])
    BY <1>6, <1>7, <1>11 DEF SlotsInv, Shape
  <2>4. nactive' \in 0 .. run.jobs
    BY <1>1, <1>2, <1>3
  <2>5. QED
    BY <1>3, <1>8, <1>9, <2>1, <2>2, <2>3, <2>4 DEF SlotsInv, Shape
<1>13. Placed'
  <2>1. {r \in Slots : inv[r] # 0} = InFlight
    BY <1>1, <1>8 DEF SlotsInv, Placed
  <2>2. {r \in Slots : inv'[r] # 0} = InFlight \ {s}
    BY <1>6, <1>7, <2>1
  <2>3. QED
    BY <1>4, <1>8, <1>9, <1>10, <2>2 DEF Placed
<1>14. Numbered'
  <2>1. \A r, q \in Slots : inv'[r] = inv'[q] /\ inv'[r] # 0 => r = q
    BY <1>6, <1>7 DEF SlotsInv, Numbered
  <2>2. \A r \in Slots : inv[r] < next
    BY <1>1 DEF SlotsInv, Numbered
  <2>3. 0 < next
    BY DEF SlotsInv, Shape
  <2>4. \A r \in Slots : inv'[r] < next
    BY <1>6, <1>7, <2>2, <2>3
  <2>5. QED
    BY <1>3, <2>1, <2>4 DEF Numbered
<1>15. Emptied'
  BY <1>6, <1>7, <1>11 DEF SlotsInv, Emptied
<1>16. Housed'
  <2>1. \A r \in Slots : (Running(r) <=> process[r]) /\ (Running(r)' <=> process'[r])
    BY <1>1, <1>4 DEF Running, Begun
  <2>2. \A r \in Slots \ {s} : Isolated(r)' <=> Isolated(r)
    BY <1>7, <1>8 DEF Isolated, TestOf
  <2>3. SUFFICES ASSUME NEW r \in Slots
                 PROVE  /\ ~ Running(r)' => proc'[r] = NoProc
                        /\ Running(r)' <=> inv'[r] # 0 /\ ctl'[r].pc # "none" /\ Isolated(r)'
                        /\ ctl'[r].pc = "setpgid" => Isolated(r)'
                        /\ InGroup(r)'
    BY DEF Housed
  <2>4. CASE r = s
    BY <1>6, <1>11, <2>1, <2>4 DEF InGroup
  <2>5. CASE r # s
    <3>1. /\ ~ Running(r) => proc[r] = NoProc
          /\ Running(r) <=> inv[r] # 0 /\ ctl[r].pc # "none" /\ Isolated(r)
          /\ ctl[r].pc = "setpgid" => Isolated(r)
          /\ InGroup(r)
      BY <1>1 DEF SlotsInv, Housed
    <3>2. inv'[r] = inv[r] /\ ctl'[r] = ctl[r] /\ proc'[r] = proc[r] /\ process'[r] = process[r]
      BY <1>7, <2>5
    <3>3. (Isolated(r)' <=> Isolated(r)) /\ (Running(r)' <=> Running(r))
      BY <2>1, <2>2, <2>5, <3>2
    <3>4. QED
      BY <3>1, <3>2, <3>3 DEF InGroup
  <2>6. QED
    BY <2>4, <2>5
<1>17. Survivors'
  BY <1>3 DEF Survivors
<1>18. QED
  BY <1>12, <1>13, <1>14, <1>15, <1>16, <1>17 DEF SlotsInv

\* A test is collected, or the runner stops because it cannot make out what became of it.
LEMMA CollectAtKeeps ==
  ASSUME SlotsInv, rpc \in Busy, NEW ex, NEW terminated \in BOOLEAN, CollectAt(ri, ex, terminated)
  PROVE  SlotsInv'
<1> DEFINE v == Interpret(state[Here], ex, log[Here])
<1>1. CASE v \in {"fatal", "unreachable"}
  <2>1. Fatal(Here, v)
    BY <1>1 DEF CollectAt, Here
  <2> HIDE DEF v
  <2>2. QED
    BY <1>1, <2>1, FatalKeeps
<1>2. CASE v \notin {"fatal", "unreachable"}
  <2>1. Collected(Here, terminated)
    BY <1>2 DEF CollectAt, Collected, Here
  <2>2. QED
    BY <2>1, CollectedKeeps
<1>3. QED
  BY <1>1, <1>2

\* The three ways to come to that.
LEMMA CollectKeeps ==
  ASSUME SlotsInv, CollectParked \/ CollectEnded \/ CollectKilled
  PROVE  SlotsInv'
<1>1. rpc \in Busy
  BY DEF CollectParked, CollectEnded, CollectKilled, Busy
<1>2. \E ex : \E terminated \in BOOLEAN : CollectAt(ri, ex, terminated)
  BY DEF CollectParked, CollectEnded, CollectKilled
<1>3. QED
  BY <1>1, <1>2, CollectAtKeeps

\* The slot the next test is given.
LEMMA TakenIs ==
  ASSUME SlotsInv, nactive < run.jobs, rpc \notin Ended
  PROVE  /\ TakeSlot \in Slots /\ TakeSlot \notin InFlight
         /\ rpc \notin Begun => inv[TakeSlot] = 0
<1>1. TakeSlot \in Slots /\ nactive + 1 \in 1 .. run.jobs /\ nactive \in Nat /\ run.jobs \in Nat
  BY ActiveIs DEF SlotsInv
<1>2. TakeSlot \notin InFlight
  <2>1. ASSUME NEW i \in 1 .. nactive
        PROVE  active[i] # active[nactive + 1]
    <3>1. i \in 1 .. run.jobs /\ i # nactive + 1
      BY <1>1, <2>1
    <3>2. QED
      BY <1>1, <3>1 DEF SlotsInv, Placed
  <2>2. QED
    BY <2>1 DEF InFlight, TakeSlot
<1>3. rpc \notin Begun => Starting = {}
  BY DEF Starting, Begun
<1>4. QED
  BY <1>1, <1>2, <1>3 DEF SlotsInv, Placed

\* active[nactive++] = h.
LEMMA ActivateIs ==
  ASSUME SlotsInv, nactive < run.jobs, Activate(TakeSlot)
  PROVE  /\ active' = active /\ nactive' = nactive + 1 /\ nactive' \in 0 .. run.jobs
         /\ next' = next + 1 /\ rpc' = "suite"
         /\ InFlight' = InFlight \cup {TakeSlot}
<1>1. nactive + 1 \in 1 .. run.jobs /\ nactive \in Nat /\ run.jobs \in Nat
      /\ active \in [1 .. run.jobs -> Slots]
  BY ActiveIs DEF SlotsInv, Shape
<1>2. active' = active
  BY <1>1 DEF Activate, TakeSlot
<1>3. nactive' = nactive + 1 /\ next' = next + 1 /\ rpc' = "suite" /\ nactive' \in 0 .. run.jobs
  BY <1>1 DEF Activate
<1>4. InFlight' = {active[i] : i \in 1 .. nactive + 1}
  BY <1>2, <1>3 DEF InFlight
<1>5. 1 .. nactive + 1 = (1 .. nactive) \cup {nactive + 1}
  BY <1>1
<1>6. QED
  BY <1>2, <1>3, <1>4, <1>5 DEF InFlight, TakeSlot

\* A test that was started is in flight: its child has been forked, or it is over.
LEMMA ActivatedKeeps ==
  ASSUME SlotsInv, rpc \in Begun, Activate(TakeSlot), UNCHANGED <<plan, inv, log, ctl, proc>>,
         process' = IF rpc = "forked" THEN [process EXCEPT ![TakeSlot] = TRUE] ELSE process
  PROVE  SlotsInv'
<1> DEFINE s == TakeSlot
<1>1. rpc \notin Ended /\ nactive < run.jobs
  BY DEF SlotsInv, Placed, Ended, Begun
<1>2. s \in Slots /\ s \notin InFlight
  BY <1>1, TakenIs
<1>3. /\ active' = active /\ nactive' = nactive + 1 /\ nactive' \in 0 .. run.jobs
      /\ next' = next + 1 /\ rpc' = "suite" /\ InFlight' = InFlight \cup {s}
  BY <1>1, ActivateIs
<1>4. run' = run /\ Starting' = {} /\ Starting = {s}
      /\ rpc' \notin Ended /\ rpc' \notin Begun /\ rpc' \notin Busy
  BY <1>3 DEF run, Starting, Begun, Ended, Busy
<1>5. next \in Nat \ {0} /\ inv \in [Slots -> Nat] /\ process \in [Slots -> BOOLEAN]
  BY DEF SlotsInv, Shape
<1>6. process' \in [Slots -> BOOLEAN] /\ \A r \in Slots : process'[r] <=> Running(r)
  BY <1>2, <1>5 DEF Running
<1> HIDE DEF s
<1>7. Shape'
  <2>1. next' \in Nat \ {0}
    BY <1>3, <1>5
  <2>2. QED
    BY <1>3, <1>4, <1>6, <2>1 DEF SlotsInv, Shape
<1>8. Placed'
  <2>1. {r \in Slots : inv[r] # 0} = InFlight \cup {s}
    BY <1>1, <1>4 DEF SlotsInv, Placed
  <2>2. QED
    BY <1>3, <1>4, <2>1 DEF SlotsInv, Placed
<1>9. Numbered'
  <2>1. ASSUME NEW r \in Slots
        PROVE  inv[r] < next + 1
    <3>1. inv[r] \in Nat /\ (inv[r] < next \/ inv[r] = next)
      BY <1>1, <1>5 DEF SlotsInv, Numbered
    <3>2. QED
      BY <1>5, <3>1
  <2>2. QED
    BY <1>3, <2>1 DEF SlotsInv, Numbered
<1>10. Emptied'
  <2>1. \A r \in Slots : inv[r] = 0 => ~Running(r)
    BY <1>1 DEF SlotsInv, Housed
  <2>2. QED
    BY <1>6, <2>1 DEF SlotsInv, Emptied
<1>11. Housed'
  <2>1. \A r \in Slots : (Running(r)' <=> Running(r)) /\ (Isolated(r)' <=> Isolated(r))
    BY <1>4, <1>6 DEF Running, Begun, Isolated, TestOf
  <2>2. QED
    BY <1>1, <1>4, <2>1 DEF SlotsInv, Housed, InGroup
<1>12. Survivors'
  BY <1>3 DEF Survivors
<1>13. QED
  BY <1>7, <1>8, <1>9, <1>10, <1>11, <1>12 DEF SlotsInv

\* fork() has returned, or a test that is not isolated has ended.
LEMMA RecordKeeps ==
  ASSUME SlotsInv, RecordChild \/ Park
  PROVE  SlotsInv'
<1>1. CASE RecordChild
  <2>1. /\ rpc = "forked" /\ rpc \in Begun /\ Activate(TakeSlot)
        /\ process' = [process EXCEPT ![TakeSlot] = TRUE]
        /\ UNCHANGED <<plan, inv, log, ctl, proc>>
    BY <1>1 DEF RecordChild, Begun, testVars
  <2>2. QED
    BY <2>1, ActivatedKeeps
<1>2. CASE Park
  <2>1. /\ rpc = "inline" /\ rpc \in Begun /\ Activate(TakeSlot) /\ process' = process
        /\ UNCHANGED <<plan, inv, log, ctl, proc>>
    BY <1>2 DEF Park, Begun, testVars
  <2>2. QED
    BY <2>1, ActivatedKeeps
<1>3. QED
  BY <1>1, <1>2

\* The next test is put into slot s.
Started(s) ==
  /\ inv' = [inv EXCEPT ![s] = next]
  /\ UNCHANGED <<plan, log, active, process>>
  /\ OnlyAt(ctl, ctl', s) /\ IsCtl(ctl'[s]) /\ OnlyAt(proc, proc', s) /\ IsProc(proc'[s])
  /\ \/ rpc' \in Begun /\ nactive' = nactive /\ next' = next
     \/ rpc' = "suite" /\ nactive' = nactive + 1 /\ next' = next + 1
  /\ rpc' = "forked" <=> ctl'[s].pc # "none" /\ Isolated(s)'
  /\ rpc' # "forked" => proc'[s] = NoProc
  /\ ctl'[s].pc = "setpgid" => Isolated(s)'
  /\ InGroup(s)'

\* A slot that is taken.
LEMMA StartedKeeps ==
  ASSUME SlotsInv, rpc = "suite", nactive < run.jobs, NEW s \in Slots, s = TakeSlot, Started(s)
  PROVE  SlotsInv'
<1>1. rpc \notin Ended /\ rpc \notin Begun /\ rpc' \notin Ended /\ rpc' \notin Busy
      /\ rpc' # "signalled"
  BY DEF Started, Ended, Begun, Busy
<1>2. s \in Slots /\ s \notin InFlight /\ inv[s] = 0
  BY <1>1, TakenIs
<1>3. /\ run.jobs \in Nat /\ nactive \in Nat /\ next \in Nat \ {0} /\ inv \in [Slots -> Nat]
      /\ \A r \in Slots : inv[r] < next
  BY <1>1, ActiveIs DEF SlotsInv, Shape, Numbered
<1>4. run' = run /\ Starting = {} /\ active' = active /\ process' = process
  BY <1>1 DEF run, Starting, Begun, Started
<1>5. InFlight' \cup Starting' = InFlight \cup {s}
  <2>1. CASE rpc' \in Begun /\ nactive' = nactive
    BY <1>4, <2>1 DEF InFlight, Starting, Begun, TakeSlot
  <2>2. CASE rpc' = "suite" /\ nactive' = nactive + 1
    <3>1. 1 .. nactive + 1 = (1 .. nactive) \cup {nactive + 1}
      BY <1>3
    <3>2. Starting' = {}
      BY <2>2 DEF Starting
    <3>3. InFlight' = {active[i] : i \in 1 .. nactive + 1}
      BY <1>4, <2>2 DEF InFlight
    <3>4. QED
      BY <3>1, <3>2, <3>3 DEF InFlight, TakeSlot
  <2>3. QED
    BY <2>1, <2>2 DEF Started
<1>6. rpc' = "forked" => TakeSlot' = s
  BY <1>4 DEF Started, TakeSlot
<1>7. \A r \in Slots : (Running(r) <=> process[r])
                       /\ (Running(r)' <=> process[r] \/ (rpc' = "forked" /\ r = s))
  BY <1>1, <1>4, <1>6 DEF Running, Begun
<1>8. process[s] = FALSE /\ proc[s] = NoProc
  BY <1>2 DEF SlotsInv, Shape, Emptied
<1>9. inv' \in [Slots -> Nat] /\ inv'[s] = next /\ \A r \in Slots \ {s} : inv'[r] = inv[r]
  BY <1>2, <1>3 DEF Started
<1>10. /\ DOMAIN ctl' = Slots /\ DOMAIN proc' = Slots /\ log' = log
       /\ \A r \in Slots \ {s} : ctl'[r] = ctl[r] /\ proc'[r] = proc[r]
       /\ IsCtl(ctl'[s]) /\ IsProc(proc'[s])
  BY DEF Started, OnlyAt
<1>11. Shape'
  <2>1. \A r \in Slots : IsCtl(ctl'[r]) /\ IsProc(proc'[r])
    BY <1>10 DEF SlotsInv, Shape
  <2>2. nactive' \in 0 .. run.jobs /\ next' \in Nat \ {0}
    BY <1>3 DEF Started
  <2>3. plan' = plan
    BY DEF Started
  <2>4. QED
    BY <1>4, <1>9, <1>10, <2>1, <2>2, <2>3 DEF SlotsInv, Shape
<1>12. Placed'
  <2>1. {r \in Slots : inv[r] # 0} = InFlight
    BY <1>1, <1>4 DEF SlotsInv, Placed
  <2>2. {r \in Slots : inv'[r] # 0} = InFlight \cup {s}
    BY <1>2, <1>3, <1>9, <2>1
  <2>3. rpc' \in Begun => nactive' = nactive
    BY DEF Started, Begun
  <2>4. QED
    BY <1>1, <1>4, <1>5, <2>2, <2>3 DEF SlotsInv, Placed
<1>13. Numbered'
  <2>1. \A r, q \in Slots : inv'[r] = inv'[q] /\ inv'[r] # 0 => r = q
    <3>1. \A r \in Slots \ {s} : inv'[r] # next
      BY <1>3, <1>9
    <3>2. QED
      BY <1>9, <3>1 DEF SlotsInv, Numbered
  <2>2. ASSUME NEW r \in Slots
        PROVE  inv'[r] < next' \/ (rpc' \in Begun /\ r = TakeSlot' /\ inv'[r] = next')
    <3>1. CASE rpc' \in Begun /\ nactive' = nactive /\ next' = next
      <4>1. TakeSlot' = s
        BY <1>4, <3>1 DEF TakeSlot
      <4>2. QED
        BY <1>3, <1>9, <3>1, <4>1
    <3>2. CASE rpc' = "suite" /\ next' = next + 1
      <4>1. inv'[r] \in Nat /\ inv'[r] <= next
        BY <1>3, <1>9
      <4>2. QED
        BY <1>3, <3>2, <4>1
    <3>3. QED
      BY <3>1, <3>2 DEF Started
  <2>3. QED
    BY <2>1, <2>2 DEF Numbered
<1>14. Emptied'
  BY <1>3, <1>4, <1>9, <1>10 DEF SlotsInv, Emptied
<1>15. Housed'
  <2>1. \A r \in Slots \ {s} : Isolated(r)' <=> Isolated(r)
    BY <1>4, <1>9 DEF Isolated, TestOf
  <2>2. SUFFICES ASSUME NEW r \in Slots
                 PROVE  /\ ~ Running(r)' => proc'[r] = NoProc
                        /\ Running(r)' <=> inv'[r] # 0 /\ ctl'[r].pc # "none" /\ Isolated(r)'
                        /\ ctl'[r].pc = "setpgid" => Isolated(r)'
                        /\ InGroup(r)'
    BY DEF Housed
  <2>3. CASE r = s
    <3>1. Running(s)' <=> rpc' = "forked"
      BY <1>2, <1>7, <1>8
    <3>2. /\ rpc' = "forked" <=> ctl'[s].pc # "none" /\ Isolated(s)'
          /\ rpc' # "forked" => proc'[s] = NoProc
          /\ ctl'[s].pc = "setpgid" => Isolated(s)'
          /\ InGroup(s)'
      BY DEF Started
    <3>3. inv'[s] # 0
      BY <1>3, <1>9
    <3>4. QED
      BY <2>3, <3>1, <3>2, <3>3
  <2>4. CASE r # s
    <3>1. /\ ~ Running(r) => proc[r] = NoProc
          /\ Running(r) <=> inv[r] # 0 /\ ctl[r].pc # "none" /\ Isolated(r)
          /\ ctl[r].pc = "setpgid" => Isolated(r)
          /\ InGroup(r)
      BY <1>1 DEF SlotsInv, Housed
    <3>2. /\ inv'[r] = inv[r] /\ ctl'[r] = ctl[r] /\ proc'[r] = proc[r]
          /\ (Isolated(r)' <=> Isolated(r)) /\ (Running(r)' <=> Running(r))
      BY <1>7, <1>9, <1>10, <2>1, <2>4
    <3>3. QED
      BY <3>1, <3>2 DEF InGroup
  <2>5. QED
    BY <2>3, <2>4
<1>16. Survivors'
  BY <1>1 DEF Survivors
<1>17. QED
  BY <1>11, <1>12, <1>13, <1>14, <1>15, <1>16 DEF SlotsInv

\* triaxi_test_start: the test is rejected, or it is forked, or it runs at once.
LEMMA StartsKeep ==
  ASSUME SlotsInv, StartRejected \/ StartIsolated \/ StartInline
  PROVE  SlotsInv'
<1>1. rpc = "suite" /\ nactive < run.jobs
  BY DEF StartRejected, StartIsolated, StartInline, MayStart, Launching
<1>2. rpc \notin Ended /\ rpc \notin Begun
  BY <1>1 DEF Ended, Begun
<1>3. PICK s \in Slots : s = TakeSlot
  BY <1>1, ActiveIs DEF SlotsInv
<1>4. inv[s] = 0 /\ DOMAIN inv = Slots /\ DOMAIN ctl = Slots /\ DOMAIN proc = Slots
  BY <1>1, <1>2, <1>3, TakenIs DEF SlotsInv, Shape
<1>5. ctl[s].pc = "none" /\ proc[s] = NoProc
  BY <1>4 DEF SlotsInv, Emptied
<1>6. NoProc.st = "none" /\ IsProc(NoProc)
  BY DEF NoProc, IsProc
<1>7. IsCtl(Ctl("setpgid")) /\ Ctl("setpgid").pc = "setpgid" /\ IsCtl(Ctl("enter"))
      /\ Ctl("enter").pc = "enter"
  BY DEF Ctl, IsCtl, ExecOutcomes
<1>8. IsProc(Forked)
  <2> DEFINE p == NoProc
  <2>1. p = [st |-> p.st, status |-> p.status, group |-> p.group, desc |-> p.desc]
    BY DEF NoProc
  <2>2. Forked = [p EXCEPT !.st = "alive"]
    BY DEF Forked
  <2> HIDE DEF p
  <2>3. Forked = [st |-> "alive", status |-> p.status, group |-> p.group, desc |-> p.desc]
    BY <2>1, <2>2
  <2>4. QED
    BY <2>3 DEF IsProc
<1>9. inv' = [inv EXCEPT ![s] = next] /\ plan' = plan /\ log' = log /\ process' = process
  BY <1>3 DEF StartRejected, StartIsolated, StartInline, Prepare
<1>10. Isolated(s)' <=> Todo[next].isolated /\ ~run.debug
  <2>1. inv'[s] = next
    BY <1>4, <1>9
  <2>2. QED
    BY <1>9, <2>1 DEF Isolated, TestOf, Todo, run
<1>11. CASE StartRejected
  <2>1. Activate(TakeSlot) /\ ctl' = ctl /\ proc' = proc
    BY <1>11 DEF StartRejected
  <2>2. active' = active /\ nactive' = nactive + 1 /\ next' = next + 1 /\ rpc' = "suite"
    BY <1>1, <2>1, ActivateIs
  <2>3. OnlyAt(ctl, ctl', s) /\ IsCtl(ctl'[s]) /\ OnlyAt(proc, proc', s) /\ IsProc(proc'[s])
    BY <2>1, SameIs DEF SlotsInv
  <2>4. Started(s)
    BY <1>5, <1>6, <1>9, <2>1, <2>2, <2>3 DEF Started, InGroup
  <2>5. QED
    BY <1>1, <1>3, <2>4, StartedKeeps
<1>12. CASE StartIsolated
  <2>1. /\ ctl' = [ctl EXCEPT ![s] = Ctl("setpgid")] /\ proc' = [proc EXCEPT ![s] = Forked]
        /\ UNCHANGED <<active, nactive, next>> /\ rpc' = "forked"
    BY <1>3, <1>12 DEF StartIsolated
  <2>2. OnlyAt(ctl, ctl', s) /\ ctl'[s] = Ctl("setpgid") /\ OnlyAt(proc, proc', s) /\ proc'[s] = Forked
    BY <1>4, <2>1, ReplacedIs
  <2>3. Isolated(s)'
    BY <1>10, <1>12 DEF StartIsolated
  <2>4. Started(s)
    BY <1>7, <1>8, <1>9, <2>1, <2>2, <2>3 DEF Started, InGroup, Begun
  <2>5. QED
    BY <1>1, <1>3, <2>4, StartedKeeps
<1>13. CASE StartInline
  <2>1. /\ ctl' = [ctl EXCEPT ![s] = Ctl("enter")] /\ proc' = proc
        /\ UNCHANGED <<active, nactive, next>> /\ rpc' = "inline"
    BY <1>3, <1>13 DEF StartInline
  <2>2. OnlyAt(ctl, ctl', s) /\ ctl'[s] = Ctl("enter")
    BY <1>4, <2>1, ReplacedIs
  <2>3. OnlyAt(proc, proc', s) /\ IsProc(proc'[s])
    BY <2>1, SameIs DEF SlotsInv
  <2>4. ~Isolated(s)'
    BY <1>10, <1>13 DEF StartInline
  <2>5. Started(s)
    BY <1>5, <1>6, <1>7, <1>9, <2>1, <2>2, <2>3, <2>4 DEF Started, InGroup, Begun
  <2>6. QED
    BY <1>1, <1>3, <2>5, StartedKeeps
<1>14. QED
  BY <1>11, <1>12, <1>13

\* Each step that says nothing about the slots.
LEMMA SameKeeps ==
  ASSUME SlotsInv,
         UNCHANGED <<plan, inv, log, ctl, proc, rpc, ri, next, active, nactive, process>>
  PROVE  SlotsInv'
<1>1. run' = run /\ InFlight' = InFlight /\ Starting' = Starting /\ Here' = Here /\ TakeSlot' = TakeSlot
  BY DEF run, InFlight, Starting, Here, TakeSlot
<1>2. \A r \in Slots : (Isolated(r) <=> Isolated(r)') /\ (Running(r) <=> Running(r)')
                       /\ (InGroup(r) <=> InGroup(r)')
  BY <1>1 DEF Isolated, TestOf, Running, InGroup
<1>3. Shape'
  BY <1>1 DEF SlotsInv, Shape
<1>4. Placed'
  BY <1>1 DEF SlotsInv, Placed
<1>5. Numbered'
  BY <1>1 DEF SlotsInv, Numbered
<1>6. Emptied' /\ Survivors'
  BY <1>1 DEF SlotsInv, Emptied, Survivors
<1>7. Housed'
  BY <1>2 DEF SlotsInv, Housed
<1>8. QED
  BY <1>3, <1>4, <1>5, <1>6, <1>7 DEF SlotsInv

\* The invariant holds when the runner starts.
LEMMA SlotsInit ==
  ASSUME Init
  PROVE  SlotsInv
<1>1. /\ plan \in DOMAIN Plans /\ inv = [s \in Slots |-> 0]
      /\ log = [s \in Slots |-> EmptyLog] /\ ctl = [s \in Slots |-> Ctl("none")]
      /\ proc = [s \in Slots |-> NoProc] /\ process = [s \in Slots |-> FALSE]
      /\ rpc = "suite" /\ ri = 1 /\ next = 1 /\ nactive = 0
      /\ active = [i \in 1 .. run.jobs |-> i]
  BY DEF Init
<1>2. run.jobs \in Nat \ {0} /\ 1 .. run.jobs \subseteq Slots
  BY <1>1, RunIs DEF run
<1>3. rpc \notin Ended /\ rpc \notin Begun /\ rpc \notin Busy /\ rpc # "signalled"
  BY <1>1 DEF Ended, Begun, Busy
<1>4. InFlight = {} /\ Starting = {}
  BY <1>1 DEF InFlight, Starting
<1>5. IsCtl(Ctl("none")) /\ Ctl("none").pc = "none" /\ IsProc(NoProc) /\ NoProc.st = "none"
  BY DEF Ctl, IsCtl, ExecOutcomes, IsProc, NoProc
<1>6. Shape
  BY <1>1, <1>2, <1>5 DEF Shape
<1>7. Placed
  BY <1>1, <1>2, <1>3, <1>4 DEF Placed
<1>8. Numbered
  BY <1>1 DEF Numbered
<1>9. Emptied
  BY <1>1, <1>5 DEF Emptied
<1>10. Housed
  <2>1. \A s \in Slots : ~Running(s)
    BY <1>1, <1>3 DEF Running
  <2>2. QED
    BY <1>1, <1>5, <2>1 DEF Housed, InGroup
<1>11. Survivors
  BY <1>3 DEF Survivors
<1>12. QED
  BY <1>6, <1>7, <1>8, <1>9, <1>10, <1>11 DEF SlotsInv

\* Every step of the program keeps it.
LEMMA SlotsNext ==
  ASSUME SlotsInv, [Next]_vars
  PROVE  SlotsInv'
<1>1. CASE RunnerStep
  BY <1>1, SkipByAttrKeeps, CollectingKeeps, StartsKeep, RecordKeeps, EndSuiteKeeps, EndRunKeeps,
     CollectKeeps, LooksKeep, KillGroupKeeps, KillChildKeeps DEF RunnerStep
<1>2. CASE ExitInline \/ Signalled
  BY <1>2, EndRunKeeps, SignalledKeeps
<1>3. CASE UNCHANGED vars
  BY <1>3, SameKeeps DEF vars, testVars, runVars
<1>4. ASSUME NEW s \in Slots, TestRuns(s) \/ DeadlinePasses(s) \/ DescendantEnds(s)
      PROVE  SlotsInv'
  <2>1. CASE DeadlinePasses(s)
    BY <2>1, SameKeeps DEF DeadlinePasses, testVars
  <2>2. QED
    BY <1>4, <2>1, TestRunsKeeps, DescendantEndsKeeps
<1>5. QED
  BY <1>1, <1>2, <1>3, <1>4 DEF Next, Over

\* It is what is claimed of the slots, and more.
LEMMA SlotsImplied ==
  ASSUME SlotsInv
  PROVE  SlotsFree
<1>1. SlotsExact
  BY DEF SlotsInv, Placed, Numbered, Emptied, SlotsExact
<1>2. Contained
  BY DEF SlotsInv, Emptied, Survivors, Contained
<1>3. QED
  BY <1>1, <1>2 DEF SlotsFree

\* In every state that the runner and the processes of its tests reach, whatever the
\* interleaving, the deadlines and the signals: the slots in flight are exactly those
\* with a test in them, no invocation has two slots, a free slot holds no log and no
\* process of the test that had it before (triaxi_collect_active_at), and a signal to
\* the runner leaves no test behind but those it could not know of.
THEOREM TriaxSlotsFree == Spec => []SlotsFree
<1>1. Init => SlotsInv
  BY SlotsInit
<1>2. SlotsInv /\ [Next]_vars => SlotsInv'
  BY SlotsNext
<1>3. SlotsInv => SlotsFree
  BY SlotsImplied
<1>4. QED
  BY <1>1, <1>2, <1>3, PTL DEF Spec

-----------------------------------------------------------------------------
(* The verdicts *)

SoFar(l) == IF l.failed THEN "FAIL" ELSE "PASSED"

\* The table of triaxi_test_interpret, row by row.
LEMMA InterpretIs ==
  ASSUME NEW st, NEW x, NEW l
  PROVE  /\ st \in {"SETUP", "INIT", "FINI", "CLEANUP"} =>
              Interpret(st, x, l) = IF x.type = "TIMEOUT" THEN "TIMEOUT" ELSE "ERROR"
         /\ st = "DONE" => Interpret(st, x, l) = SoFar(l)
         /\ st = "SKIPPED" => Interpret(st, x, l) = "SKIP"
         /\ st = "TEST" =>
              /\ x.type = "TIMEOUT" => Interpret(st, x, l) = "TIMEOUT"
              /\ x.type = "ERROR" => Interpret(st, x, l) = "ERROR"
              /\ x.type = "FAULT" => Interpret(st, x, l) = "UCRASH"
              /\ x.type = "EXIT" => Interpret(st, x, l) = "UEXIT"
              /\ x.type = "EXCEPTION" => Interpret(st, x, l) = "UEXCEPT"
BY DEF Interpret, AtHdr, AtRes, SoFar

\* The rows of an assertion that is not complete.
LEMMA InterpretAssertIs ==
  ASSUME NEW st, st = "IN_ASSERT", NEW x, NEW l
  PROVE  /\ l.last = NoHdr /\ x.type # "ERROR" => Interpret(st, x, l) = "fatal"
         /\ x.type = "ERROR" => Interpret(st, x, l) = "ERROR"
         /\ l.last # NoHdr =>
              /\ x.type = "TIMEOUT" => Interpret(st, x, l) = "TIMEOUT"
              /\ x.type = "EXIT" =>
                   Interpret(st, x, l) = IF l.last.type = "exit"
                                         THEN Expected(l.last, x.code, SoFar(l)) ELSE "UEXIT"
              /\ x.type = "FAULT" =>
                   Interpret(st, x, l) = IF l.last.type = "fault"
                                         THEN Expected(l.last, x.code, SoFar(l)) ELSE "UCRASH"
BY DEF Interpret, AtHdr, AtRes, SoFar

\* What a test deserves, by how its code ended.
LEMMA DeservedIs ==
  ASSUME NEW d
  PROVE  /\ d.how = "misuse" => Deserved(d) = "ERROR"
         /\ d.how \in {"crash", "exit", "expected"} /\ d.where \in {"init", "fini"} => Deserved(d) = "ERROR"
         /\ d.how = "crash" /\ d.where \notin {"init", "fini"} => Deserved(d) = "UCRASH"
         /\ d.how = "exit" /\ d.where \notin {"init", "fini"} => Deserved(d) = "UEXIT"
         /\ d.how = "throw" => Deserved(d) = "UEXCEPT"
         /\ d.how = "skip" => Deserved(d) = "SKIP"
         /\ d.how = "expected" /\ d.where \notin {"init", "fini"} /\ ~d.met => Deserved(d) = "FAIL"
         /\ d.how = "expected" /\ d.where \notin {"init", "fini"} /\ d.met =>
              Deserved(d) = IF d.bad THEN "FAIL" ELSE "PASSED"
         /\ d.how = "return" => Deserved(d) = IF d.bad THEN "FAIL" ELSE "PASSED"
BY DEF Deserved

\* The reason a test ended.
LEMMA ExitIs ==
  ASSUME NEW t, NEW c
  PROVE  /\ Exit(t, c).type = t /\ Exit(t, c).code = c
         /\ NoExit.type = "NONE" /\ NoExit = Exit("NONE", "0")
BY DEF Exit, NoExit

\* A header is open.
LEMMA HdrIs ==
  ASSUME NEW k \in Asserts
  PROVE  /\ Hdr(k).type = k.type /\ Hdr(k).neg = k.neg /\ Hdr(k).cr = k.cr /\ Hdr(k) # NoHdr
         /\ k.type \in {"plain", "fault", "exit"} /\ k.neg \in BOOLEAN /\ k.type # NoAssert.type
<1>1. k.type \in {"plain", "fault", "exit"} /\ k.neg \in BOOLEAN
  BY AssertsAssumption
<1>2. Hdr(k).type = k.type /\ Hdr(k).neg = k.neg /\ Hdr(k).cr = k.cr
  BY DEF Hdr
<1>3. NoHdr.type = "none" /\ NoAssert.type = "none"
  BY DEF NoHdr, NoAssert
<1>4. QED
  BY <1>1, <1>2, <1>3

-----------------------------------------------------------------------------
(* What is in a slot while its test goes on. *)

IsLog(l) == l = [failed |-> l.failed, last |-> l.last]
IsDid(d) == d = [how |-> d.how, where |-> d.where, met |-> d.met, bad |-> d.bad,
                 killed |-> d.killed]

Before == {"setpgid", "enter", "init", "initfn"}
Pcs == Before \cup {"body", "hdr", "pred", "res", "break", "abort", "fini", "finfn", "finish", "commit",
                     "end"}

\* The verdict on a test that has ended with ex is the one it deserves.
Right(s, ex) == Interpret(state[s], ex, log[s]) = Deserved(did[s])

HowOf(res) == CASE res = "SKIPPED" -> "skip" [] res = "EXCEPTION" -> "throw" [] OTHER -> "return"

StateOf(res) ==
  CASE res = "SKIPPED" -> "SKIPPED" [] res = "EXCEPTION" -> "TEST" [] OTHER -> "DONE"

\* The code of the test has come to no end yet, or it has left the test by a way the
\* framework knows of; the exit is written last.
Open(s) == did[s].how = "running" /\ exit[s] = NoExit

Left(s) ==
  /\ exit[s] = NoExit /\ ctl[s].now = NoAssert
  /\ ctl[s].res \in {"RETURNED", "ASSERTED", "SKIPPED", "EXCEPTION"}
  /\ did[s].how = HowOf(ctl[s].res)

Thrown(s) == state[s] = "IN_ASSERT" /\ log[s].last # NoHdr

\* What the shared memory says wherever a test is, if nothing has ended it.
Story(s) ==
  LET pc == ctl[s].pc IN
  /\ pc \in Pcs
  /\ log[s].failed = did[s].bad
  /\ pc \in Before => Open(s) /\ ctl[s].now = NoAssert /\ state[s] \in {"SETUP", "INIT"}
  /\ pc \in {"body", "hdr", "break"} => Open(s) /\ state[s] = "TEST"
  /\ pc \in {"pred", "res"} => Open(s) /\ state[s] = "IN_ASSERT"
  /\ pc = "body" => ctl[s].now = NoAssert
  /\ pc \in {"hdr", "pred"} => ctl[s].now \in Asserts /\ log[s].last = Hdr(ctl[s].now)
  /\ pc = "fini" => Left(s) /\ (state[s] \in {"TEST", "FINI"} \/ Thrown(s))
  /\ pc = "finfn" => Left(s) /\ state[s] = "FINI"
  /\ pc = "abort" =>
       exit[s] = Exit("ERROR", "0") /\ Right(s, exit[s]) /\ state[s] \in {"SETUP", "INIT", "FINI"}
  /\ pc = "finish" =>
       \/ Left(s) /\ state[s] = "CLEANUP"
       \/ ctl[s].res = "ERROR" /\ exit[s] = Exit("ERROR", "0") /\ Right(s, exit[s])
       \/ ctl[s].res = "CRASHED" /\ ~Isolated(s) /\ Right(s, Exit("FAULT", ctl[s].fault))
  /\ pc = "commit" => Left(s) /\ state[s] = StateOf(ctl[s].res)
  /\ pc = "end" => exit[s].type # "NONE" /\ Right(s, exit[s])

\* A process that ended by itself.
SigKill == Exit("FAULT", "kill")
Closed(s) == proc[s].status # SigKill /\ Right(s, Fix(s, proc[s].status))

Memory == DOMAIN state = Slots /\ DOMAIN exit = Slots /\ DOMAIN did = Slots

Alive(s) ==
  IsLog(log[s]) /\ IsDid(did[s]) /\ ~did[s].killed /\ proc[s].st # "zombie" /\ Story(s)

\* What a step of a test leaves behind.
StoryEffect(s) ==
  /\ OnlyAt(state, state', s) /\ OnlyAt(exit, exit', s) /\ OnlyAt(did, did', s)
  /\ IsLog(log'[s]) /\ IsDid(did'[s]) /\ ~did'[s].killed
  /\ proc'[s].st # "zombie" => Story(s)'
  /\ proc'[s].st = "zombie" => Closed(s)'

-----------------------------------------------------------------------------
\* What the code of a test did is noted.
LEMMA DidIs ==
  ASSUME Memory, NEW s \in Slots, NEW how, NEW where, NEW met, IsDid(did[s]), Did(s, how, where, met)
  PROVE  /\ OnlyAt(did, did', s) /\ IsDid(did'[s])
         /\ did'[s].how = how /\ did'[s].where = where /\ did'[s].met = met
         /\ did'[s].bad = did[s].bad /\ did'[s].killed = did[s].killed
<1> DEFINE d  == did[s]
           d1 == [d EXCEPT !.how = how]
           d2 == [d1 EXCEPT !.where = where]
           d3 == [d2 EXCEPT !.met = met]
<1>1. DOMAIN did = Slots /\ d = [how |-> d.how, where |-> d.where, met |-> d.met, bad |-> d.bad, killed |-> d.killed]
  BY DEF Memory, IsDid
<1>2. OnlyAt(did, did', s) /\ did'[s] = d3
  BY <1>1 DEF OnlyAt, Did
<1> HIDE DEF d
<1>3. d1 = [how |-> how, where |-> d.where, met |-> d.met, bad |-> d.bad, killed |-> d.killed]
  BY <1>1
<1> HIDE DEF d1
<1>4. d2 = [how |-> how, where |-> where, met |-> d.met, bad |-> d.bad, killed |-> d.killed]
  BY <1>3
<1> HIDE DEF d2
<1>5. d3 = [how |-> how, where |-> where, met |-> met, bad |-> d.bad, killed |-> d.killed]
  BY <1>4
<1> HIDE DEF d3
<1>6. QED
  BY <1>2, <1>5 DEF IsDid, d

\* A test keeps its isolation.
LEMMA IsolatedIs ==
  ASSUME UNCHANGED <<plan, inv>>, NEW s \in Slots
  PROVE  Isolated(s)' <=> Isolated(s)
BY DEF Isolated, TestOf, run

\* Death by a signal, which was what the test deserved.
LEMMA DieTells ==
  ASSUME Shape, NEW s \in Slots, Alive(s), NEW sig, sig # "kill", Die(s, sig),
         UNCHANGED <<plan, inv, state, log>>,
         OnlyAt(state, state', s), OnlyAt(exit, exit', s), OnlyAt(did, did', s),
         IsDid(did'[s]), ~did'[s].killed, did'[s].bad = did[s].bad,
         Interpret(state[s], Exit("FAULT", sig), log[s]) = Deserved(did'[s]),
         exit'[s].type # "NONE" => Interpret(state[s], exit'[s], log[s]) = Deserved(did'[s])
  PROVE  StoryEffect(s)
<1>1. IsLog(log'[s]) /\ log'[s].failed = did'[s].bad
  BY DEF Alive, Story
<1>2. CASE Isolated(s) /\ proc'[s].st = "zombie" /\ proc'[s].status = Exit("FAULT", sig)
  <2>1. Exit("FAULT", sig) # SigKill
    <3>1. Exit("FAULT", sig).code = sig /\ SigKill.code = "kill"
      BY DEF Exit, SigKill
    <3>2. QED
      BY <3>1
  <2>2. Closed(s)'
    BY <1>2, <2>1 DEF Closed, Right, Fix
  <2>3. QED
    BY <1>1, <1>2, <2>2 DEF StoryEffect
<1>3. CASE /\ ~Isolated(s) /\ proc' = proc /\ ctl'[s].pc = "finish" /\ ctl'[s].res = "CRASHED"
           /\ ctl'[s].fault = sig
  <2>1. ~Isolated(s)'
    BY <1>3, IsolatedIs
  <2>2. Right(s, Exit("FAULT", ctl[s].fault))'
    BY <1>3 DEF Right
  <2>3. Story(s)'
    BY <1>1, <1>3, <2>1, <2>2 DEF Story, Pcs, Before
  <2>4. QED
    BY <1>1, <1>3, <2>3 DEF StoryEffect, Alive
<1>4. QED
  BY <1>2, <1>3, DieIs

\* A step that leaves the process, and what was done, alone.
LEMMA GoesOn ==
  ASSUME Memory, NEW s \in Slots, Alive(s), UNCHANGED <<proc, did>>,
         OnlyAt(state, state', s), OnlyAt(exit, exit', s), IsLog(log'[s]), Story(s)'
  PROVE  StoryEffect(s)
BY DEF StoryEffect, Alive, OnlyAt, Memory

\* setpgid(0, 0) in the child.
LEMMA SetGroupTells ==
  ASSUME Shape, Memory, NEW s \in Slots, Alive(s), SetGroup(s)
  PROVE  StoryEffect(s)
<1>1. ctl'[s].pc = "enter" /\ ctl'[s].now = ctl[s].now /\ ctl[s].pc = "setpgid"
  BY GotoIs DEF SetGroup, At
<1>2. proc'[s].st = proc[s].st
  BY GroupIs DEF SetGroup
<1>3. UNCHANGED <<state, exit, log, did>>
  BY DEF SetGroup
<1>4. Story(s)'
  BY <1>1, <1>3 DEF Alive, Story, Pcs, Before, Open
<1>5. QED
  BY <1>2, <1>3, <1>4 DEF StoryEffect, Alive, OnlyAt, Memory

\* triaxi_run_func on entry.
LEMMA EnterTells ==
  ASSUME Shape, Memory, NEW s \in Slots, Alive(s), Enter(s)
  PROVE  StoryEffect(s)
<1>1. ctl'[s].pc = "init" /\ ctl'[s].now = ctl[s].now /\ ctl[s].pc = "enter"
  BY GotoIs DEF Enter, At
<1>2. UNCHANGED <<state, log, did, proc>>
  BY DEF Enter
<1>3. OnlyAt(exit, exit', s) /\ exit'[s] = NoExit
  <2> DEFINE x == NoExit
  <2>1. exit' = [exit EXCEPT ![s] = x]
    BY DEF Enter
  <2> HIDE DEF x
  <2>2. QED
    BY <2>1, ReplacedIs DEF Memory, x
<1>4. Story(s)'
  BY <1>1, <1>2, <1>3 DEF Alive, Story, Pcs, Before, Open
<1>5. QED
  BY <1>2, <1>3, <1>4, GoesOn DEF OnlyAt, Memory, Alive

\* The fixtures before a test.
LEMMA NextInitTells ==
  ASSUME Shape, Memory, NEW s \in Slots, Alive(s), NextInit(s)
  PROVE  StoryEffect(s)
<1>1. ctl[s].pc = "init" /\ UNCHANGED <<exit, log, did, proc>>
  BY DEF NextInit, At
<1> DEFINE left == {f \in TestOf(s).inits : f > ctl[s].fi}
           m == Min(left)
<1>2. \/ state' = [state EXCEPT ![s] = "INIT"] /\ ctl' = [ctl EXCEPT ![s].pc = "initfn", ![s].fi = m]
      \/ state' = [state EXCEPT ![s] = "TEST"] /\ Goto(s, "body")
  BY DEF NextInit
<1> HIDE DEF m
<1>3. CASE state' = [state EXCEPT ![s] = "INIT"] /\ ctl' = [ctl EXCEPT ![s].pc = "initfn", ![s].fi = m]
  <2>1. OnlyAt(state, state', s) /\ state'[s] = "INIT"
    BY <1>3, ReplacedIs DEF Memory
  <2>2. ctl'[s].pc = "initfn" /\ ctl'[s].now = ctl[s].now
    BY <1>3, CtlFiIs
  <2>3. Story(s)'
    BY <1>1, <2>1, <2>2 DEF Alive, Story, Pcs, Before, Open
  <2>4. QED
    BY <1>1, <2>1, <2>3, GoesOn DEF OnlyAt, Memory, Alive
<1>4. CASE state' = [state EXCEPT ![s] = "TEST"] /\ Goto(s, "body")
  <2>1. OnlyAt(state, state', s) /\ state'[s] = "TEST"
    BY <1>4, ReplacedIs DEF Memory
  <2>2. ctl'[s].pc = "body" /\ ctl'[s].now = ctl[s].now
    BY <1>4, GotoIs
  <2>3. Story(s)'
    BY <1>1, <2>1, <2>2 DEF Alive, Story, Pcs, Before, Open
  <2>4. QED
    BY <1>1, <2>1, <2>3, GoesOn DEF OnlyAt, Memory, Alive
<1>5. QED
  BY <1>2, <1>3, <1>4

\* The fixtures after it.
LEMMA NextFiniTells ==
  ASSUME Shape, Memory, NEW s \in Slots, Alive(s), NextFini(s)
  PROVE  StoryEffect(s)
<1>1. ctl[s].pc = "fini" /\ UNCHANGED <<exit, log, did, proc>>
  BY DEF NextFini, At
<1> DEFINE left == {f \in TestOf(s).finis : f < ctl[s].fi}
           m == Max(left)
<1>2. \/ state' = [state EXCEPT ![s] = "FINI"] /\ ctl' = [ctl EXCEPT ![s].pc = "finfn", ![s].fi = m]
      \/ state' = [state EXCEPT ![s] = "CLEANUP"] /\ Goto(s, "finish")
  BY DEF NextFini
<1> HIDE DEF m
<1>3. CASE state' = [state EXCEPT ![s] = "FINI"] /\ ctl' = [ctl EXCEPT ![s].pc = "finfn", ![s].fi = m]
  <2>1. OnlyAt(state, state', s) /\ state'[s] = "FINI"
    BY <1>3, ReplacedIs DEF Memory
  <2>2. ctl'[s].pc = "finfn" /\ ctl'[s].now = ctl[s].now /\ ctl'[s].res = ctl[s].res
    BY <1>3, CtlFiIs DEF SameUse
  <2>3. Left(s)'
    BY <1>1, <2>2 DEF Alive, Story, Left
  <2>4. Story(s)'
    BY <1>1, <2>1, <2>2, <2>3 DEF Alive, Story, Pcs, Before
  <2>5. QED
    BY <1>1, <2>1, <2>4, GoesOn DEF OnlyAt, Memory, Alive
<1>4. CASE state' = [state EXCEPT ![s] = "CLEANUP"] /\ Goto(s, "finish")
  <2>1. OnlyAt(state, state', s) /\ state'[s] = "CLEANUP"
    BY <1>4, ReplacedIs DEF Memory
  <2>2. ctl'[s].pc = "finish" /\ ctl'[s].now = ctl[s].now /\ ctl'[s].res = ctl[s].res
    BY <1>4, GotoIs DEF SameUse
  <2>3. Left(s)'
    BY <1>1, <2>2 DEF Alive, Story, Left
  <2>4. Story(s)'
    BY <1>1, <2>1, <2>2, <2>3 DEF Alive, Story, Pcs, Before
  <2>5. QED
    BY <1>1, <2>1, <2>4, GoesOn DEF OnlyAt, Memory, Alive
<1>5. QED
  BY <1>2, <1>3, <1>4

\* The first of the two last stores.
LEMMA FinishTells ==
  ASSUME Shape, Memory, NEW s \in Slots, Alive(s), Finish(s)
  PROVE  StoryEffect(s)
<1>1. ctl[s].pc = "finish" /\ UNCHANGED <<log, did, proc>>
  BY DEF Finish, At
<1> DEFINE res == ctl[s].res
<1>2. CASE Left(s)
  <2>1. state' = [state EXCEPT ![s] = StateOf(res)] /\ Goto(s, "commit") /\ exit' = exit
    <3>1. res \in {"RETURNED", "ASSERTED", "SKIPPED", "EXCEPTION"}
      BY <1>2 DEF Left
    <3>2. QED
      BY <3>1 DEF Finish, StateOf
  <2>2. OnlyAt(state, state', s) /\ state'[s] = StateOf(res)
    <3> DEFINE v == StateOf(res)
    <3>1. state' = [state EXCEPT ![s] = v]
      BY <2>1
    <3> HIDE DEF v
    <3>2. QED
      BY <3>1, ReplacedIs DEF Memory, v
  <2>3. ctl'[s].pc = "commit" /\ ctl'[s].now = ctl[s].now /\ ctl'[s].res = res
    BY <2>1, GotoIs DEF SameUse
  <2>4. Left(s)'
    BY <1>1, <1>2, <2>1, <2>3 DEF Left
  <2>5. Story(s)'
    BY <1>1, <2>2, <2>3, <2>4 DEF Alive, Story, Pcs, Before
  <2>6. QED
    BY <1>1, <2>1, <2>2, <2>5, GoesOn DEF OnlyAt, Memory, Alive
<1>3. CASE res = "ERROR" /\ exit[s] = Exit("ERROR", "0") /\ Right(s, exit[s])
  <2>1. UNCHANGED <<state, exit>> /\ Goto(s, "end")
    BY <1>3 DEF Finish
  <2>2. ctl'[s].pc = "end"
    BY <2>1, GotoIs
  <2>3. Right(s, exit[s])' /\ exit'[s].type # "NONE"
    BY <1>1, <1>3, <2>1, ExitIs DEF Right
  <2>4. Story(s)'
    BY <1>1, <2>1, <2>2, <2>3 DEF Alive, Story, Pcs, Before
  <2>5. QED
    BY <1>1, <2>1, <2>4, GoesOn DEF OnlyAt, Memory, Alive
<1>4. CASE res = "CRASHED" /\ Right(s, Exit("FAULT", ctl[s].fault))
  <2> DEFINE x == Exit("FAULT", ctl[s].fault)
  <2>1. exit' = [exit EXCEPT ![s] = x] /\ Goto(s, "end") /\ state' = state
    BY <1>4 DEF Finish
  <2>2. x.type # "NONE" /\ Right(s, x)
    BY <1>4, ExitIs
  <2> HIDE DEF x
  <2>3. OnlyAt(exit, exit', s) /\ exit'[s] = x
    BY <2>1, ReplacedIs DEF Memory
  <2>4. ctl'[s].pc = "end"
    BY <2>1, GotoIs
  <2>5. Right(s, exit[s])' /\ exit'[s].type # "NONE"
    BY <1>1, <2>1, <2>2, <2>3 DEF Right
  <2>6. Story(s)'
    BY <1>1, <2>4, <2>5 DEF Alive, Story, Pcs, Before
  <2>7. QED
    BY <1>1, <2>1, <2>3, <2>6, GoesOn DEF OnlyAt, Memory, Alive
<1>5. QED
  BY <1>1, <1>2, <1>3, <1>4 DEF Alive, Story

\* The second of them.
LEMMA CommitTells ==
  ASSUME Shape, Memory, NEW s \in Slots, Alive(s), Commit(s)
  PROVE  StoryEffect(s)
<1> DEFINE res == ctl[s].res
           x == Exit(IF res = "EXCEPTION" THEN "EXCEPTION" ELSE "EXIT", "0")
<1>1. /\ ctl[s].pc = "commit" /\ UNCHANGED <<state, log, did, proc>>
      /\ exit' = [exit EXCEPT ![s] = x] /\ Goto(s, "end")
  BY DEF Commit, At
<1>2. /\ res \in {"RETURNED", "ASSERTED", "SKIPPED", "EXCEPTION"}
      /\ did[s].how = HowOf(res) /\ state[s] = StateOf(res) /\ log[s].failed = did[s].bad
  BY <1>1 DEF Alive, Story, Left
<1>3. x.type = IF res = "EXCEPTION" THEN "EXCEPTION" ELSE "EXIT"
  BY ExitIs
<1> HIDE DEF x
<1>4. Right(s, x)
  <2>1. CASE res = "SKIPPED"
    BY <1>2, <2>1, InterpretIs, DeservedIs DEF Right, StateOf, HowOf
  <2>2. CASE res = "EXCEPTION"
    BY <1>2, <1>3, <2>2, InterpretIs, DeservedIs DEF Right, StateOf, HowOf
  <2>3. CASE res \in {"RETURNED", "ASSERTED"}
    <3>1. Interpret(state[s], x, log[s]) = SoFar(log[s])
      BY <1>2, <2>3, InterpretIs DEF StateOf
    <3>2. did[s].how = "return"
      BY <1>2, <2>3 DEF HowOf
    <3>3. Deserved(did[s]) = IF did[s].bad THEN "FAIL" ELSE "PASSED"
      BY <3>2, DeservedIs
    <3>4. QED
      BY <1>2, <3>1, <3>3 DEF Right, SoFar
  <2>4. QED
    BY <1>2, <2>1, <2>2, <2>3
<1>5. OnlyAt(exit, exit', s) /\ exit'[s] = x
  BY <1>1, ReplacedIs DEF Memory
<1>6. ctl'[s].pc = "end"
  BY <1>1, GotoIs
<1>7. Right(s, exit[s])' /\ exit'[s].type # "NONE"
  BY <1>1, <1>3, <1>4, <1>5 DEF Right
<1>8. Story(s)'
  BY <1>1, <1>6, <1>7 DEF Alive, Story, Pcs, Before
<1>9. QED
  BY <1>1, <1>5, <1>8, GoesOn DEF OnlyAt, Memory, Alive

\* _exit(0) once the result is written.
LEMMA LeaveTells ==
  ASSUME Shape, Memory, NEW s \in Slots, Alive(s), Leave(s)
  PROVE  StoryEffect(s)
<1>1. ctl[s].pc = "end" /\ UNCHANGED <<state, exit, log, did>>
  BY DEF Leave, At
<1>2. proc'[s].st = "zombie" /\ proc'[s].status = Exit("EXIT", "0")
  BY ExitedIs DEF Leave
<1>3. Exit("EXIT", "0") # SigKill
  BY ExitIs DEF SigKill
<1>4. exit[s].type # "NONE" /\ Right(s, exit[s])
  BY <1>1 DEF Alive, Story
<1>5. Closed(s)'
  BY <1>1, <1>2, <1>3, <1>4 DEF Closed, Right, Fix
<1>6. QED
  BY <1>1, <1>2, <1>5 DEF StoryEffect, Alive, OnlyAt, Memory

\* The asserted expression is evaluated.
LEMMA EnterAssertTells ==
  ASSUME Shape, Memory, NEW s \in Slots, Alive(s), EnterAssert(s)
  PROVE  StoryEffect(s)
<1>1. ctl[s].pc = "hdr" /\ UNCHANGED <<exit, log, did, proc>> /\ Goto(s, "pred")
      /\ state' = [state EXCEPT ![s] = "IN_ASSERT"]
  BY DEF EnterAssert, At
<1>2. ctl'[s].pc = "pred" /\ ctl'[s].now = ctl[s].now
  BY <1>1, GotoIs
<1>3. OnlyAt(state, state', s) /\ state'[s] = "IN_ASSERT"
  BY <1>1, ReplacedIs DEF Memory
<1>4. Story(s)'
  BY <1>1, <1>2, <1>3 DEF Alive, Story, Pcs, Before, Open
<1>5. QED
  BY <1>1, <1>3, <1>4, GoesOn DEF OnlyAt, Memory, Alive

\* A fixture returns.
LEMMA FixtureReturnsTells ==
  ASSUME Shape, Memory, NEW s \in Slots, Alive(s), FixtureReturns(s)
  PROVE  StoryEffect(s)
<1>1. UNCHANGED <<state, exit, log, did, proc>>
  BY DEF FixtureReturns
<1>2. \/ ctl[s].pc = "initfn" /\ Goto(s, "init")
      \/ ctl[s].pc = "finfn" /\ Goto(s, "fini")
  BY DEF FixtureReturns, At
<1>3. ctl'[s].now = ctl[s].now /\ ctl'[s].res = ctl[s].res
      /\ \/ ctl[s].pc = "initfn" /\ ctl'[s].pc = "init"
         \/ ctl[s].pc = "finfn" /\ ctl'[s].pc = "fini"
  BY <1>2, GotoIs DEF SameUse
<1>4. Story(s)'
  BY <1>1, <1>3 DEF Alive, Story, Pcs, Before, Open, Left
<1>5. QED
  BY <1>1, <1>4, GoesOn DEF OnlyAt, Memory, Alive

\* The code of the test leaves it in a way the framework knows of.
LEMMA LeftTells ==
  ASSUME Shape, Memory, NEW s \in Slots, Alive(s),
         NEW res \in {"RETURNED", "ASSERTED", "SKIPPED", "EXCEPTION"}, Longjmp(s, res),
         NEW how, how = HowOf(res), Did(s, how, "test", FALSE), Open(s),
         UNCHANGED <<exit, log, proc>>, OnlyAt(state, state', s),
         state'[s] = "TEST" \/ (state'[s] = "IN_ASSERT" /\ log[s].last # NoHdr)
  PROVE  StoryEffect(s)
<1>1. ctl'[s].pc = "fini" /\ ctl'[s].res = res /\ ctl'[s].now = NoAssert
  BY LongjmpIs DEF ExecOutcomes
<1> DEFINE no == FALSE
<1>2. /\ OnlyAt(did, did', s) /\ IsDid(did'[s]) /\ did'[s].how = how
      /\ did'[s].bad = did[s].bad /\ did'[s].killed = did[s].killed
  <2>1. Did(s, how, "test", no)
    OBVIOUS
  <2> HIDE DEF no
  <2>2. QED
    BY <2>1, DidIs DEF Alive
<1>3. Left(s)'
  BY <1>1, <1>2 DEF Left, Open
<1>4. Story(s)'
  BY <1>1, <1>2, <1>3 DEF Alive, Story, Pcs, Before, Thrown
<1>5. QED
  BY <1>2, <1>4 DEF StoryEffect, Alive, OnlyAt, Memory

\* What the code of a test does when it is not in an assertion.
LEMMA OpenIs ==
  ASSUME NEW s \in Slots, Story(s), ctl[s].pc \in {"body", "hdr", "pred", "res", "break"}
  PROVE  Open(s) /\ state[s] \in {"TEST", "IN_ASSERT"}
BY DEF Story, Before

\* A failed assertion leaves the test, an expectation does not.
LEMMA AfterResTells ==
  ASSUME Shape, Memory, NEW s \in Slots, Alive(s), AfterRes(s)
  PROVE  StoryEffect(s)
<1>1. ctl[s].pc = "res" /\ UNCHANGED <<exit, log, proc>> /\ state' = [state EXCEPT ![s] = "TEST"]
  BY DEF AfterRes, At
<1>2. \/ Goto(s, "break") /\ did' = did
      \/ Longjmp(s, "ASSERTED") /\ Did(s, "return", "test", FALSE)
      \/ ctl' = [ctl EXCEPT ![s].pc = "body", ![s].now = NoAssert] /\ did' = did
  BY DEF AfterRes
<1>3. OnlyAt(state, state', s) /\ state'[s] = "TEST"
  BY <1>1, ReplacedIs DEF Memory
<1>4. Open(s)
  BY <1>1, OpenIs DEF Alive
<1>5. CASE Longjmp(s, "ASSERTED") /\ Did(s, "return", "test", FALSE)
  <2>1. "return" = HowOf("ASSERTED")
    BY DEF HowOf
  <2>2. QED
    BY <1>1, <1>3, <1>4, <1>5, <2>1, LeftTells
<1>6. CASE did' = did /\ (\/ Goto(s, "break")
                          \/ ctl' = [ctl EXCEPT ![s].pc = "body", ![s].now = NoAssert])
  <2> DEFINE x == NoAssert
  <2>1. Goto(s, "break") \/ ctl' = [ctl EXCEPT ![s].pc = "body", ![s].now = x]
    BY <1>6
  <2> HIDE DEF x
  <2>2. ctl'[s].pc = "break" \/ (ctl'[s].pc = "body" /\ ctl'[s].now = x)
    BY <2>1, GotoIs, CtlNowIs
  <2>3. Open(s)'
    BY <1>1, <1>4, <1>6 DEF Open
  <2>4. Story(s)'
    BY <1>1, <1>3, <1>6, <2>2, <2>3 DEF Alive, Story, Pcs, Before, x
  <2>5. QED
    BY <1>1, <1>3, <1>6, <2>4, GoesOn DEF OnlyAt, Memory, Alive
<1>7. QED
  BY <1>2, <1>5, <1>6

\* The code of a test returns, ...
LEMMA BodyReturnsTells ==
  ASSUME Shape, Memory, NEW s \in Slots, Alive(s), BodyReturns(s)
  PROVE  StoryEffect(s)
<1>1. /\ ctl[s].pc = "body" /\ UNCHANGED <<state, exit, log, proc>>
      /\ Longjmp(s, "RETURNED") /\ Did(s, "return", "test", FALSE)
  BY DEF BodyReturns, At
<1>2. Open(s) /\ state'[s] = "TEST" /\ "return" = HowOf("RETURNED") /\ OnlyAt(state, state', s)
  BY <1>1 DEF Alive, Story, HowOf, OnlyAt, Memory
<1>3. QED
  BY <1>1, <1>2, LeftTells

\* ... is skipped, ...
LEMMA SkipTells ==
  ASSUME Shape, Memory, NEW s \in Slots, Alive(s), Skip(s)
  PROVE  StoryEffect(s)
<1>1. /\ ctl[s].pc = "body" /\ UNCHANGED <<exit, log, proc>> /\ state' = [state EXCEPT ![s] = "TEST"]
      /\ Longjmp(s, "SKIPPED") /\ Did(s, "skip", "test", FALSE)
  BY DEF Skip, At
<1>2. OnlyAt(state, state', s) /\ state'[s] = "TEST"
  BY <1>1, ReplacedIs DEF Memory
<1>3. Open(s) /\ "skip" = HowOf("SKIPPED")
  BY <1>1 DEF Alive, Story, HowOf
<1>4. QED
  BY <1>1, <1>2, <1>3, LeftTells

\* ... or throws.
LEMMA ThrowTells ==
  ASSUME Shape, Memory, NEW s \in Slots, Alive(s), Throw(s)
  PROVE  StoryEffect(s)
<1>1. /\ ctl[s].pc \in {"body", "pred"} /\ UNCHANGED <<state, exit, log, proc>>
      /\ Longjmp(s, "EXCEPTION") /\ Did(s, "throw", "test", FALSE)
  BY DEF Throw, At
<1>2. Open(s) /\ "throw" = HowOf("EXCEPTION") /\ OnlyAt(state, state', s)
  BY <1>1, OpenIs DEF Alive, HowOf, OnlyAt, Memory
<1>3. state'[s] = "TEST" \/ (state'[s] = "IN_ASSERT" /\ log[s].last # NoHdr)
  <2>1. CASE ctl[s].pc = "body"
    BY <1>1, <2>1 DEF Alive, Story
  <2>2. CASE ctl[s].pc = "pred"
    <3>1. ctl[s].now \in Asserts /\ log[s].last = Hdr(ctl[s].now) /\ state[s] = "IN_ASSERT"
      BY <2>2 DEF Alive, Story
    <3>2. QED
      BY <1>1, <3>1, HdrIs
  <2>3. QED
    BY <1>1, <2>1, <2>2
<1>4. QED
  BY <1>1, <1>2, <1>3, LeftTells

\* It starts a process.
LEMMA SpawnTells ==
  ASSUME Shape, Memory, NEW s \in Slots, Alive(s), Spawn(s)
  PROVE  StoryEffect(s)
<1>1. UNCHANGED <<plan, inv, state, exit, log, ctl, did>> /\ proc' = [proc EXCEPT ![s].desc = TRUE]
  BY DEF Spawn
<1>2. proc'[s].st = proc[s].st
  BY <1>1, DescendantIs
<1>3. Isolated(s)' <=> Isolated(s)
  BY <1>1, IsolatedIs
<1>4. ctl[s].pc = "body"
  BY DEF Spawn, At
<1>5. Story(s)'
  BY <1>1, <1>4 DEF Alive, Story, Open, Before
<1>6. QED
  BY <1>1, <1>2, <1>5 DEF StoryEffect, Alive, OnlyAt, Memory

\* The expression of an assertion holds.
LEMMA PredHoldsTells ==
  ASSUME Shape, Memory, NEW s \in Slots, Alive(s), PredHolds(s)
  PROVE  StoryEffect(s)
<1> DEFINE x == NoAssert
<1>1. /\ ctl[s].pc = "pred" /\ UNCHANGED <<exit, log, did, proc>>
      /\ state' = [state EXCEPT ![s] = "TEST"]
      /\ ctl' = [ctl EXCEPT ![s].pc = "body", ![s].now = x]
  BY DEF PredHolds, At
<1> HIDE DEF x
<1>2. ctl'[s].pc = "body" /\ ctl'[s].now = x
  BY <1>1, CtlNowIs
<1>3. OnlyAt(state, state', s) /\ state'[s] = "TEST"
  BY <1>1, ReplacedIs DEF Memory
<1>4. Story(s)'
  BY <1>1, <1>2, <1>3 DEF Alive, Story, Pcs, Before, Open, x
<1>5. QED
  BY <1>1, <1>3, <1>4, GoesOn DEF OnlyAt, Memory, Alive

\* It does not, which is written to the log.
LEMMA PredFailsTells ==
  ASSUME Shape, Memory, NEW s \in Slots, Alive(s), PredFails(s)
  PROVE  StoryEffect(s)
<1> DEFINE l == WithRes(log[s])
           yes == TRUE
           d == did[s]
           d1 == [d EXCEPT !.bad = yes]
<1>1. /\ ctl[s].pc = "pred" /\ UNCHANGED <<state, exit, proc>> /\ Goto(s, "res")
      /\ log' = [log EXCEPT ![s] = l] /\ did' = [did EXCEPT ![s].bad = yes]
  BY DEF PredFails, At, Shape
<1>2. l.failed = yes /\ IsLog(l)
  BY DEF WithRes, IsLog
<1>3. DOMAIN did = Slots /\ d = [how |-> d.how, where |-> d.where, met |-> d.met, bad |-> d.bad, killed |-> d.killed]
  BY DEF Memory, Alive, IsDid
<1> HIDE DEF l, yes
<1>4. OnlyAt(did, did', s) /\ did'[s] = d1
  BY <1>1, <1>3 DEF OnlyAt
<1>5. log'[s] = l
  BY <1>1 DEF Shape
<1>6. d.how = did[s].how /\ d.killed = did[s].killed
  OBVIOUS
<1> HIDE DEF d
<1>7. d1 = [how |-> d.how, where |-> d.where, met |-> d.met, bad |-> yes, killed |-> d.killed]
  BY <1>3
<1> HIDE DEF d1
<1>8. IsDid(did'[s]) /\ did'[s].how = did[s].how /\ did'[s].killed = did[s].killed /\ did'[s].bad = yes
  BY <1>4, <1>6, <1>7 DEF IsDid
<1>9. ctl'[s].pc = "res"
  BY <1>1, GotoIs
<1>10. Story(s)'
  BY <1>1, <1>2, <1>5, <1>8, <1>9 DEF Alive, Story, Pcs, Before, Open
<1>11. QED
  BY <1>1, <1>2, <1>4, <1>5, <1>8, <1>10 DEF StoryEffect, Alive, OnlyAt, Memory

\* A debugger is asked for, and there is none.
LEMMA BreakTells ==
  ASSUME Shape, Memory, NEW s \in Slots, Alive(s), Break(s)
  PROVE  StoryEffect(s)
<1> DEFINE no == FALSE
<1>1. /\ ctl[s].pc = "break" /\ UNCHANGED <<plan, inv, state, exit, log>> /\ Die(s, "trap")
      /\ Did(s, "crash", "test", no)
  BY DEF Break, At
<1> HIDE DEF no
<1>2. /\ OnlyAt(did, did', s) /\ IsDid(did'[s]) /\ did'[s].how = "crash" /\ did'[s].where = "test"
      /\ did'[s].bad = did[s].bad /\ did'[s].killed = did[s].killed
  BY <1>1, DidIs DEF Alive
<1>3. exit[s] = NoExit /\ state[s] = "TEST"
  BY <1>1 DEF Alive, Story, Open
<1>4. Interpret(state[s], Exit("FAULT", "trap"), log[s]) = Deserved(did'[s])
  <2>1. Interpret(state[s], Exit("FAULT", "trap"), log[s]) = "UCRASH"
    BY <1>3, ExitIs, InterpretIs
  <2>2. Deserved(did'[s]) = "UCRASH"
    BY <1>2, DeservedIs
  <2>3. QED
    BY <2>1, <2>2
<1>5. exit'[s].type = "NONE"
  BY <1>1, <1>3, ExitIs
<1>6. QED
  BY <1>1, <1>2, <1>4, <1>5, DieTells DEF OnlyAt, Memory, Alive

\* The code of a fixture is aborted: its error is noted already.
LEMMA AbortTells ==
  ASSUME Shape, Memory, NEW s \in Slots, Alive(s), Abort(s)
  PROVE  StoryEffect(s)
<1>1. ctl[s].pc = "abort" /\ UNCHANGED <<plan, inv, state, exit, log, did>> /\ Die(s, "abrt")
  BY DEF Abort, At
<1>2. /\ exit[s].type = "ERROR" /\ Right(s, exit[s]) /\ state[s] \in {"SETUP", "INIT", "FINI"}
  BY <1>1, ExitIs DEF Alive, Story
<1>3. Interpret(state[s], exit[s], log[s]) = "ERROR" /\ Deserved(did[s]) = "ERROR"
  BY <1>2, InterpretIs DEF Right
<1>4. Interpret(state[s], Exit("FAULT", "abrt"), log[s]) = "ERROR"
  BY <1>2, ExitIs, InterpretIs
<1>5. OnlyAt(state, state', s) /\ OnlyAt(exit, exit', s) /\ OnlyAt(did, did', s)
  BY <1>1 DEF OnlyAt, Memory
<1>6. QED
  BY <1>1, <1>3, <1>4, <1>5, DieTells DEF Alive

\* triaxi_user_error_f.
LEMMA UserErrorTells ==
  ASSUME Shape, Memory, NEW s \in Slots, Alive(s), UserError(s), UNCHANGED <<plan, inv, state, log>>,
         ctl[s].pc \in {"initfn", "body", "pred", "finfn"}
  PROVE  StoryEffect(s)
<1> DEFINE no == FALSE
           w == Where(s)
           x == Exit("ERROR", "0")
<1>1. Did(s, "misuse", w, no) /\ exit' = [exit EXCEPT ![s] = x]
  BY DEF UserError
<1> HIDE DEF no, w
<1>2. /\ OnlyAt(did, did', s) /\ IsDid(did'[s]) /\ did'[s].how = "misuse"
      /\ did'[s].bad = did[s].bad /\ did'[s].killed = did[s].killed
  BY <1>1, DidIs DEF Alive
<1>3. Deserved(did'[s]) = "ERROR"
  BY <1>2, DeservedIs
<1>4. x.type = "ERROR"
  BY ExitIs
<1>5. OnlyAt(exit, exit', s) /\ exit'[s] = x
  <2> HIDE DEF x
  <2>1. QED
    BY <1>1, ReplacedIs DEF Memory
<1>6. state[s] \in {"SETUP", "INIT", "TEST", "IN_ASSERT", "FINI"}
  BY DEF Alive, Story, Before
<1>7. Interpret(state[s], x, log[s]) = "ERROR"
  BY <1>4, <1>6, InterpretIs, InterpretAssertIs
<1>8. CASE state[s] \in {"TEST", "IN_ASSERT"}
  <2>1. Longjmp(s, "ERROR") /\ proc' = proc
    BY <1>8 DEF UserError
  <2>2. ctl'[s].pc = "finish" /\ ctl'[s].res = "ERROR"
    BY <2>1, LongjmpIs DEF ExecOutcomes
  <2>3. Right(s, exit[s])'
    BY <1>3, <1>5, <1>7 DEF Right
  <2>4. Story(s)'
    BY <1>2, <1>5, <2>2, <2>3 DEF Alive, Story, Pcs, Before
  <2>5. QED
    BY <1>2, <1>5, <2>1, <2>4 DEF StoryEffect, Alive, OnlyAt, Memory
<1>9. CASE state[s] \in {"SETUP", "INIT", "FINI"}
  <2>1. Goto(s, "abort") /\ proc' = proc
    BY <1>9 DEF UserError
  <2>2. ctl'[s].pc = "abort"
    BY <2>1, GotoIs
  <2>3. Right(s, exit[s])'
    BY <1>3, <1>5, <1>7 DEF Right
  <2>4. Story(s)'
    BY <1>2, <1>5, <1>9, <2>2, <2>3 DEF Alive, Story, Pcs, Before
  <2>5. QED
    BY <1>2, <1>5, <2>1, <2>4 DEF StoryEffect, Alive, OnlyAt, Memory
<1>10. QED
  BY <1>6, <1>8, <1>9

\* The code misuses the framework.
LEMMA MisuseTells ==
  ASSUME Shape, Memory, NEW s \in Slots, Alive(s), Misuse(s)
  PROVE  StoryEffect(s)
<1>1. ctl[s].pc \in {"initfn", "body", "pred", "finfn"} /\ UNCHANGED <<plan, inv, state, log>>
      /\ UserError(s)
  BY DEF Misuse, InUser, At
<1>2. QED
  BY <1>1, UserErrorTells

\* It asserts something.
LEMMA BeginAssertTells ==
  ASSUME Shape, Memory, NEW s \in Slots, Alive(s), BeginAssert(s)
  PROVE  StoryEffect(s)
<1>1. ctl[s].pc = "body" /\ UNCHANGED <<plan, inv, state>>
  BY DEF BeginAssert, At
<1>2. PICK k \in Asserts :
        \/ UserError(s) /\ UNCHANGED log
        \/ /\ log' = [log EXCEPT ![s] = WithHdr(@, k)]
           /\ ctl' = [ctl EXCEPT ![s].pc = "hdr", ![s].now = k]
           /\ UNCHANGED <<exit, proc, did>>
  BY DEF BeginAssert
<1>3. CASE UserError(s) /\ UNCHANGED log
  BY <1>1, <1>3, UserErrorTells
<1>4. CASE /\ log' = [log EXCEPT ![s] = WithHdr(@, k)]
           /\ ctl' = [ctl EXCEPT ![s].pc = "hdr", ![s].now = k]
           /\ UNCHANGED <<exit, proc, did>>
  <2>1. ctl'[s].pc = "hdr" /\ ctl'[s].now = k
    BY <1>4, CtlNowIs
  <2>2. log'[s] = WithHdr(log[s], k)
    BY <1>4 DEF Shape
  <2> DEFINE l == log[s]
             h == Hdr(k)
  <2>3. l = [failed |-> l.failed, last |-> l.last] /\ WithHdr(l, k) = [l EXCEPT !.last = h]
    BY DEF Alive, IsLog, WithHdr
  <2>4. l.failed = did[s].bad
    BY DEF Alive, Story
  <2> HIDE DEF l, h
  <2>5. WithHdr(l, k) = [failed |-> l.failed, last |-> h]
    BY <2>3
  <2>6. IsLog(log'[s]) /\ log'[s].failed = did[s].bad /\ log'[s].last = h
    BY <2>2, <2>4, <2>5 DEF IsLog, l
  <2>7. Story(s)'
    BY <1>1, <1>4, <2>1, <2>6 DEF Alive, Story, Pcs, Before, Open, h
  <2>8. QED
    BY <1>1, <1>4, <2>6, <2>7, GoesOn DEF OnlyAt, Memory, Alive
<1>5. QED
  BY <1>2, <1>3, <1>4

\* A crash, or an exit, with the given verdict of the table and what the code deserves.
LEMMA EndDeserved ==
  ASSUME NEW s \in Slots, Alive(s), ctl[s].pc \in {"initfn", "body", "pred", "finfn"},
         NEW kind, NEW type, NEW plain, NEW code, NEW d,
         (kind = "fault" /\ type = "FAULT" /\ plain = "crash")
           \/ (kind = "exit" /\ type = "EXIT" /\ plain = "exit"),
         d.how = IF ctl[s].now.type = kind THEN "expected" ELSE plain,
         d.where = Where(s), d.met <=> Meets(s, kind, code), d.bad = did[s].bad
  PROVE  Interpret(state[s], Exit(type, code), log[s]) = Deserved(d)
<1> DEFINE x == Exit(type, code)
           k == ctl[s].now
<1>1. x.type = type /\ x.code = code
  BY ExitIs
<1> HIDE DEF x
<1>2. CASE ctl[s].pc \in {"initfn", "finfn"}
  <2>1. d.where \in {"init", "fini"}
    BY <1>2 DEF Where
  <2>2. state[s] \in {"SETUP", "INIT", "FINI"}
    BY <1>2 DEF Alive, Story, Before
  <2>3. Deserved(d) = "ERROR"
    BY <2>1, DeservedIs
  <2>4. Interpret(state[s], x, log[s]) = "ERROR"
    BY <1>1, <2>2, InterpretIs
  <2>5. QED
    BY <2>3, <2>4 DEF x
<1>3. CASE ctl[s].pc = "body"
  <2>1. d.where = "test" /\ state[s] = "TEST" /\ ctl[s].now = NoAssert
    BY <1>3 DEF Where, Alive, Story, Before
  <2>2. d.how = plain
    BY <2>1 DEF NoAssert
  <2>3. Deserved(d) = IF plain = "crash" THEN "UCRASH" ELSE "UEXIT"
    BY <2>1, <2>2, DeservedIs
  <2>4. Interpret(state[s], x, log[s]) = IF plain = "crash" THEN "UCRASH" ELSE "UEXIT"
    BY <1>1, <2>1, InterpretIs
  <2>5. QED
    BY <2>3, <2>4 DEF x
<1>4. CASE ctl[s].pc = "pred"
  <2>1. d.where = "assert"
    BY <1>4 DEF Where
  <2>2. /\ k \in Asserts /\ log[s].last = Hdr(k) /\ state[s] = "IN_ASSERT"
        /\ log[s].failed = did[s].bad
    BY <1>4 DEF Alive, Story
  <2> DEFINE h == log[s].last
  <2>3. h.type = k.type /\ h.neg = k.neg /\ h.cr = k.cr /\ h # NoHdr /\ k.neg \in BOOLEAN
    BY <2>2, HdrIs
  <2> HIDE DEF k, h
  <2>4. Interpret(state[s], x, log[s]) =
          IF h.type = kind THEN Expected(h, code, SoFar(log[s]))
          ELSE IF plain = "crash" THEN "UCRASH" ELSE "UEXIT"
    <3>1. x.type = "FAULT" => kind = "fault" /\ plain = "crash"
      BY <1>1
    <3>2. x.type = "EXIT" => kind = "exit" /\ plain = "exit"
      BY <1>1
    <3>3. x.type \in {"FAULT", "EXIT"}
      BY <1>1
    <3>4. QED
      BY <1>1, <2>2, <2>3, <3>1, <3>2, <3>3, InterpretAssertIs DEF h
  <2>5. CASE k.type = kind
    <3>1. d.how = "expected" /\ (d.met <=> ~k.neg /\ k.cr \in {ANY, code})
      BY <2>5 DEF Meets, k
    <3>2. CASE d.met
      <4>1. Deserved(d) = IF d.bad THEN "FAIL" ELSE "PASSED"
        BY <2>1, <3>1, <3>2, DeservedIs
      <4>2. Expected(h, code, SoFar(log[s])) = SoFar(log[s])
        BY <2>3, <3>1, <3>2 DEF Expected
      <4>3. QED
        BY <2>2, <2>3, <2>4, <2>5, <4>1, <4>2 DEF SoFar, x
    <3>3. CASE ~d.met
      <4>1. Deserved(d) = "FAIL"
        BY <2>1, <3>1, <3>3, DeservedIs
      <4>2. Expected(h, code, SoFar(log[s])) = "FAIL"
        BY <2>3, <3>1, <3>3 DEF Expected
      <4>3. QED
        BY <2>3, <2>4, <2>5, <4>1, <4>2 DEF x
    <3>4. QED
      BY <3>2, <3>3
  <2>6. CASE k.type # kind
    <3>1. d.how = plain
      BY <2>6 DEF k
    <3>2. Deserved(d) = IF plain = "crash" THEN "UCRASH" ELSE "UEXIT"
      BY <2>1, <3>1, DeservedIs
    <3>3. QED
      BY <2>3, <2>4, <2>6, <3>2 DEF x
  <2>7. QED
    BY <2>5, <2>6
<1>5. QED
  BY <1>2, <1>3, <1>4

\* What was written of the exit while the code of a test, or of a fixture, runs.
LEMMA NoExitYet ==
  ASSUME NEW s \in Slots, Alive(s), ctl[s].pc \in {"initfn", "body", "pred", "finfn"}
  PROVE  exit[s] = NoExit
BY DEF Alive, Story, Before, Open, Left

\* The code of a test crashes.
LEMMA CrashTells ==
  ASSUME Shape, Memory, NEW s \in Slots, Alive(s), Crash(s)
  PROVE  StoryEffect(s)
<1>1. ctl[s].pc \in {"initfn", "body", "pred", "finfn"} /\ UNCHANGED <<plan, inv, state, exit, log>>
  BY DEF Crash, InUser, At
<1> DEFINE how == IF ctl[s].now.type = "fault" THEN "expected" ELSE "crash"
           w == Where(s)
           m(sig) == Meets(s, "fault", sig)
<1>2. PICK sig \in Faults : Die(s, sig) /\ Did(s, how, w, m(sig))
  BY DEF Crash
<1> DEFINE met == m(sig)
<1>3. Did(s, how, w, met)
  BY <1>2
<1>4. how = (IF ctl[s].now.type = "fault" THEN "expected" ELSE "crash") /\ w = Where(s)
      /\ met = Meets(s, "fault", sig)
  OBVIOUS
<1> HIDE DEF how, w, met
<1>5. /\ OnlyAt(did, did', s) /\ IsDid(did'[s]) /\ did'[s].how = how /\ did'[s].where = w
      /\ did'[s].met = met /\ did'[s].bad = did[s].bad /\ did'[s].killed = did[s].killed
  BY <1>3, DidIs DEF Alive
<1>6. Interpret(state[s], Exit("FAULT", sig), log[s]) = Deserved(did'[s])
  <2> DEFINE d == did'[s]
  <2>1. /\ d.how = IF ctl[s].now.type = "fault" THEN "expected" ELSE "crash"
        /\ d.where = Where(s) /\ (d.met <=> Meets(s, "fault", sig)) /\ d.bad = did[s].bad
    BY <1>4, <1>5
  <2> HIDE DEF d
  <2>2. Interpret(state[s], Exit("FAULT", sig), log[s]) = Deserved(d)
    BY <1>1, <2>1, EndDeserved
  <2>3. QED
    BY <2>2 DEF d
<1>7. exit'[s].type = "NONE"
  BY <1>1, NoExitYet, ExitIs
<1>8. sig # "kill"
  BY FaultsAssumption
<1>9. QED
  BY <1>1, <1>2, <1>5, <1>6, <1>7, <1>8, DieTells DEF OnlyAt, Memory, Alive

\* It calls exit().
LEMMA CallExitTells ==
  ASSUME Shape, Memory, NEW s \in Slots, Alive(s), CallExit(s)
  PROVE  StoryEffect(s)
<1>1. ctl[s].pc \in {"initfn", "body", "pred", "finfn"} /\ UNCHANGED <<plan, inv, state, exit, log>>
  BY DEF CallExit, InUser, At
<1> DEFINE how == IF ctl[s].now.type = "exit" THEN "expected" ELSE "exit"
           w == Where(s)
           m(code) == Meets(s, "exit", code)
<1>2. PICK code \in Codes :
        /\ proc' = [proc EXCEPT ![s].st = "zombie", ![s].status = Exit("EXIT", code)]
        /\ Did(s, how, w, m(code))
  BY DEF CallExit
<1> DEFINE met == m(code)
<1>3. Did(s, how, w, met)
  BY <1>2
<1>4. how = (IF ctl[s].now.type = "exit" THEN "expected" ELSE "exit") /\ w = Where(s)
      /\ met = Meets(s, "exit", code)
  OBVIOUS
<1> HIDE DEF how, w, met
<1>5. /\ OnlyAt(did, did', s) /\ IsDid(did'[s]) /\ did'[s].how = how /\ did'[s].where = w
      /\ did'[s].met = met /\ did'[s].bad = did[s].bad /\ did'[s].killed = did[s].killed
  BY <1>3, DidIs DEF Alive
<1>6. Interpret(state[s], Exit("EXIT", code), log[s]) = Deserved(did'[s])
  <2> DEFINE d == did'[s]
  <2>1. /\ d.how = IF ctl[s].now.type = "exit" THEN "expected" ELSE "exit"
        /\ d.where = Where(s) /\ (d.met <=> Meets(s, "exit", code)) /\ d.bad = did[s].bad
    BY <1>4, <1>5
  <2> HIDE DEF d
  <2>2. Interpret(state[s], Exit("EXIT", code), log[s]) = Deserved(d)
    BY <1>1, <2>1, EndDeserved
  <2>3. QED
    BY <2>2 DEF d
<1>7. exit'[s].type = "NONE"
  BY <1>1, NoExitYet, ExitIs
<1>8. proc'[s].st = "zombie" /\ proc'[s].status = Exit("EXIT", code)
  BY <1>2, ExitedIs
<1>9. Exit("EXIT", code) # SigKill
  BY ExitIs DEF SigKill
<1>10. Closed(s)'
  BY <1>1, <1>6, <1>7, <1>8, <1>9 DEF Closed, Right, Fix
<1>11. QED
  BY <1>1, <1>5, <1>8, <1>10 DEF StoryEffect, Alive, OnlyAt, Memory

\* All that a test may do.
LEMMA TestStepTells ==
  ASSUME Shape, Memory, NEW s \in Slots, Alive(s), TestStep(s)
  PROVE  StoryEffect(s)
<1>1. CASE FrameworkStep(s)
  BY <1>1, SetGroupTells, EnterTells, NextInitTells, NextFiniTells, FinishTells, CommitTells,
     LeaveTells, EnterAssertTells, AfterResTells, BreakTells, AbortTells DEF FrameworkStep
<1>2. CASE UserStep(s)
  BY <1>2, CrashTells, CallExitTells, MisuseTells, FixtureReturnsTells, BodyReturnsTells, SkipTells,
     ThrowTells, SpawnTells, BeginAssertTells, PredHoldsTells, PredFailsTells DEF UserStep
<1>3. QED
  BY <1>1, <1>2 DEF TestStep

-----------------------------------------------------------------------------
(* What is in a slot while the runner goes on. *)

\* A test that was killed is not collected yet.  One that was rejected has its result.
Told(s) ==
  /\ IsLog(log[s]) /\ IsDid(did[s])
  /\ did[s].killed => proc[s].st = "zombie" /\ proc[s].status = SigKill
  /\ ctl[s].pc = "none" => exit[s].type # "NONE" /\ Right(s, exit[s]) /\ ~did[s].killed
  /\ ctl[s].pc # "none" /\ (proc[s].st # "zombie" \/ did[s].killed) => Story(s)
  /\ ctl[s].pc # "none" /\ proc[s].st = "zombie" /\ ~did[s].killed => Closed(s)

\* Without isolation a test runs only while it is started.
Entry(s) ==
  /\ did[s].killed => rpc = "wait" /\ s = Here
  /\ inv[s] = 0 => did[s] = Undecided
  /\ inv[s] # 0 => Told(s) /\ ~Todo[inv[s]].skipped
  /\ inv[s] # 0 /\ ctl[s].pc # "none" /\ ~Isolated(s) =>
       ctl[s].pc = "end" \/ (rpc = "inline" /\ s = TakeSlot)

VerdictInv ==
  /\ Memory /\ CellsImpossible
  /\ rpc \notin Ended => \A s \in Slots : Entry(s)

\* The slots that a step does not concern.
SameSlot(r) ==
  /\ UNCHANGED <<plan, inv[r], state[r], exit[r], log[r], ctl[r], did[r]>>
  /\ proc'[r].st = proc[r].st /\ proc'[r].status = proc[r].status

\* What the inductive invariant says of a slot holds on over a step that does not
\* concern that slot.
LEMMA SameEntry ==
  ASSUME NEW r \in Slots, Entry(r), SameSlot(r),
         did[r].killed => rpc' = "wait" /\ r = Here',
         rpc = "inline" /\ r = TakeSlot => (rpc' = "inline" /\ r = TakeSlot') \/ ctl[r].pc = "end"
  PROVE  Entry(r)'
<1>1. run' = run /\ (Isolated(r)' <=> Isolated(r)) /\ Todo' = Todo
  BY DEF SameSlot, run, Isolated, TestOf, Todo
<1>2. (Story(r)' <=> Story(r)) /\ (Closed(r)' <=> Closed(r)) /\ (Right(r, exit[r])' <=> Right(r, exit[r]))
  BY <1>1 DEF SameSlot, Story, Closed, Right, Fix, Open, Left, Thrown
<1>3. Told(r)' <=> Told(r)
  BY <1>2 DEF SameSlot, Told
<1>4. QED
  BY <1>1, <1>3 DEF SameSlot, Entry

\* A step that leaves the tests alone.
LEMMA SameTells ==
  ASSUME VerdictInv, UNCHANGED testVars, rpc \notin Ended,
         rpc' \notin {"fatal", "unreachable"},
         rpc = "wait" => UNCHANGED <<rpc, ri, active>>,
         rpc = "inline" => (rpc' = "inline" /\ TakeSlot' = TakeSlot) \/ ctl[TakeSlot].pc = "end"
  PROVE  VerdictInv'
<1>1. Memory' /\ CellsImpossible'
  BY DEF VerdictInv, testVars, Memory, CellsImpossible
<1>2. ASSUME NEW r \in Slots, rpc' \notin Ended
      PROVE  Entry(r)'
  <2>1. Entry(r) /\ SameSlot(r)
    BY DEF VerdictInv, testVars, SameSlot
  <2>2. did[r].killed => rpc' = "wait" /\ r = Here'
    BY <2>1 DEF Entry, Here
  <2>3. QED
    BY <2>1, <2>2, SameEntry
<1>3. QED
  BY <1>1, <1>2 DEF VerdictInv

\* The end of the runner by other means.
LEMMA GoneTells ==
  ASSUME VerdictInv, UNCHANGED <<state, exit, did>>, rpc' \in Ended \ {"fatal", "unreachable"}
  PROVE  VerdictInv'
BY DEF VerdictInv, Memory, CellsImpossible

\* A step in one slot alone, while the runner is not about to collect another that
\* it killed.
LEMMA OneTells ==
  ASSUME VerdictInv, rpc \notin Ended, rpc' \notin {"fatal", "unreachable"}, Memory',
         NEW s \in Slots, plan' = plan, \A r \in Slots \ {s} : SameSlot(r),
         \A r \in Slots \ {s} : did[r].killed => rpc' = "wait" /\ r = Here',
         rpc = "inline" /\ TakeSlot # s => rpc' = "inline" /\ TakeSlot' = TakeSlot,
         rpc' \notin Ended => Entry(s)'
  PROVE  VerdictInv'
<1>1. CellsImpossible'
  BY DEF CellsImpossible
<1>2. ASSUME NEW r \in Slots, r # s, rpc' \notin Ended
      PROVE  Entry(r)'
  BY <1>2, SameEntry DEF VerdictInv
<1>3. QED
  BY <1>1, <1>2 DEF VerdictInv

\* A test that can take a step is one whose story is not over.
LEMMA StepOf ==
  ASSUME NEW s \in Slots, TestStep(s)
  PROVE  /\ inv[s] # 0 /\ ctl[s].pc # "none"
         /\ Isolated(s) => proc[s].st = "alive"
         /\ ctl[s].pc = "end" => Isolated(s)
<1>1. \A pc : At(s, pc) => ctl[s].pc = pc /\ (Isolated(s) => proc[s].st = "alive")
  BY DEF At
<1>2. CASE FrameworkStep(s)
  <2>1. \E pc \in {"setpgid", "enter", "init", "fini", "finish", "commit", "end", "hdr", "res", "break",
                "abort"} :
          At(s, pc) /\ (pc = "end" => Isolated(s))
    BY <1>2 DEF FrameworkStep, SetGroup, Enter, NextInit, NextFini, Finish, Commit, Leave, EnterAssert,
                AfterRes, Break, Abort
  <2>2. QED
    BY <1>1, <2>1 DEF TestStep
<1>3. CASE UserStep(s)
  <2>1. \E pc \in {"initfn", "body", "pred", "finfn"} : At(s, pc)
    BY <1>3 DEF UserStep, Crash, CallExit, Misuse, FixtureReturns, BodyReturns, Skip, Throw, Spawn,
                BeginAssert, PredHolds, PredFails, InUser
  <2>2. QED
    BY <1>1, <2>1 DEF TestStep
<1>4. QED
  BY <1>2, <1>3 DEF TestStep

\* A test takes a step.
LEMMA TestRunsTells ==
  ASSUME SlotsInv, VerdictInv, NEW s \in Slots, TestRuns(s)
  PROVE  VerdictInv'
<1>1. rpc \notin Ended /\ TestStep(s) /\ UNCHANGED runVars
  BY DEF TestRuns
<1>2. /\ inv[s] # 0 /\ ctl[s].pc # "none" /\ (Isolated(s) => proc[s].st = "alive")
      /\ (ctl[s].pc = "end" => Isolated(s))
  BY <1>1, StepOf
<1>3. Shape /\ Memory /\ Entry(s)
  BY <1>1 DEF SlotsInv, VerdictInv
<1>4. proc[s].st # "zombie"
  <2>1. CASE ~Isolated(s)
    <3>1. proc[s] = NoProc
      BY <1>1, <2>1 DEF SlotsInv, Housed
    <3>2. QED
      BY <3>1 DEF NoProc
  <2>2. QED
    BY <1>2, <2>1
<1>5. Alive(s)
  BY <1>2, <1>3, <1>4 DEF Entry, Told, Alive
<1>6. StoryEffect(s) /\ TestEffect(s)
  BY <1>1, <1>3, <1>5, TestStepTells, TestStepActs
<1>7. UNCHANGED <<plan, inv, rpc, ri, active, nactive>> /\ Here' = Here /\ TakeSlot' = TakeSlot
  BY <1>1, <1>6 DEF TestEffect, runVars, Here, TakeSlot
<1>8. \A r \in Slots \ {s} : SameSlot(r)
  BY <1>6, <1>7 DEF SameSlot, StoryEffect, TestEffect, OnlyAt
<1>9. Entry(s)'
  <2>1. Told(s)'
    BY <1>6 DEF StoryEffect, TestEffect, Told
  <2>2. ~Todo[inv[s]].skipped'
    BY <1>2, <1>3, <1>7 DEF Entry, Todo, run
  <2>3. ~Isolated(s)' => rpc' = "inline" /\ s = TakeSlot'
    BY <1>2, <1>3, <1>7, IsolatedIs DEF Entry
  <2>4. QED
    BY <1>2, <1>6, <1>7, <2>1, <2>2, <2>3 DEF Entry, StoryEffect
<1>10. Memory'
  BY <1>6 DEF Memory, StoryEffect, OnlyAt
<1>11. \A r \in Slots : did[r].killed => rpc' = "wait" /\ r = Here'
  BY <1>1, <1>7 DEF VerdictInv, Entry
<1>12. rpc' \notin {"fatal", "unreachable"}
  BY <1>1, <1>7 DEF Ended
<1>13. QED
  BY <1>1, <1>7, <1>8, <1>9, <1>10, <1>11, <1>12, OneTells

\* A descendant of a test ends.
LEMMA DescendantEndsTells ==
  ASSUME SlotsInv, VerdictInv, NEW s \in Slots, DescendantEnds(s)
  PROVE  VerdictInv'
<1> DEFINE no == FALSE
<1>1. rpc \notin Ended /\ UNCHANGED <<plan, inv, state, exit, log, ctl, did, runVars>>
      /\ proc' = [proc EXCEPT ![s].desc = no]
  BY DEF DescendantEnds
<1> HIDE DEF no
<1>2. OnlyAt(proc, proc', s) /\ proc'[s].st = proc[s].st /\ proc'[s].status = proc[s].status
  BY <1>1, DescendantIs DEF SlotsInv
<1>3. UNCHANGED <<rpc, ri, active, nactive>> /\ Here' = Here /\ TakeSlot' = TakeSlot
  BY <1>1 DEF runVars, Here, TakeSlot
<1>4. \A r \in Slots : SameSlot(r)
  BY <1>1, <1>2 DEF SameSlot, OnlyAt
<1>5. \A r \in Slots : Entry(r)'
  BY <1>1, <1>3, <1>4, SameEntry DEF VerdictInv, Entry
<1>6. Memory' /\ CellsImpossible'
  BY <1>1, <1>3 DEF VerdictInv, Memory, CellsImpossible
<1>7. QED
  BY <1>5, <1>6 DEF VerdictInv

\* The runner goes on without a test, or ends.
LEMMA RunnerSameTells ==
  ASSUME SlotsInv, VerdictInv,
         SkipByAttr \/ Collecting \/ RecordChild \/ Park \/ EndSuite \/ EndRun \/ LookOn \/ Overdue
           \/ StillThere
  PROVE  VerdictInv'
<1>1. UNCHANGED testVars
  BY DEF SkipByAttr, Collecting, RecordChild, Park, EndSuite, EndRun, LookOn, Overdue, StillThere
<1>2. rpc \in {"suite", "forked", "inline", "poll", "late"} /\ rpc' \in {"suite", "poll", "late", "kill", "done"}
  BY DEF SkipByAttr, Collecting, RecordChild, Park, EndSuite, EndRun, LookOn, Overdue, StillThere,
         Launching, Looking, Activate
<1>3. rpc = "inline" => ctl[TakeSlot].pc = "end"
  BY DEF SkipByAttr, Collecting, RecordChild, Park, EndSuite, EndRun, LookOn, Overdue, StillThere,
         Launching, Looking
<1>4. QED
  BY <1>1, <1>2, <1>3, SameTells DEF Ended

\* A deadline passes.
LEMMA DeadlineTells ==
  ASSUME VerdictInv, NEW s \in Slots, DeadlinePasses(s)
  PROVE  VerdictInv'
<1>1. UNCHANGED testVars /\ UNCHANGED <<rpc, ri, active, nactive>> /\ rpc \notin Ended
  BY DEF DeadlinePasses
<1>2. TakeSlot' = TakeSlot /\ rpc' \notin {"fatal", "unreachable"}
  BY <1>1 DEF TakeSlot, Ended
<1>3. QED
  BY <1>1, <1>2, SameTells

\* The runner's process ends.
LEMMA EndsTells ==
  ASSUME VerdictInv, ExitInline \/ Signalled
  PROVE  VerdictInv'
<1>1. UNCHANGED <<state, exit, did>> /\ rpc' \in {"exited", "signalled"}
  BY DEF ExitInline, Signalled, testVars
<1>2. QED
  BY <1>1, GoneTells DEF Ended

\* What starts is not skipped, and its slot is empty.
LEMMA StartIs ==
  ASSUME SlotsInv, VerdictInv, MayStart, NEW s \in Slots, s = TakeSlot, NEW ex, Prepare(s, ex)
  PROVE  /\ rpc = "suite" /\ rpc \notin Ended /\ next # 0 /\ ~Todo[next].skipped
         /\ inv[s] = 0 /\ log[s] = EmptyLog /\ ctl[s].pc = "none" /\ proc[s] = NoProc
         /\ did[s] = Undecided /\ \A r \in Slots : ~did[r].killed
         /\ inv'[s] = next /\ state'[s] = "SETUP" /\ exit'[s] = ex
         /\ OnlyAt(inv, inv', s) /\ OnlyAt(state, state', s) /\ OnlyAt(exit, exit', s)
<1>1. rpc = "suite" /\ nactive < run.jobs /\ ~Todo[next].skipped
  BY DEF MayStart, Launching
<1>2. rpc \notin Ended /\ rpc \notin Begun
  BY <1>1 DEF Ended, Begun
<1>3. inv[s] = 0
  BY <1>1, <1>2, TakenIs
<1>4. log[s] = EmptyLog /\ ctl[s].pc = "none" /\ proc[s] = NoProc
  BY <1>3 DEF SlotsInv, Emptied
<1>5. did[s] = Undecided /\ \A r \in Slots : ~did[r].killed
  BY <1>1, <1>2, <1>3 DEF VerdictInv, Entry
<1>6. next # 0 /\ DOMAIN inv = Slots
  BY DEF SlotsInv, Shape
<1>7. /\ inv'[s] = next /\ OnlyAt(inv, inv', s)
      /\ state'[s] = "SETUP" /\ OnlyAt(state, state', s)
      /\ exit'[s] = ex /\ OnlyAt(exit, exit', s)
  BY <1>6, ReplacedIs DEF Prepare, VerdictInv, Memory
<1>8. QED
  BY <1>1, <1>2, <1>3, <1>4, <1>5, <1>6, <1>7

\* triaxi_test_start.
LEMMA StartsTell ==
  ASSUME SlotsInv, VerdictInv, StartRejected \/ StartIsolated \/ StartInline
  PROVE  VerdictInv'
<1>1. MayStart /\ plan' = plan /\ log' = log
  BY DEF StartRejected, StartIsolated, StartInline
<1>2. PICK s \in Slots : s = TakeSlot
  BY <1>1, ActiveIs DEF SlotsInv, MayStart
<1>3. PICK ex : Prepare(s, ex) /\ ex = IF StartRejected THEN Exit("ERROR", "0") ELSE NoExit
  <2>1. CASE StartRejected
    BY <1>2, <2>1 DEF StartRejected
  <2>2. CASE ~StartRejected
    BY <1>2, <2>2 DEF StartIsolated, StartInline
  <2>3. QED
    BY <2>1, <2>2
<1>4. /\ rpc = "suite" /\ rpc \notin Ended /\ next # 0 /\ ~Todo[next].skipped
      /\ inv[s] = 0 /\ log[s] = EmptyLog /\ ctl[s].pc = "none" /\ proc[s] = NoProc
      /\ did[s] = Undecided /\ \A r \in Slots : ~did[r].killed
      /\ inv'[s] = next /\ state'[s] = "SETUP" /\ exit'[s] = ex
      /\ OnlyAt(inv, inv', s) /\ OnlyAt(state, state', s) /\ OnlyAt(exit, exit', s)
  BY <1>1, <1>2, <1>3, StartIs
<1>5. Todo' = Todo /\ ~Todo[inv[s]].skipped'
  <2>1. Todo' = Todo
    BY <1>1 DEF Todo, run
  <2>2. QED
    BY <1>4, <2>1
<1>6. /\ IsLog(EmptyLog) /\ EmptyLog.failed = FALSE
      /\ IsDid(Undecided) /\ Undecided.how = "running" /\ Undecided.bad = FALSE /\ Undecided.killed = FALSE
      /\ NoProc.st = "none" /\ Forked.st = "alive"
      /\ Ctl("enter").pc = "enter" /\ Ctl("enter").now = NoAssert
      /\ Ctl("setpgid").pc = "setpgid" /\ Ctl("setpgid").now = NoAssert
  BY DEF IsLog, EmptyLog, IsDid, Undecided, NoProc, Forked, Ctl
<1>7. \A r \in Slots \ {s} : UNCHANGED <<inv[r], state[r], exit[r], log[r]>>
  BY <1>1, <1>4 DEF OnlyAt
<1>8. DOMAIN ctl = Slots /\ DOMAIN proc = Slots /\ DOMAIN did = Slots
  BY DEF SlotsInv, Shape, VerdictInv, Memory
<1>9. ASSUME rpc' \in {"suite", "forked", "inline"}, Entry(s)', OnlyAt(did, did', s),
             OnlyAt(ctl, ctl', s), OnlyAt(proc, proc', s)
      PROVE  VerdictInv'
  <2>1. Memory'
    BY <1>4, <1>9 DEF Memory, OnlyAt
  <2>2. \A r \in Slots \ {s} : SameSlot(r)
    BY <1>1, <1>7, <1>9 DEF SameSlot, OnlyAt
  <2>3. QED
    BY <1>1, <1>4, <1>9, <2>1, <2>2, OneTells DEF Ended
<1>10. CASE StartRejected
  <2>1. rpc' = "suite" /\ ctl' = ctl /\ proc' = proc /\ did' = [did EXCEPT ![s].how = "misuse"]
    BY <1>2, <1>10 DEF StartRejected, Activate
  <2> DEFINE d  == did[s]
             d1 == [d EXCEPT !.how = "misuse"]
  <2>2. OnlyAt(did, did', s) /\ did'[s] = d1
    BY <1>8, <2>1 DEF OnlyAt
  <2>3. d = [how |-> "running", where |-> d.where, met |-> d.met, bad |-> d.bad, killed |-> d.killed]
        /\ ~d.killed
    BY <1>4 DEF Undecided
  <2> HIDE DEF d
  <2>4. d1 = [how |-> "misuse", where |-> d.where, met |-> d.met, bad |-> d.bad, killed |-> d.killed]
    BY <2>3
  <2> HIDE DEF d1
  <2>5. IsDid(did'[s]) /\ did'[s].how = "misuse" /\ ~did'[s].killed
    BY <2>2, <2>3, <2>4 DEF IsDid
  <2>6. ex = Exit("ERROR", "0")
    BY <1>3, <1>10
  <2>7. Right(s, exit[s])' /\ exit'[s].type # "NONE"
    <3>1. Deserved(did'[s]) = "ERROR"
      BY <2>5, DeservedIs
    <3>2. ex.type = "ERROR"
      BY <2>6, ExitIs
    <3>3. Interpret(state'[s], ex, log'[s]) = "ERROR"
      BY <1>4, <3>2, InterpretIs
    <3>4. QED
      BY <1>4, <3>1, <3>2, <3>3 DEF Right
  <2>8. Told(s)'
    BY <1>1, <1>4, <1>6, <2>1, <2>5, <2>7 DEF Told
  <2>9. Entry(s)'
    BY <1>4, <1>5, <2>1, <2>5, <2>8 DEF Entry
  <2>10. OnlyAt(ctl, ctl', s) /\ OnlyAt(proc, proc', s)
    BY <1>8, <2>1 DEF OnlyAt
  <2>11. QED
    BY <1>9, <2>1, <2>2, <2>9, <2>10
<1>11. CASE ~StartRejected /\ (StartIsolated \/ StartInline)
  <2>1. did' = did /\ exit'[s] = NoExit
    BY <1>3, <1>4, <1>11 DEF StartIsolated, StartInline
  <2>2. /\ OnlyAt(ctl, ctl', s) /\ OnlyAt(proc, proc', s) /\ OnlyAt(did, did', s)
        /\ proc'[s].st # "zombie" /\ rpc' \in {"forked", "inline"}
        /\ ctl'[s].pc \in {"setpgid", "enter"} /\ ctl'[s].now = NoAssert
        /\ ~Isolated(s)' => rpc' = "inline" /\ TakeSlot' = s
    <3>1. CASE StartIsolated
      <4> DEFINE f == Forked
                 c == Ctl("setpgid")
      <4>1. proc' = [proc EXCEPT ![s] = f] /\ ctl' = [ctl EXCEPT ![s] = c] /\ rpc' = "forked"
        BY <1>2, <3>1 DEF StartIsolated
      <4> HIDE DEF f, c
      <4>2. OnlyAt(ctl, ctl', s) /\ OnlyAt(proc, proc', s) /\ proc'[s] = f /\ ctl'[s] = c
        BY <1>8, <4>1, ReplacedIs
      <4>3. Todo[next].isolated /\ ~run.debug
        BY <3>1 DEF StartIsolated
      <4>4. Isolated(s)'
        BY <1>1, <1>4, <4>3 DEF Isolated, TestOf, Todo, run
      <4>5. QED
        BY <1>6, <1>8, <2>1, <4>1, <4>2, <4>4 DEF OnlyAt, f, c
    <3>2. CASE StartInline
      <4> DEFINE c == Ctl("enter")
      <4>1. proc' = proc /\ ctl' = [ctl EXCEPT ![s] = c] /\ rpc' = "inline"
            /\ active' = active /\ nactive' = nactive
        BY <1>2, <3>2 DEF StartInline
      <4> HIDE DEF c
      <4>2. OnlyAt(ctl, ctl', s) /\ ctl'[s] = c
        BY <1>8, <4>1, ReplacedIs
      <4>3. TakeSlot' = s
        BY <1>2, <4>1 DEF TakeSlot
      <4>4. QED
        BY <1>4, <1>6, <1>8, <2>1, <4>1, <4>2, <4>3 DEF OnlyAt, c
    <3>3. QED
      BY <1>11, <3>1, <3>2
  <2>3. Story(s)'
    BY <1>1, <1>4, <1>6, <2>1, <2>2 DEF Story, Before, Pcs, Open
  <2>4. Told(s)'
    BY <1>1, <1>4, <1>6, <2>1, <2>2, <2>3 DEF Told
  <2>5. Entry(s)'
    BY <1>4, <1>5, <1>6, <2>1, <2>2, <2>4 DEF Entry
  <2>6. QED
    BY <1>9, <2>2, <2>5
<1>12. QED
  BY <1>10, <1>11

\* What a test deserves does not depend on whether it was killed.
LEMMA DeservedSame ==
  ASSUME NEW d, NEW e, d.how = e.how, d.where = e.where, d.met = e.met, d.bad = e.bad
  PROVE  Deserved(d) = Deserved(e)
BY DEF Deserved

\* The test that the runner looks at is killed, if it has not ended before.
LEMMA MarkTells ==
  ASSUME SlotsInv, VerdictInv, rpc \in Busy \ {"poll", "wait"}, rpc' = "wait",
         NEW p, p.st = Killed(Here).st, p.status = Killed(Here).status, Mark(Here, p),
         UNCHANGED <<plan, inv, state, exit, log, ctl, ri, active, nactive>>
  PROVE  VerdictInv'
<1>1. PICK s \in Slots : s = Here
  BY HereIs
<1>2. rpc \notin Ended /\ rpc \notin Begun /\ inv[s] # 0 /\ process[s]
  BY <1>1, HereIs DEF SlotsInv, Placed
<1>3. ctl[s].pc # "none" /\ Isolated(s)
  BY <1>1, <1>2, HereIs DEF SlotsInv, Housed
<1>4. Entry(s) /\ \A r \in Slots : ~did[r].killed
  BY <1>2 DEF VerdictInv, Entry
<1>5. IsDid(did[s]) /\ IsLog(log[s]) /\ Told(s)
  BY <1>2, <1>4 DEF Entry, Told
<1> DEFINE k == proc[s].st = "alive"
           d == did[s]
           d1 == [d EXCEPT !.killed = k]
<1>6. OnlyAt(proc, proc', s) /\ proc'[s] = p
  BY <1>1, ReplacedIs DEF Mark, SlotsInv, Shape
<1>7. OnlyAt(did, did', s) /\ did'[s] = d1
  BY <1>1 DEF Mark, VerdictInv, Memory, OnlyAt
<1>8. d = [how |-> d.how, where |-> d.where, met |-> d.met, bad |-> d.bad, killed |-> d.killed]
  BY <1>5 DEF IsDid
<1>9. d.how = did[s].how /\ d.where = did[s].where /\ d.met = did[s].met /\ d.bad = did[s].bad
  OBVIOUS
<1> HIDE DEF k, d
<1>10. d1 = [how |-> d.how, where |-> d.where, met |-> d.met, bad |-> d.bad, killed |-> k]
  BY <1>8
<1> HIDE DEF d1
<1>11. IsDid(did'[s]) /\ did'[s].how = did[s].how /\ did'[s].where = did[s].where
       /\ did'[s].met = did[s].met /\ did'[s].bad = did[s].bad /\ did'[s].killed = k
  BY <1>7, <1>9, <1>10 DEF IsDid
<1>12. \A x : Right(s, x)' <=> Right(s, x)
  BY <1>11, DeservedSame DEF Right
<1>13. k => p.st = "zombie" /\ p.status = SigKill
  BY <1>1, KilledIs DEF SlotsInv, k, SigKill
<1>14. ~k => p.st = proc[s].st /\ p.status = proc[s].status
  BY <1>1, KilledIs DEF SlotsInv, k
<1>15. Isolated(s)' <=> Isolated(s)
  BY IsolatedIs
<1>16. Story(s) => Story(s)'
  <2>1. Right(s, exit[s])' <=> Right(s, exit[s])
    BY <1>12 DEF Right
  <2>2. Right(s, Exit("FAULT", ctl[s].fault))' <=> Right(s, Exit("FAULT", ctl[s].fault))
    BY <1>12 DEF Right
  <2>3. (Open(s)' <=> Open(s)) /\ (Left(s)' <=> Left(s)) /\ (Thrown(s)' <=> Thrown(s))
    BY <1>11 DEF Open, Left, Thrown
  <2>4. QED
    BY <1>11, <1>15, <2>1, <2>2, <2>3 DEF Story
<1>17. ~k /\ Closed(s) => Closed(s)'
  <2>1. SUFFICES ASSUME ~k, Closed(s)
                 PROVE  Closed(s)'
    OBVIOUS
  <2> DEFINE x == Fix(s, proc[s].status)
  <2>2. Fix(s, proc[s].status)' = x
    BY <1>6, <1>14, <2>1 DEF Fix
  <2>3. Right(s, x)
    BY <2>1 DEF Closed
  <2>4. Interpret(state[s], x, log[s]) = Deserved(did'[s])
    BY <1>9, <1>11, <2>3, DeservedSame DEF Right
  <2>5. QED
    BY <1>6, <1>14, <2>1, <2>2, <2>4 DEF Closed, Right
<1>18. k => proc[s].st = "alive"
  BY DEF k
<1>19. Told(s)'
  BY <1>3, <1>4, <1>5, <1>6, <1>11, <1>13, <1>14, <1>16, <1>17, <1>18 DEF Told
<1>20. Here' = Here /\ Todo' = Todo
  BY DEF Here, Todo, run
<1>21. Entry(s)'
  BY <1>1, <1>2, <1>3, <1>4, <1>15, <1>19, <1>20 DEF Entry
<1>22. \A r \in Slots \ {s} : SameSlot(r)
  BY <1>6, <1>7 DEF SameSlot, OnlyAt
<1>23. Memory'
  BY <1>7 DEF VerdictInv, Memory, OnlyAt
<1>24. QED
  BY <1>2, <1>4, <1>21, <1>22, <1>23, OneTells DEF Begun

\* triaxi_kill, in both its forms.
LEMMA KillsTell ==
  ASSUME SlotsInv, VerdictInv, KillGroup \/ KillChild
  PROVE  VerdictInv'
<1>1. UNCHANGED <<plan, inv, state, exit, log, ctl, ri, active, nactive>> /\ rpc \in {"kill", "third"}
  BY DEF KillGroup, KillChild, Looking
<1>2. rpc \in Busy \ {"poll", "wait"} /\ rpc \notin Ended
  BY <1>1 DEF Busy, Ended
<1> DEFINE k == Killed(Here)
           d == proc[Here].desc
           q == [k EXCEPT !.desc = d]
<1>3. \/ Mark(Here, k) /\ rpc' = "wait"
      \/ Mark(Here, q) /\ rpc' = "wait"
      \/ rpc' = "third" /\ UNCHANGED <<proc, did>>
  BY DEF KillGroup, KillChild
<1>4. IsProc(k)
  BY <1>2, HereIs, KilledIs DEF SlotsInv
<1>5. q.st = Killed(Here).st /\ q.status = Killed(Here).status
  <2>1. k = [st |-> k.st, status |-> k.status, group |-> k.group, desc |-> k.desc]
        /\ k.st = Killed(Here).st /\ k.status = Killed(Here).status
    BY <1>4 DEF IsProc
  <2> HIDE DEF k, d
  <2>2. q = [st |-> k.st, status |-> k.status, group |-> k.group, desc |-> d]
    BY <2>1
  <2>3. QED
    BY <2>1, <2>2
<1> HIDE DEF q
<1>6. CASE rpc' = "third" /\ UNCHANGED <<proc, did>>
  BY <1>1, <1>2, <1>6, SameTells DEF testVars
<1>7. QED
  BY <1>1, <1>2, <1>3, <1>5, <1>6, MarkTells

-----------------------------------------------------------------------------
(* Collecting a test *)

\* The verdict is allowed, or it is the one exception to the impossible cells.
Fair(s, v) ==
  \/ v \in Allowed(s) /\ v \notin {"fatal", "unreachable"}
  \/ v = "fatal" /\ did[s].killed /\ ctl[s].pc = "res"

\* What a test deserves is an outcome, and never an impossible cell.
LEMMA DeservedOutcome ==
  ASSUME NEW d
  PROVE  Deserved(d) \in Outcomes /\ Deserved(d) \notin {"fatal", "unreachable"}
BY DEF Deserved, Outcomes

\* A test that was not killed.
LEMMA RightIsFair ==
  ASSUME NEW s \in Slots, NEW ex, Right(s, ex), ~did[s].killed
  PROVE  Fair(s, Interpret(state[s], ex, log[s]))
BY DeservedOutcome DEF Right, Fair, Allowed

\* A test that was killed before it had written its exit has timed out, unless its
\* code had come to its end; what it wrote before stands.
LEMMA KilledIsFair ==
  ASSUME NEW s \in Slots, did[s].killed, Story(s), Isolated(s), NEW ex,
         ex = Fix(s, Exit("TIMEOUT", "0"))
  PROVE  Fair(s, Interpret(state[s], ex, log[s]))
<1> DEFINE v  == Interpret(state[s], ex, log[s])
           pc == ctl[s].pc
<1>1. exit[s] = NoExit => ex.type = "TIMEOUT"
  BY ExitIs DEF Fix
<1>2. exit[s].type # "NONE" => ex = exit[s]
  BY DEF Fix
<1>3. CASE pc \in Before \cup {"body", "hdr", "break", "pred", "res", "fini", "finfn"}
  <2>1. exit[s] = NoExit
    BY <1>3 DEF Story, Open, Left, Before
  <2>2. Allowed(s) = {"TIMEOUT"}
    BY <1>3 DEF Allowed, Before
  <2>3. CASE state[s] \in {"SETUP", "INIT", "TEST", "FINI"}
    <3>1. v = "TIMEOUT"
      BY <1>1, <2>1, <2>3, InterpretIs
    <3>2. QED
      BY <2>2, <3>1 DEF Fair
  <2>4. CASE state[s] = "IN_ASSERT" /\ log[s].last # NoHdr
    <3>1. v = "TIMEOUT"
      BY <1>1, <2>1, <2>4, InterpretAssertIs
    <3>2. QED
      BY <2>2, <3>1 DEF Fair
  <2>5. CASE state[s] = "IN_ASSERT" /\ log[s].last = NoHdr
    <3>1. v = "fatal"
      BY <1>1, <2>1, <2>5, InterpretAssertIs
    <3>2. pc = "res"
      <4>1. pc = "pred" => log[s].last # NoHdr
        BY HdrIs DEF Story
      <4>2. QED
        BY <1>3, <2>5, <4>1 DEF Story, Before, Thrown
    <3>3. QED
      BY <3>1, <3>2 DEF Fair
  <2>6. QED
    BY <1>3, <2>3, <2>4, <2>5 DEF Story, Before, Thrown
<1>4. CASE pc \in {"abort", "finish", "commit", "end"}
  <2>1. Allowed(s) = {Deserved(did[s]), "TIMEOUT"}
    BY <1>4 DEF Allowed
  <2>2. v = Deserved(did[s]) \/ v = "TIMEOUT" => Fair(s, v)
    BY <2>1, DeservedOutcome DEF Fair
  <2>3. CASE exit[s].type # "NONE"
    <3>1. Right(s, exit[s])
      BY <1>4, <2>3, ExitIs DEF Story, Left
    <3>2. QED
      BY <1>2, <2>2, <2>3, <3>1 DEF Right
  <2>4. CASE exit[s].type = "NONE"
    <3>1. Left(s) /\ state[s] \in {"CLEANUP", "SKIPPED", "TEST", "DONE"}
      <4>1. pc # "end"
        BY <2>4 DEF Story
      <4>2. pc = "finish" => Left(s) /\ state[s] = "CLEANUP"
        BY <2>4, ExitIs DEF Story
      <4>3. pc = "commit" => Left(s) /\ state[s] = StateOf(ctl[s].res)
        BY DEF Story
      <4>4. pc # "abort"
        BY <2>4, ExitIs DEF Story
      <4>5. QED
        BY <1>4, <4>1, <4>2, <4>3, <4>4 DEF StateOf, Left
    <3>2. exit[s] = NoExit /\ ex.type = "TIMEOUT"
      BY <1>1, <3>1 DEF Left
    <3>3. CASE state[s] \in {"CLEANUP", "TEST"}
      BY <2>2, <3>2, <3>3, InterpretIs
    <3>4. CASE state[s] \in {"SKIPPED", "DONE"}
      <4>1. pc = "commit" /\ state[s] = StateOf(ctl[s].res)
        BY <1>4, <2>4, <3>4, ExitIs DEF Story
      <4>2. did[s].how = IF state[s] = "SKIPPED" THEN "skip" ELSE "return"
        BY <3>1, <3>4, <4>1 DEF Left, StateOf, HowOf
      <4>3. log[s].failed = did[s].bad
        BY DEF Story
      <4>4. v = Deserved(did[s])
        <5>1. CASE state[s] = "SKIPPED"
          BY <4>2, <5>1, InterpretIs, DeservedIs
        <5>2. CASE state[s] = "DONE"
          <6>1. v = SoFar(log[s])
            BY <5>2, InterpretIs
          <6>2. Deserved(did[s]) = IF did[s].bad THEN "FAIL" ELSE "PASSED"
            BY <4>2, <5>2, DeservedIs
          <6>3. QED
            BY <4>3, <6>1, <6>2 DEF SoFar
        <5>3. QED
          BY <3>4, <5>1, <5>2
      <4>5. QED
        BY <2>2, <4>4
    <3>5. QED
      BY <3>1, <3>3, <3>4
  <2>5. QED
    BY <2>3, <2>4
<1>5. QED
  BY <1>3, <1>4 DEF Story, Pcs

Collect == CollectParked \/ CollectEnded \/ CollectKilled

\* Whatever is collected is collected with a fair verdict.
LEMMA CollectsFairly ==
  ASSUME SlotsInv, VerdictInv, Collect
  PROVE  \E ex : \E terminated \in BOOLEAN :
           CollectAt(ri, ex, terminated) /\ Fair(Here, Interpret(state[Here], ex, log[Here]))
<1>1. rpc \in Busy
  BY DEF Collect, CollectParked, CollectEnded, CollectKilled, Busy
<1>2. PICK s \in Slots : s = Here
  BY <1>1, HereIs
<1>3. rpc \notin Ended /\ rpc \notin Begun /\ inv[s] # 0 /\ (Running(s) <=> process[s])
  BY <1>1, <1>2, HereIs
<1>4. Told(s) /\ Entry(s)
  BY <1>3 DEF VerdictInv, Entry
<1>5. /\ ~process[s] => proc[s] = NoProc
      /\ process[s] <=> ctl[s].pc # "none" /\ Isolated(s)
  BY <1>3 DEF SlotsInv, Housed
<1>6. CASE CollectParked
  <2>1. rpc = "poll" /\ ~process[s] /\ CollectAt(ri, exit[s], FALSE)
    BY <1>2, <1>6 DEF CollectParked
  <2>2. ~did[s].killed
    BY <1>4, <2>1 DEF Entry
  <2>3. Right(s, exit[s])
    <3>1. CASE ctl[s].pc = "none"
      BY <1>4, <3>1 DEF Told
    <3>2. CASE ctl[s].pc # "none"
      <4>1. ctl[s].pc = "end"
        BY <1>3, <1>4, <1>5, <2>1, <3>2 DEF Entry
      <4>2. proc[s].st # "zombie"
        BY <1>5, <2>1 DEF NoProc
      <4>3. Story(s)
        BY <1>4, <3>2, <4>2 DEF Told
      <4>4. QED
        BY <4>1, <4>3 DEF Story
    <3>3. QED
      BY <3>1, <3>2
  <2>4. QED
    BY <1>2, <2>1, <2>2, <2>3, RightIsFair
<1>7. CASE CollectEnded
  <2>1. rpc # "wait" /\ process[s] /\ proc[s].st = "zombie" /\ CollectAt(ri, Fix(s, proc[s].status), FALSE)
    BY <1>2, <1>7 DEF CollectEnded, Waitable, Status
  <2>2. ~did[s].killed
    BY <1>4, <2>1 DEF Entry
  <2>3. Right(s, Fix(s, proc[s].status))
    BY <1>4, <1>5, <2>1, <2>2 DEF Told, Closed
  <2>4. QED
    BY <1>2, <2>1, <2>2, <2>3, RightIsFair
<1>8. CASE CollectKilled
  <2> DEFINE ex == Fix(s, IF proc[s].status = SigKill THEN Exit("TIMEOUT", "0") ELSE proc[s].status)
  <2>1. process[s] /\ proc[s].st = "zombie" /\ CollectAt(ri, ex, TRUE)
    BY <1>2, <1>8 DEF CollectKilled, Waitable, Status, SigKill
  <2>2. CASE did[s].killed
    <3>1. ex = Fix(s, Exit("TIMEOUT", "0")) /\ Story(s) /\ Isolated(s)
      BY <1>4, <1>5, <2>1, <2>2 DEF Told
    <3>2. Fair(s, Interpret(state[s], ex, log[s]))
      BY <2>2, <3>1, KilledIsFair
    <3>3. QED
      BY <1>2, <2>1, <3>2
  <2>3. CASE ~did[s].killed
    <3>1. Closed(s)
      BY <1>4, <1>5, <2>1, <2>3 DEF Told
    <3>2. ex = Fix(s, proc[s].status) /\ Right(s, ex)
      BY <3>1 DEF Closed
    <3>3. Fair(s, Interpret(state[s], ex, log[s]))
      BY <2>3, <3>2, RightIsFair
    <3>4. QED
      BY <1>2, <2>1, <3>3
  <2>4. QED
    BY <2>2, <2>3
<1>9. QED
  BY <1>6, <1>7, <1>8 DEF Collect

\* The slot is emptied, or the runner stops at the one cell that the table excludes.
LEMMA CollectTells ==
  ASSUME SlotsInv, VerdictInv, Collect
  PROVE  VerdictInv'
<1>1. PICK ex : \E t \in BOOLEAN :
        CollectAt(ri, ex, t) /\ Fair(Here, Interpret(state[Here], ex, log[Here]))
  BY CollectsFairly
<1>2. PICK terminated \in BOOLEAN :
        CollectAt(ri, ex, terminated) /\ Fair(Here, Interpret(state[Here], ex, log[Here]))
  BY <1>1
<1>3. rpc \in Busy
  BY DEF Collect, CollectParked, CollectEnded, CollectKilled, Busy
<1>4. PICK s \in Slots : s = Here
  BY <1>3, HereIs
<1>5. rpc \notin Ended /\ rpc \notin Begun /\ inv[s] # 0
  BY <1>3, <1>4, HereIs
<1> DEFINE v == Interpret(state[s], ex, log[s])
<1>6. CASE v \in {"fatal", "unreachable"}
  <2>1. Fatal(s, v)
    BY <1>2, <1>4, <1>6 DEF CollectAt, Here
  <2>2. v = "fatal" /\ did[s].killed /\ ctl[s].pc = "res"
    BY <1>2, <1>4, <1>6 DEF Fair
  <2>3. rpc' = v /\ UNCHANGED <<state, exit, log, ctl, did, ri, active>> /\ rpc' \in Ended
    BY <2>1, <2>2 DEF Fatal, Ended
  <2> HIDE DEF v
  <2>4. CellsImpossible'
    BY <1>4, <2>2, <2>3 DEF CellsImpossible, Here
  <2>5. QED
    BY <2>3, <2>4 DEF VerdictInv, Memory
<1>7. CASE v \notin {"fatal", "unreachable"}
  <2> DEFINE e == EmptyLog
             c == Ctl("none")
             p == Reaped(s, terminated \/ process[s])
             u == Undecided
  <2>1. /\ exit' = [exit EXCEPT ![s] = ex] /\ log' = [log EXCEPT ![s] = e]
        /\ proc' = [proc EXCEPT ![s] = p] /\ inv' = [inv EXCEPT ![s] = 0]
        /\ ctl' = [ctl EXCEPT ![s] = c] /\ did' = [did EXCEPT ![s] = u]
        /\ rpc' = "suite" /\ plan' = plan /\ state' = state
    BY <1>2, <1>4, <1>7 DEF CollectAt, Here
  <2> HIDE DEF e, c, p, u
  <2>2. DOMAIN inv = Slots /\ DOMAIN log = Slots /\ DOMAIN proc = Slots /\ DOMAIN ctl = Slots
    BY DEF SlotsInv, Shape
  <2>3. DOMAIN exit = Slots /\ DOMAIN did = Slots /\ DOMAIN state = Slots
    BY DEF VerdictInv, Memory
  <2>4. /\ OnlyAt(exit, exit', s) /\ OnlyAt(log, log', s) /\ OnlyAt(proc, proc', s)
        /\ OnlyAt(inv, inv', s) /\ OnlyAt(ctl, ctl', s) /\ OnlyAt(did, did', s)
        /\ inv'[s] = 0 /\ did'[s] = u
    BY <2>1, <2>2, <2>3, ReplacedIs
  <2>5. \A r \in Slots \ {s} : SameSlot(r)
    BY <2>1, <2>4 DEF SameSlot, OnlyAt
  <2>6. Memory'
    BY <2>1, <2>3, <2>4 DEF Memory, OnlyAt
  <2>7. \A r \in Slots \ {s} : ~did[r].killed
    BY <1>4, <1>5 DEF VerdictInv, Entry
  <2>8. u.killed = FALSE
    BY DEF u, Undecided
  <2>9. Entry(s)'
    BY <2>4, <2>8 DEF Entry, u
  <2>10. rpc # "inline"
    BY <1>5 DEF Begun
  <2>11. QED
    BY <1>5, <2>1, <2>5, <2>6, <2>7, <2>9, <2>10, OneTells
<1>8. QED
  BY <1>6, <1>7

-----------------------------------------------------------------------------
(* The theorems *)

\* The inductive invariant holds when the runner starts: every slot is free.
LEMMA VerdictInit ==
  ASSUME Init
  PROVE  VerdictInv
<1>1. /\ inv = [s \in Slots |-> 0] /\ state = [s \in Slots |-> "SETUP"]
      /\ exit = [s \in Slots |-> NoExit] /\ did = [s \in Slots |-> Undecided] /\ rpc = "suite"
  BY DEF Init
<1>2. Undecided.killed = FALSE
  BY DEF Undecided
<1>3. QED
  BY <1>1, <1>2 DEF VerdictInv, Memory, CellsImpossible, Entry

\* Every step of the runner, of a test, of its descendants and of the deadline keeps
\* the inductive invariant.
LEMMA VerdictNext ==
  ASSUME SlotsInv, VerdictInv, [Next]_vars
  PROVE  VerdictInv'
<1>1. CASE RunnerStep
  BY <1>1, RunnerSameTells, StartsTell, CollectTells, KillsTell DEF RunnerStep, Collect
<1>2. CASE ExitInline \/ Signalled
  BY <1>2, EndsTells
<1>3. CASE UNCHANGED vars
  <2>1. UNCHANGED testVars /\ UNCHANGED <<rpc, ri, active, nactive>>
    BY <1>3 DEF vars, runVars
  <2>2. CASE rpc \notin Ended
    <3>1. rpc' \notin {"fatal", "unreachable"} /\ TakeSlot' = TakeSlot
      BY <2>1, <2>2 DEF Ended, TakeSlot
    <3>2. QED
      BY <2>1, <2>2, <3>1, SameTells
  <2>3. CASE rpc \in Ended
    BY <2>1, <2>3 DEF VerdictInv, Memory, CellsImpossible, Here, testVars
  <2>4. QED
    BY <2>2, <2>3
<1>4. ASSUME NEW s \in Slots, TestRuns(s) \/ DeadlinePasses(s) \/ DescendantEnds(s)
      PROVE  VerdictInv'
  BY <1>4, TestRunsTells, DeadlineTells, DescendantEndsTells
<1>5. QED
  BY <1>1, <1>2, <1>3, <1>4 DEF Next, Over

\* A verdict that is reported is allowed.
LEMMA VerdictStep ==
  ASSUME SlotsInv, VerdictInv, [Next]_vars, NEW i \in DOMAIN verdict, verdict'[i] # verdict[i]
  PROVE  IF Todo[i].skipped THEN verdict'[i] = "SKIP"
         ELSE \E s \in Slots : inv[s] = i /\ verdict'[i] \in Allowed(s)
<1>1. SkipByAttr \/ Collect
  BY DEF Next, RunnerStep, Over, ExitInline, Signalled, TestRuns, DeadlinePasses, DescendantEnds, vars,
         runVars, Collecting, StartRejected, StartIsolated, RecordChild, StartInline, Park, EndSuite,
         EndRun, LookOn, Overdue, StillThere, KillGroup, KillChild, Looking, Collect
<1>2. CASE SkipByAttr
  BY <1>2 DEF SkipByAttr
<1>3. CASE Collect
  <2>1. PICK ex : \E t \in BOOLEAN :
          CollectAt(ri, ex, t) /\ Fair(Here, Interpret(state[Here], ex, log[Here]))
    BY <1>3, CollectsFairly
  <2>2. PICK terminated \in BOOLEAN :
          CollectAt(ri, ex, terminated) /\ Fair(Here, Interpret(state[Here], ex, log[Here]))
    BY <2>1
  <2>3. rpc \in Busy
    BY <1>3 DEF Collect, CollectParked, CollectEnded, CollectKilled, Busy
  <2>4. PICK s \in Slots : s = Here
    BY <2>3, HereIs
  <2>5. ~Todo[inv[s]].skipped
    BY <2>3, <2>4, HereIs DEF VerdictInv, Entry
  <2> DEFINE v == Interpret(state[s], ex, log[s])
  <2>6. CASE v \in {"fatal", "unreachable"}
    <3>1. Fatal(s, v)
      BY <2>2, <2>4, <2>6 DEF CollectAt, Here
    <3>2. QED
      BY <3>1 DEF Fatal
  <2>7. CASE v \notin {"fatal", "unreachable"}
    <3>1. verdict' = [verdict EXCEPT ![inv[s]] = v]
      BY <2>2, <2>4, <2>7 DEF CollectAt, Here
    <3>2. v \in Allowed(s)
      BY <2>2, <2>4, <2>7 DEF Fair
    <3> HIDE DEF v
    <3>3. i = inv[s] /\ verdict'[i] = v
      BY <3>1
    <3>4. QED
      BY <2>5, <3>2, <3>3
  <2>8. QED
    BY <2>6, <2>7
<1>4. QED
  BY <1>1, <1>2, <1>3

\* In every state: no test comes to a cell of the table in triaxi_test_interpret that
\* is marked impossible, but for one that the runner killed after it wrote the result
\* of an assertion and before it left that assertion.
THEOREM TriaxCellsImpossible == Spec => []CellsImpossible
<1>1. Init => SlotsInv /\ VerdictInv
  BY SlotsInit, VerdictInit
<1>2. (SlotsInv /\ VerdictInv) /\ [Next]_vars => (SlotsInv /\ VerdictInv)'
  BY SlotsNext, VerdictNext
<1>3. SlotsInv /\ VerdictInv => CellsImpossible
  BY DEF VerdictInv
<1>4. QED
  BY <1>1, <1>2, <1>3, PTL DEF Spec

\* In every step: the verdict that triaxi_collect_active_at reports is the one that the
\* code of that very test deserves by what it did, and a timeout only for a test that
\* was killed, wherever the crash, exit, kill or deadline fell between its stores.
THEOREM TriaxVerdictsTrue == Spec => VerdictsTrue
<1>1. Init => SlotsInv /\ VerdictInv
  BY SlotsInit, VerdictInit
<1>2. (SlotsInv /\ VerdictInv) /\ [Next]_vars => (SlotsInv /\ VerdictInv)'
  BY SlotsNext, VerdictNext
<1>3. (SlotsInv /\ VerdictInv) /\ [Next]_vars =>
        [\A i \in DOMAIN verdict : verdict'[i] # verdict[i] =>
           IF Todo[i].skipped THEN verdict'[i] = "SKIP"
           ELSE \E s \in Slots : inv[s] = i /\ verdict'[i] \in Allowed(s)]_vars
  BY VerdictStep
<1>4. QED
  BY <1>1, <1>2, <1>3, PTL DEF Spec, VerdictsTrue

-----------------------------------------------------------------------------
(* The refinement: what has become of the invocations *)

InSlot(i) == \E s \in Slots : inv[s] = i

\* The tests in slots are of the suite that runs and have no verdict, and none after
\* them has one.
Slotted ==
  /\ \A s \in Slots : inv[s] # 0 => /\ inv[s] \in DOMAIN Todo /\ Todo[inv[s]].suite = su
                                    /\ verdict[inv[s]] = NoVerdict
  /\ \A i \in DOMAIN Todo : i >= next => verdict[i] = NoVerdict

\* Until a failure stops the run, what is behind `next` has been started or
\* reported, and `next` is where the suite that runs goes on.
Ordered ==
  ~stop => \A i \in DOMAIN Todo :
             /\ i < next => Todo[i].suite <= su /\ (verdict[i] # NoVerdict \/ InSlot(i))
             /\ i >= next => Todo[i].suite >= su

\* With fail_fast, a failure is one of the suite that runs, which starts no more tests.
Failing ==
  /\ failed => run.failFast /\ \E i \in DOMAIN Todo : IsBad(verdict[i]) /\ Todo[i].suite = su
  /\ stop => run.failFast /\ \E i \in DOMAIN Todo : IsBad(verdict[i])
  /\ ~stop /\ run.failFast =>
       \A i \in DOMAIN Todo : IsBad(verdict[i]) => Todo[i].suite = su /\ (failed \/ ~Pending)

Launched == rpc \in Begun => Pending /\ ~failed /\ ~stop /\ inv[TakeSlot] = next

Books ==
  /\ DOMAIN verdict = DOMAIN Todo /\ \A i \in DOMAIN Todo : verdict[i] \in Outcomes \cup {NoVerdict}
  /\ su \in Nat \ {0} /\ stop \in BOOLEAN /\ failed \in BOOLEAN
  /\ rpc \notin Ended => Slotted /\ Ordered /\ Failing /\ Launched

-----------------------------------------------------------------------------
\* What the refinement knows of the run.
LEMMA TodoOf ==
  ASSUME Shape
  PROVE  /\ Len(Todo) \in Nat /\ DOMAIN Todo = 1 .. Len(Todo) /\ next \in Nat \ {0}
         /\ Len(run.suites) \in Nat /\ run.failFast \in BOOLEAN
         /\ \A i \in DOMAIN Todo : Todo[i].suite \in 1 .. Len(run.suites)
         /\ \A i, j \in DOMAIN Todo : i <= j => Todo[i].suite <= Todo[j].suite
BY TodoIs, RunIs DEF Shape, Todo, run

\* Outcomes are not the words for tests without one.
LEMMA OutcomeIs ==
  /\ NoVerdict \notin Outcomes /\ "waiting" \notin Outcomes /\ "running" \notin Outcomes
  /\ NoVerdict \notin {"waiting", "running"} /\ Good \subseteq Outcomes /\ "SKIP" \in Good
  /\ \A v : IsBad(v) <=> v \in Outcomes \ Good
BY DEF Outcomes, NoVerdict, Good, IsBad

\* A collected test gets one outcome and leaves its slot, or the runner aborts.
LEMMA CollectIs ==
  ASSUME SlotsInv, VerdictInv, Collect
  PROVE  /\ rpc \notin Ended /\ UNCHANGED <<plan, su, next, stop, result>>
         /\ \/ rpc' \in {"fatal", "unreachable"} /\ UNCHANGED <<inv, verdict, failed>>
            \/ \E s \in Slots : \E v \in Outcomes :
                 /\ inv[s] # 0 /\ rpc' = "suite"
                 /\ inv' = [inv EXCEPT ![s] = 0] /\ verdict' = [verdict EXCEPT ![inv[s]] = v]
                 /\ failed' = (failed \/ (Pending /\ run.failFast /\ IsBad(v)))
<1>1. PICK ex : \E t \in BOOLEAN :
        CollectAt(ri, ex, t) /\ Fair(Here, Interpret(state[Here], ex, log[Here]))
  BY CollectsFairly
<1>2. PICK terminated \in BOOLEAN :
        CollectAt(ri, ex, terminated) /\ Fair(Here, Interpret(state[Here], ex, log[Here]))
  BY <1>1
<1>3. rpc \in Busy
  BY DEF Collect, CollectParked, CollectEnded, CollectKilled, Busy
<1>4. PICK s \in Slots : s = Here
  BY <1>3, HereIs
<1>5. rpc \notin Ended /\ inv[s] # 0
  BY <1>3, <1>4, HereIs
<1> DEFINE v == Interpret(state[s], ex, log[s])
<1>6. CASE v \in {"fatal", "unreachable"}
  <2>1. Fatal(s, v)
    BY <1>2, <1>4, <1>6 DEF CollectAt, Here
  <2> HIDE DEF v
  <2>2. QED
    BY <1>5, <1>6, <2>1 DEF Fatal
<1>7. CASE v \notin {"fatal", "unreachable"}
  <2>1. /\ verdict' = [verdict EXCEPT ![inv[s]] = v] /\ inv' = [inv EXCEPT ![s] = 0]
        /\ failed' = (failed \/ (Pending /\ run.failFast /\ IsBad(v)))
        /\ rpc' = "suite" /\ UNCHANGED <<plan, su, next, stop, result>>
    BY <1>2, <1>4, <1>7 DEF CollectAt, Here
  <2>2. v \in Allowed(s)
    BY <1>2, <1>4, <1>7 DEF Fair
  <2>3. Deserved(did[s]) \in Outcomes /\ "TIMEOUT" \in Outcomes
    BY DeservedOutcome DEF Outcomes
  <2> HIDE DEF v
  <2>4. v \in Outcomes
    BY <2>2, <2>3 DEF Allowed
  <2>5. QED
    BY <1>5, <2>1, <2>4
<1>8. QED
  BY <1>6, <1>7

\* A test that is started is the next one, in a free slot.
LEMMA LaunchIs ==
  ASSUME SlotsInv, StartRejected \/ StartIsolated \/ StartInline
  PROVE  /\ rpc = "suite" /\ Pending /\ ~failed /\ ~stop /\ nactive < run.jobs
         /\ TakeSlot \in Slots /\ inv[TakeSlot] = 0 /\ inv' = [inv EXCEPT ![TakeSlot] = next]
         /\ UNCHANGED <<plan, su, failed, stop, verdict, result>>
         /\ \/ rpc' \in Begun /\ next' = next /\ TakeSlot' = TakeSlot
            \/ rpc' = "suite" /\ next' = next + 1
<1>1. rpc = "suite" /\ Pending /\ ~failed /\ ~stop /\ nactive < run.jobs
  BY DEF StartRejected, StartIsolated, StartInline, MayStart, Launching
<1>2. TakeSlot \in Slots /\ inv[TakeSlot] = 0
  BY <1>1, TakenIs DEF Ended, Begun
<1>3. inv' = [inv EXCEPT ![TakeSlot] = next] /\ UNCHANGED <<plan, su, failed, stop, verdict, result>>
  BY DEF StartRejected, StartIsolated, StartInline, Prepare
<1>4. CASE StartRejected
  BY <1>1, <1>2, <1>3, <1>4 DEF StartRejected, Activate
<1>5. CASE StartIsolated \/ StartInline
  <2>1. rpc' \in Begun /\ UNCHANGED <<next, active, nactive>>
    BY <1>5 DEF StartIsolated, StartInline, Begun
  <2>2. TakeSlot' = TakeSlot
    BY <2>1 DEF TakeSlot
  <2>3. QED
    BY <1>1, <1>2, <1>3, <2>1, <2>2
<1>6. QED
  BY <1>4, <1>5

\* The test that was begun is in flight.
LEMMA BegunIs ==
  ASSUME SlotsInv, RecordChild \/ Park
  PROVE  /\ rpc \in Begun /\ rpc' = "suite" /\ next' = next + 1 /\ TakeSlot \in Slots
         /\ UNCHANGED <<plan, inv, su, failed, stop, verdict, result>>
<1>1. rpc \in Begun
  BY DEF RecordChild, Park, Begun
<1>2. TakeSlot \in Slots
  BY <1>1, TakenIs DEF SlotsInv, Placed, Begun, Ended
<1>3. QED
  BY <1>1, <1>2 DEF RecordChild, Park, Activate, testVars

\* Steps of the runner that are about no test in particular, or about the life of one.
Quiet == Collecting \/ LookOn \/ Overdue \/ StillThere \/ KillGroup \/ KillChild

\* They change no slot, verdict or mode, and the runner goes on.
LEMMA QuietIs ==
  ASSUME Quiet
  PROVE  /\ rpc \notin Ended \cup Begun /\ rpc' \notin Ended \cup Begun
         /\ UNCHANGED <<plan, inv, su, next, failed, stop, verdict, result>>
<1>1. CASE Collecting
  BY <1>1 DEF Collecting, testVars, Ended, Begun
<1>2. CASE LookOn \/ Overdue \/ StillThere
  BY <1>2 DEF LookOn, Overdue, StillThere, Looking, testVars, Ended, Begun
<1>3. CASE KillGroup \/ KillChild
  BY <1>3 DEF KillGroup, KillChild, Looking, Ended, Begun
<1>4. QED
  BY <1>1, <1>2, <1>3 DEF Quiet

\* Steps of the others.
LEMMA OthersAre ==
  ASSUME SlotsInv, NEW s \in Slots, TestRuns(s) \/ DeadlinePasses(s) \/ DescendantEnds(s)
  PROVE  /\ rpc \notin Ended /\ rpc' = rpc /\ TakeSlot' = TakeSlot
         /\ UNCHANGED <<plan, inv, su, next, failed, stop, verdict, result>>
<1>1. CASE TestRuns(s)
  <2>1. TestEffect(s)
    BY <1>1, TestStepActs DEF TestRuns, SlotsInv
  <2>2. QED
    BY <1>1, <2>1 DEF TestRuns, TestEffect, runVars, TakeSlot
<1>2. CASE DeadlinePasses(s) \/ DescendantEnds(s)
  BY <1>2 DEF DeadlinePasses, DescendantEnds, testVars, runVars, TakeSlot
<1>3. QED
  BY <1>1, <1>2

\* Steps that change nothing of what Books is about.
LEMMA SameBooks ==
  ASSUME Books, rpc \notin Ended, UNCHANGED <<plan, inv, su, next, failed, stop, verdict>>,
         rpc' \in Begun => rpc \in Begun /\ TakeSlot' = TakeSlot
  PROVE  Books'
<1>1. run' = run /\ Todo' = Todo
  BY DEF run, Todo
<1>2. (Pending' <=> Pending) /\ \A i : InSlot(i)' <=> InSlot(i)
  BY <1>1 DEF Pending, InSlot
<1>3. Slotted' /\ Ordered'
  BY <1>1, <1>2 DEF Books, Slotted, Ordered
<1>4. Failing'
  BY <1>1, <1>2 DEF Books, Failing
<1>5. Launched'
  BY <1>1, <1>2 DEF Books, Launched
<1>6. QED
  BY <1>1, <1>3, <1>4, <1>5 DEF Books

\* Steps that end the runner.
LEMMA EndedBooks ==
  ASSUME Books, UNCHANGED <<plan, su, failed, stop, verdict>>, rpc' \in Ended
  PROVE  Books'
BY DEF Books, run, Todo

\* A test that is skipped by its attributes has its verdict at once.
LEMMA SkipBooks ==
  ASSUME SlotsInv, Books, SkipByAttr
  PROVE  Books'
<1>1. /\ rpc = "suite" /\ rpc' = "suite" /\ Pending /\ ~failed /\ ~stop
      /\ verdict' = [verdict EXCEPT ![next] = "SKIP"] /\ next' = next + 1
      /\ UNCHANGED <<plan, inv, su, failed, stop>>
  BY DEF SkipByAttr, Launching, testVars
<1>2. rpc \notin Ended /\ rpc' \notin Ended /\ rpc' \notin Begun
  BY <1>1 DEF Ended, Begun
<1>3. run' = run /\ Todo' = Todo
  BY <1>1 DEF run, Todo
<1>4. next \in DOMAIN Todo /\ next \in Nat /\ Todo[next].suite = su /\ DOMAIN Todo \subseteq Nat
  BY <1>1, TodoOf DEF SlotsInv, Pending
<1>5. DOMAIN verdict = DOMAIN Todo /\ \A i \in DOMAIN Todo : verdict[i] \in Outcomes \cup {NoVerdict}
  BY DEF Books
<1>6. /\ DOMAIN verdict' = DOMAIN Todo /\ verdict'[next] = "SKIP"
      /\ \A i \in DOMAIN Todo \ {next} : verdict'[i] = verdict[i]
  BY <1>1, <1>4, <1>5
<1>7. "SKIP" \in Outcomes /\ "SKIP" # NoVerdict /\ ~IsBad("SKIP")
  BY OutcomeIs
<1>8. Slotted /\ Ordered /\ Failing
  BY <1>2 DEF Books
<1>9. Slotted'
  <2>1. ASSUME NEW s \in Slots, inv[s] # 0
        PROVE  inv[s] \in DOMAIN Todo /\ Todo[inv[s]].suite = su /\ verdict'[inv[s]] = NoVerdict
    <3>1. inv[s] # next
      <4>1. inv[s] \in Nat /\ inv[s] < next
        BY <1>1, <1>2 DEF SlotsInv, Shape, Numbered, Begun
      <4>2. QED
        BY <1>4, <4>1
    <3>2. QED
      BY <1>6, <1>8, <2>1, <3>1 DEF Slotted
  <2>2. ASSUME NEW i \in DOMAIN Todo, i >= next + 1
        PROVE  verdict'[i] = NoVerdict
    <3>1. i >= next /\ i # next
      BY <1>4, <2>2
    <3>2. QED
      BY <1>6, <1>8, <3>1 DEF Slotted
  <2>3. QED
    BY <1>1, <1>3, <2>1, <2>2 DEF Slotted
<1>10. Ordered'
  <2>1. ASSUME NEW i \in DOMAIN Todo
        PROVE  /\ i < next + 1 => Todo[i].suite <= su /\ (verdict'[i] # NoVerdict \/ InSlot(i))
               /\ i >= next + 1 => Todo[i].suite >= su
    <3>1. i = next \/ i < next \/ i >= next + 1
      BY <1>4
    <3>2. CASE i = next
      <4>1. su <= su /\ ~(next >= next + 1)
        BY <1>4 DEF Books
      <4>2. QED
        BY <1>4, <1>6, <1>7, <3>2, <4>1
    <3>3. CASE i < next
      BY <1>1, <1>4, <1>6, <1>8, <3>3 DEF Ordered
    <3>4. CASE i >= next + 1
      <4>1. i >= next /\ ~(i < next + 1)
        BY <1>4, <3>4
      <4>2. QED
        BY <1>1, <1>8, <4>1 DEF Ordered
    <3>5. QED
      BY <3>1, <3>2, <3>3, <3>4
  <2>2. QED
    BY <1>1, <1>3, <2>1 DEF Ordered, InSlot
<1>11. Failing'
  <2>1. ASSUME run.failFast, NEW i \in DOMAIN Todo, IsBad(verdict'[i])
        PROVE  FALSE
    <3>1. i # next
      BY <1>6, <1>7, <2>1
    <3>2. IsBad(verdict[i])
      BY <1>6, <2>1, <3>1
    <3>3. QED
      BY <1>1, <1>8, <2>1, <3>2 DEF Failing
  <2>2. QED
    BY <1>1, <1>3, <2>1 DEF Failing
<1>12. Launched'
  BY <1>2 DEF Launched
<1>13. \A i \in DOMAIN Todo : verdict'[i] \in Outcomes \cup {NoVerdict}
  BY <1>5, <1>6, <1>7
<1>14. QED
  BY <1>1, <1>3, <1>6, <1>9, <1>10, <1>11, <1>12, <1>13 DEF Books

\* The next test goes into its slot.
LEMMA LaunchBooks ==
  ASSUME SlotsInv, Books, StartRejected \/ StartIsolated \/ StartInline
  PROVE  Books'
<1> DEFINE s == TakeSlot
<1>1. /\ rpc = "suite" /\ Pending /\ ~failed /\ ~stop
      /\ s \in Slots /\ inv[s] = 0 /\ inv' = [inv EXCEPT ![s] = next]
      /\ UNCHANGED <<plan, su, failed, stop, verdict>>
      /\ \/ rpc' \in Begun /\ next' = next /\ TakeSlot' = s
         \/ rpc' = "suite" /\ next' = next + 1
  BY LaunchIs
<1> HIDE DEF s
<1>2. rpc \notin Ended /\ rpc' \notin Ended /\ "suite" \notin Begun
  BY <1>1 DEF Ended, Begun
<1>3. run' = run /\ Todo' = Todo
  BY <1>1 DEF run, Todo
<1>4. next \in DOMAIN Todo /\ next \in Nat \ {0} /\ Todo[next].suite = su /\ DOMAIN Todo \subseteq Nat
  BY <1>1, TodoOf DEF SlotsInv, Pending
<1>5. DOMAIN inv = Slots /\ inv'[s] = next /\ \A r \in Slots \ {s} : inv'[r] = inv[r]
  BY <1>1 DEF SlotsInv, Shape
<1>6. Slotted /\ Ordered /\ Failing
  BY <1>2 DEF Books
<1>7. Slotted'
  <2>1. verdict[next] = NoVerdict
    BY <1>4, <1>6 DEF Slotted
  <2>2. \A i \in DOMAIN Todo : i >= next' => i >= next
    BY <1>1, <1>4
  <2>3. \A i \in DOMAIN Todo : i >= next' => verdict[i] = NoVerdict
    BY <1>6, <2>2 DEF Slotted
  <2>4. ASSUME NEW r \in Slots, inv'[r] # 0
        PROVE  /\ inv'[r] \in DOMAIN Todo /\ Todo[inv'[r]].suite = su /\ verdict[inv'[r]] = NoVerdict
    BY <1>4, <1>5, <1>6, <2>1, <2>4 DEF Slotted
  <2>5. QED
    BY <1>1, <1>3, <2>3, <2>4 DEF Slotted
<1>8. Ordered'
  <2>1. \A i \in DOMAIN Todo : InSlot(i) => InSlot(i)'
    <3>1. \A i \in DOMAIN Todo : i # 0
      BY TodoOf DEF SlotsInv
    <3>2. QED
      BY <1>1, <1>5, <3>1 DEF InSlot
  <2>2. \A i \in DOMAIN Todo : i = next => InSlot(i)'
    BY <1>1, <1>5 DEF InSlot
  <2>3. ASSUME NEW i \in DOMAIN Todo
        PROVE  /\ i < next' => Todo[i].suite <= su /\ (verdict[i] # NoVerdict \/ InSlot(i)')
               /\ i >= next' => Todo[i].suite >= su
    <3>1. (i < next' => i < next \/ i = next) /\ (i >= next' => i >= next)
      BY <1>1, <1>4
    <3>2. su <= su
      BY DEF Books
    <3>3. QED
      BY <1>1, <1>4, <1>6, <2>1, <2>2, <3>1, <3>2 DEF Ordered
  <2>4. QED
    BY <1>1, <1>3, <2>3 DEF Ordered
<1>9. Failing'
  BY <1>1, <1>3, <1>6 DEF Failing
<1>10. Launched'
  BY <1>1, <1>2, <1>3, <1>5 DEF Launched, Pending
<1>11. QED
  BY <1>1, <1>3, <1>7, <1>8, <1>9, <1>10 DEF Books

\* The test that was begun counts as started.
LEMMA BegunBooks ==
  ASSUME SlotsInv, Books, RecordChild \/ Park
  PROVE  Books'
<1>1. /\ rpc \in Begun /\ rpc' = "suite" /\ next' = next + 1 /\ TakeSlot \in Slots
      /\ UNCHANGED <<plan, inv, su, failed, stop, verdict>>
  BY BegunIs
<1>2. rpc \notin Ended /\ rpc' \notin Ended /\ rpc' \notin Begun
  BY <1>1 DEF Ended, Begun
<1>3. run' = run /\ Todo' = Todo
  BY <1>1 DEF run, Todo
<1>4. Slotted /\ Ordered /\ Failing /\ Pending /\ ~failed /\ ~stop /\ inv[TakeSlot] = next
  BY <1>1, <1>2 DEF Books, Launched
<1>5. next \in DOMAIN Todo /\ next \in Nat \ {0} /\ Todo[next].suite = su /\ DOMAIN Todo \subseteq Nat
  BY <1>4, TodoOf DEF SlotsInv, Pending
<1>6. Slotted'
  <2>1. \A i \in DOMAIN Todo : i >= next + 1 => i >= next
    BY <1>5
  <2>2. QED
    BY <1>1, <1>3, <1>4, <2>1 DEF Slotted
<1>7. Ordered'
  <2>1. ASSUME NEW i \in DOMAIN Todo
        PROVE  /\ i < next + 1 => Todo[i].suite <= su /\ (verdict[i] # NoVerdict \/ InSlot(i))
               /\ i >= next + 1 => Todo[i].suite >= su
    <3>1. (i < next + 1 => i < next \/ i = next) /\ (i >= next + 1 => i >= next)
      BY <1>5
    <3>2. InSlot(next) /\ su <= su
      BY <1>1, <1>4 DEF InSlot, Books
    <3>3. QED
      BY <1>4, <1>5, <3>1, <3>2 DEF Ordered
  <2>2. QED
    BY <1>1, <1>3, <2>1 DEF Ordered, InSlot
<1>8. Failing'
  BY <1>1, <1>3, <1>4 DEF Failing
<1>9. Launched'
  BY <1>2 DEF Launched
<1>10. QED
  BY <1>1, <1>3, <1>6, <1>7, <1>8, <1>9 DEF Books

\* A suite comes to its end: its failures stop the run, or it has left nothing behind.
LEMMA EndSuiteBooks ==
  ASSUME SlotsInv, Books, EndSuite
  PROVE  Books'
<1> DEFINE mine == {i \in DOMAIN Todo : Todo[i].suite = su}
           after == {i + 1 : i \in mine}
<1>1. /\ rpc = "suite" /\ rpc' = "suite" /\ ~Launching /\ nactive = 0 /\ ~stop
      /\ stop' = (run.failFast /\ \E i \in mine : IsBad(verdict[i]))
      /\ next' = Max({next} \cup after) /\ su' = su + 1 /\ failed' = FALSE
      /\ UNCHANGED <<plan, inv, verdict>>
  BY DEF EndSuite, testVars
<1>2. rpc \notin Ended /\ rpc' \notin Ended /\ rpc' \notin Begun /\ rpc \notin Begun
  BY <1>1 DEF Ended, Begun
<1>3. run' = run /\ Todo' = Todo
  BY <1>1 DEF run, Todo
<1>4. Slotted /\ Ordered /\ Failing
  BY <1>2 DEF Books
<1>5. /\ Len(Todo) \in Nat /\ DOMAIN Todo = 1 .. Len(Todo) /\ next \in Nat \ {0}
      /\ \A i, j \in DOMAIN Todo : i <= j => Todo[i].suite <= Todo[j].suite
      /\ \A i \in DOMAIN Todo : Todo[i].suite \in Nat
  BY TodoOf DEF SlotsInv
<1>6. su \in Nat \ {0}
  BY DEF Books
<1>7. next' \in Nat /\ next' >= next /\ next' \in {next} \cup after /\ \A x \in after : x <= next'
  <2>1. \A x \in after : x \in Nat /\ x <= next + Len(Todo) + 1
    BY <1>5
  <2> HIDE DEF after
  <2> DEFINE S == {next} \cup after
             b == next + Len(Todo) + 1
  <2>2. S \subseteq Nat /\ next \in S /\ b \in Nat /\ \A x \in S : x <= b
    BY <1>5, <2>1
  <2>3. next' = Max(S)
    BY <1>1
  <2> HIDE DEF S, b
  <2>4. Max(S) \in S /\ \A x \in S : x <= Max(S)
    BY <2>2, MaxIs
  <2> USE DEF S
  <2>5. QED
    BY <1>5, <2>2, <2>3, <2>4
<1>8. \A s \in Slots : inv[s] = 0
  <2>1. InFlight = {}
    BY <1>1 DEF InFlight
  <2>2. Starting = {}
    BY <1>2 DEF Starting, Begun
  <2>3. QED
    BY <1>2, <2>1, <2>2 DEF SlotsInv, Placed
<1>9. Slotted'
  <2>1. \A i \in DOMAIN Todo : i >= next' => i >= next
    BY <1>5, <1>7
  <2>2. QED
    BY <1>1, <1>3, <1>4, <1>8, <2>1 DEF Slotted
<1>10. ASSUME ~stop'
       PROVE  /\ next' = next
              /\ \A i \in DOMAIN Todo : i >= next => Todo[i].suite >= su + 1
              /\ run.failFast => \A i \in DOMAIN Todo : ~IsBad(verdict[i])
  <2>1. ~failed /\ ~Pending
    BY <1>1, <1>4, <1>10 DEF Failing, Launching
  <2>2. \A i \in DOMAIN Todo : i >= next => Todo[i].suite >= su + 1
    <3>1. SUFFICES ASSUME NEW i \in DOMAIN Todo, i >= next
                   PROVE  Todo[i].suite >= su + 1
      OBVIOUS
    <3>2. next \in DOMAIN Todo /\ next <= Len(Todo)
      BY <1>5, <3>1
    <3>3. Todo[next].suite # su /\ Todo[next].suite >= su
      BY <1>1, <1>4, <1>5, <2>1, <3>2 DEF Pending, Ordered
    <3>4. Todo[next].suite <= Todo[i].suite
      BY <1>5, <3>1, <3>2
    <3>5. QED
      BY <1>5, <1>6, <3>1, <3>2, <3>3, <3>4
  <2>3. \A x \in after : x <= next
    <3>1. ASSUME NEW i \in mine
          PROVE  i + 1 <= next
      <4>1. ~(i >= next)
        BY <1>5, <1>6, <2>2, <3>1
      <4>2. QED
        BY <1>5, <3>1, <4>1
    <3>2. QED
      BY <3>1
  <2>4. next' = next
    <3> HIDE DEF after
    <3>1. next' \in after => next' <= next
      BY <2>3
    <3>2. QED
      BY <1>5, <1>7, <3>1
  <2>5. run.failFast => \A i \in DOMAIN Todo : ~IsBad(verdict[i])
    BY <1>1, <1>4, <1>10 DEF Failing
  <2>6. QED
    BY <2>2, <2>4, <2>5
<1>11. Ordered'
  <2>1. ASSUME ~stop', NEW i \in DOMAIN Todo
        PROVE  /\ i < next' => Todo[i].suite <= su + 1 /\ (verdict[i] # NoVerdict \/ InSlot(i))
               /\ i >= next' => Todo[i].suite >= su + 1
    <3>1. Todo[i].suite <= su => Todo[i].suite <= su + 1
      BY <1>5, <1>6
    <3>2. QED
      BY <1>1, <1>4, <1>10, <2>1, <3>1 DEF Ordered
  <2>2. QED
    BY <1>1, <1>3, <2>1 DEF Ordered, InSlot
<1>12. Failing'
  <2>1. stop' => run.failFast /\ \E i \in DOMAIN Todo : IsBad(verdict[i])
    BY <1>1
  <2>2. QED
    BY <1>1, <1>3, <1>10, <2>1 DEF Failing
<1>13. Launched'
  BY <1>2 DEF Launched
<1>14. stop' \in BOOLEAN /\ failed' \in BOOLEAN /\ su' \in Nat \ {0}
  <2>1. run.failFast \in BOOLEAN
    BY TodoOf DEF SlotsInv
  <2>2. stop' \in BOOLEAN
    BY <1>1
  <2>3. su' \in Nat \ {0}
    BY <1>1, <1>6
  <2>4. QED
    BY <1>1, <2>2, <2>3
<1>15. QED
  BY <1>1, <1>3, <1>9, <1>11, <1>12, <1>13, <1>14 DEF Books

\* A test is reported; with fail_fast, its failure keeps the suite from going on.
LEMMA CollectBooks ==
  ASSUME SlotsInv, VerdictInv, Books, Collect
  PROVE  Books'
<1>1. rpc \notin Ended /\ UNCHANGED <<plan, su, next, stop>>
  BY CollectIs
<1>2. CASE rpc' \in {"fatal", "unreachable"} /\ UNCHANGED <<inv, verdict, failed>>
  BY <1>1, <1>2, EndedBooks DEF Ended
<1>3. ASSUME NEW s \in Slots, NEW v \in Outcomes, inv[s] # 0, rpc' = "suite",
             inv' = [inv EXCEPT ![s] = 0], verdict' = [verdict EXCEPT ![inv[s]] = v],
             failed' = (failed \/ (Pending /\ run.failFast /\ IsBad(v)))
      PROVE  Books'
  <2> DEFINE n == inv[s]
  <2>1. Slotted /\ Ordered /\ Failing
    BY <1>1 DEF Books
  <2>2. n \in DOMAIN Todo /\ Todo[n].suite = su /\ verdict[n] = NoVerdict /\ n # 0
    BY <1>3, <2>1 DEF Slotted
  <2>3. run' = run /\ Todo' = Todo /\ (Pending' <=> Pending)
    BY <1>1 DEF run, Todo, Pending
  <2>4. DOMAIN inv = Slots /\ inv'[s] = 0 /\ \A r \in Slots \ {s} : inv'[r] = inv[r] /\ (inv[r] = n => FALSE)
    BY <1>3 DEF SlotsInv, Shape, Numbered
  <2>5. DOMAIN verdict = DOMAIN Todo /\ \A i \in DOMAIN Todo : verdict[i] \in Outcomes \cup {NoVerdict}
    BY DEF Books
  <2>6. DOMAIN verdict' = DOMAIN Todo /\ verdict'[n] = v /\ \A i \in DOMAIN Todo \ {n} : verdict'[i] = verdict[i]
    BY <1>3, <2>2, <2>5
  <2>7. v # NoVerdict /\ ~IsBad(NoVerdict)
    BY OutcomeIs
  <2>8. n < next \/ stop \/ n >= next
    BY TodoOf, <2>2 DEF SlotsInv
  <2> HIDE DEF n
  <2>9. Slotted'
    <3>1. ASSUME NEW r \in Slots, inv'[r] # 0
          PROVE  inv'[r] \in DOMAIN Todo /\ Todo[inv'[r]].suite = su /\ verdict'[inv'[r]] = NoVerdict
      <4>1. r # s /\ inv'[r] = inv[r] /\ inv[r] # n /\ inv[r] # 0
        BY <2>4, <3>1
      <4>2. QED
        BY <2>1, <2>6, <4>1 DEF Slotted
    <3>2. ~(n >= next)
      <4>1. n \in Nat /\ n < next /\ next \in Nat
        <5>1. rpc \notin Begun
          <6>1. rpc \in Busy
            BY DEF Collect, CollectParked, CollectEnded, CollectKilled, Busy
          <6>2. QED
            BY <6>1 DEF Begun, Busy
        <5>2. QED
          BY <1>1, <5>1 DEF n, SlotsInv, Shape, Numbered
      <4>2. QED
        BY <4>1
    <3>3. \A i \in DOMAIN Todo : i >= next => verdict'[i] = NoVerdict
      BY <2>1, <2>6, <3>2 DEF Slotted
    <3>4. QED
      BY <1>1, <2>3, <3>1, <3>3 DEF Slotted
  <2>10. Ordered'
    <3>1. ASSUME NEW i \in DOMAIN Todo, i # n
          PROVE  InSlot(i) => InSlot(i)'
      <4>1. ASSUME NEW r \in Slots, inv[r] = i
            PROVE  InSlot(i)'
        <5>1. r # s
          BY <3>1, <4>1 DEF n
        <5>2. QED
          BY <2>4, <4>1, <5>1 DEF InSlot
      <4>2. QED
        BY <4>1 DEF InSlot
    <3>2. ASSUME ~stop, NEW i \in DOMAIN Todo
          PROVE  /\ i < next => Todo[i].suite <= su /\ (verdict'[i] # NoVerdict \/ InSlot(i)')
                 /\ i >= next => Todo[i].suite >= su
      BY <2>1, <2>2, <2>6, <2>7, <3>1, <3>2 DEF Ordered
    <3>3. QED
      BY <1>1, <2>3, <3>2 DEF Ordered
  <2>11. Failing'
    <3>1. \A i \in DOMAIN Todo : IsBad(verdict'[i]) => IsBad(verdict[i]) \/ (i = n /\ IsBad(v))
      BY <2>6
    <3>2. \A i \in DOMAIN Todo : IsBad(verdict[i]) => IsBad(verdict'[i])
      BY <2>2, <2>6, <2>7
    <3>3. failed' => run.failFast /\ \E i \in DOMAIN Todo : IsBad(verdict'[i]) /\ Todo[i].suite = su
      BY <1>3, <2>1, <2>2, <2>6, <3>2 DEF Failing
    <3>4. stop => run.failFast /\ \E i \in DOMAIN Todo : IsBad(verdict'[i])
      BY <2>1, <3>2 DEF Failing
    <3>5. ASSUME ~stop, run.failFast, NEW i \in DOMAIN Todo, IsBad(verdict'[i])
          PROVE  Todo[i].suite = su /\ (failed' \/ ~Pending)
      BY <1>3, <2>1, <2>2, <3>1, <3>5 DEF Failing
    <3>6. QED
      BY <1>1, <2>3, <3>3, <3>4, <3>5 DEF Failing
  <2>12. Launched'
    BY <1>3 DEF Launched, Begun
  <2>13. failed' \in BOOLEAN
    BY <1>3
  <2>14. \A i \in DOMAIN Todo : verdict'[i] \in Outcomes \cup {NoVerdict}
    BY <2>5, <2>6
  <2>15. QED
    BY <1>1, <2>3, <2>6, <2>9, <2>10, <2>11, <2>12, <2>13, <2>14 DEF Books
<1>4. QED
  BY <1>2, <1>3, CollectIs

\* Nothing has been started at first.
LEMMA InitBooks ==
  ASSUME Init
  PROVE  Books
<1>1. /\ rpc = "suite" /\ su = 1 /\ next = 1 /\ failed = FALSE /\ stop = FALSE
      /\ inv = [s \in Slots |-> 0] /\ verdict = [i \in DOMAIN Todo |-> NoVerdict]
  BY DEF Init, Todo
<1>2. Shape
  BY SlotsInit DEF SlotsInv
<1>3. /\ DOMAIN Todo = 1 .. Len(Todo) /\ Len(Todo) \in Nat
      /\ \A i \in DOMAIN Todo : Todo[i].suite >= 1 /\ ~(i < 1)
  BY <1>2, TodoOf
<1>4. ~IsBad(NoVerdict)
  BY OutcomeIs
<1>5. rpc \notin Begun
  BY <1>1 DEF Begun
<1>6. Slotted /\ Ordered
  BY <1>1, <1>3 DEF Slotted, Ordered
<1>7. Failing
  BY <1>1, <1>4 DEF Failing
<1>8. Launched
  BY <1>5 DEF Launched
<1>9. DOMAIN verdict = DOMAIN Todo /\ \A i \in DOMAIN Todo : verdict[i] = NoVerdict
  BY <1>1
<1>10. su \in Nat \ {0} /\ stop \in BOOLEAN /\ failed \in BOOLEAN
  <2>1. stop \in BOOLEAN /\ failed \in BOOLEAN
    BY <1>1
  <2>2. su \in Nat \ {0}
    BY <1>1
  <2>3. QED
    BY <2>1, <2>2
<1>11. QED
  BY <1>6, <1>7, <1>8, <1>9, <1>10 DEF Books

\* Every step keeps them.
LEMMA NextBooks ==
  ASSUME SlotsInv, VerdictInv, Books, [Next]_vars
  PROVE  Books'
<1>1. CASE RunnerStep
  <2>1. CASE EndRun
    BY <2>1, EndedBooks DEF EndRun, Ended, testVars
  <2>2. CASE Quiet
    BY <2>2, QuietIs, SameBooks
  <2>3. QED
    BY <1>1, <2>1, <2>2, SkipBooks, LaunchBooks, BegunBooks, EndSuiteBooks, CollectBooks
       DEF RunnerStep, Collect, Quiet
<1>2. CASE ExitInline \/ Signalled
  BY <1>2, EndedBooks DEF ExitInline, Signalled, Ended, testVars
<1>3. ASSUME NEW s \in Slots, TestRuns(s) \/ DeadlinePasses(s) \/ DescendantEnds(s)
      PROVE  Books'
  BY <1>3, OthersAre, SameBooks
<1>4. CASE UNCHANGED vars
  <2>1. /\ UNCHANGED <<plan, inv, su, next, failed, stop, verdict, rpc, active, nactive>>
    BY <1>4 DEF vars, testVars, runVars
  <2>2. CASE rpc \in Ended
    BY <2>1, <2>2, EndedBooks
  <2>3. CASE rpc \notin Ended
    BY <2>1, <2>3, SameBooks DEF TakeSlot
  <2>4. QED
    BY <2>2, <2>3
<1>5. QED
  BY <1>1, <1>2, <1>3, <1>4 DEF Next, Over

\* The values of the variables of TestRun.
SuitesOf == [i \in DOMAIN Todo |-> Todo[i].suite]
StatusesOf == [i \in DOMAIN Todo |-> StatusOf(i)]
ResultOf == CASE rpc = "done" -> result [] rpc \in Ended \ {"done"} -> "aborted" [] OTHER -> "none"

\* What has become of an invocation, in the words of TestRun.
LEMMA StatusIs ==
  ASSUME Books, NEW i \in DOMAIN Todo
  PROVE  /\ StatusOf(i) = "waiting" <=> verdict[i] = NoVerdict /\ ~InSlot(i)
         /\ StatusOf(i) = "running" <=> verdict[i] = NoVerdict /\ InSlot(i)
         /\ verdict[i] # NoVerdict => StatusOf(i) = verdict[i]
         /\ StatusOf(i) \in Good <=> verdict[i] \in Good
         /\ IsBad(StatusOf(i)) <=> IsBad(verdict[i])
<1>1. verdict[i] \in Outcomes \cup {NoVerdict}
  BY DEF Books
<1>2. QED
  BY <1>1, OutcomeIs DEF StatusOf, InSlot

\* While the runner runs, and when it is gone.
LEMMA ResultIs ==
  /\ rpc \notin Ended => ResultOf = "none"
  /\ rpc = "done" => ResultOf = result
  /\ rpc \in Ended \ {"done"} => ResultOf = "aborted"
BY DEF ResultOf, Ended

\* A step that changes neither verdicts nor slots, nor ends the runner, is no step of
\* TestRun.
LEMMA StutterIs ==
  ASSUME rpc \notin Ended, rpc' \notin Ended, UNCHANGED <<plan, inv, verdict>>
  PROVE  UNCHANGED Abstract!vars
<1>1. run' = run /\ Todo' = Todo
  BY DEF run, Todo
<1>2. \A i : StatusOf(i)' = StatusOf(i)
  BY DEF StatusOf
<1>3. ResultOf' = "none" /\ ResultOf = "none"
  BY DEF ResultOf, Ended
<1>4. QED
  BY <1>1, <1>2, <1>3 DEF Abstract!vars, ResultOf

\* No more invocations run than there are slots in flight.
LEMMA RunningIs ==
  ASSUME SlotsInv, Books, rpc \notin Ended \cup Begun
  PROVE  LET R == {i \in DOMAIN Todo : StatusOf(i) = "running"}
         IN  IsFiniteSet(R) /\ Cardinality(R) <= nactive
<1> DEFINE R == {i \in DOMAIN Todo : StatusOf(i) = "running"}
           f == [k \in 1 .. nactive |-> inv[active[k]]]
           T == {f[k] : k \in 1 .. nactive}
<1>1. nactive \in Nat
  BY ActiveIs DEF SlotsInv
<1>2. f \in Surjection(1 .. nactive, T)
  BY DEF Surjection
<1>3. IsFiniteSet(1 .. nactive) /\ Cardinality(1 .. nactive) = nactive
  BY <1>1, FS_Interval
<1>4. R \subseteq T
  <2>1. ASSUME NEW i \in R
        PROVE  i \in T
    <3>1. PICK s \in Slots : inv[s] = i
      BY StatusIs DEF InSlot
    <3>2. i # 0
      BY TodoOf DEF SlotsInv
    <3>3. s \in InFlight
      BY <3>1, <3>2 DEF SlotsInv, Placed, Starting, Begun
    <3>4. PICK k \in 1 .. nactive : s = active[k]
      BY <3>3 DEF InFlight
    <3>5. QED
      BY <3>1, <3>4
  <2>2. QED
    BY <2>1
<1> HIDE DEF R, f, T
<1>5. IsFiniteSet(T) /\ Cardinality(T) <= nactive
  BY <1>2, <1>3, FS_Surjection
<1>6. IsFiniteSet(R) /\ Cardinality(R) <= Cardinality(T) /\ Cardinality(R) \in Nat
      /\ Cardinality(T) \in Nat
  BY <1>4, <1>5, FS_Subset, FS_CardinalityType
<1>7. QED
  BY <1>1, <1>5, <1>6 DEF R

\* When the runner starts or skips the next test, TestRun allows it.
LEMMA MayBeginIs ==
  ASSUME SlotsInv, Books, rpc = "suite", Pending, ~failed, ~stop
  PROVE  Abstract!MayBegin(next)
<1>1. rpc \notin Ended /\ rpc \notin Begun
  BY DEF Ended, Begun
<1>2. Slotted /\ Ordered /\ Failing
  BY <1>1 DEF Books
<1>3. /\ next \in DOMAIN Todo /\ Todo[next].suite = su /\ next \in Nat \ {0}
      /\ DOMAIN Todo = 1 .. Len(Todo) /\ Len(Todo) \in Nat
  BY TodoOf DEF SlotsInv, Pending
<1>4. \A s \in Slots : inv[s] # next
  BY <1>1, <1>3 DEF SlotsInv, Shape, Numbered
<1>5. StatusOf(next) = "waiting"
  <2>1. verdict[next] = NoVerdict
    BY <1>2, <1>3 DEF Slotted
  <2>2. QED
    BY <1>4, <2>1 DEF StatusOf
<1>6. \A j \in 1 .. next - 1 : j \in DOMAIN Todo /\ StatusOf(j) # "waiting"
  <2>1. ASSUME NEW j \in 1 .. next - 1
        PROVE  j \in DOMAIN Todo /\ StatusOf(j) # "waiting"
    <3>1. j \in DOMAIN Todo /\ j < next
      BY <1>3
    <3>2. verdict[j] # NoVerdict \/ InSlot(j)
      BY <1>2, <3>1 DEF Ordered
    <3>3. QED
      BY <3>1, <3>2, StatusIs
  <2>2. QED
    BY <2>1
<1>7. \A j \in DOMAIN Todo : StatusOf(j) = "running" => Todo[j].suite = su
  <2>1. ASSUME NEW j \in DOMAIN Todo, StatusOf(j) = "running"
        PROVE  Todo[j].suite = su
    <3>1. PICK s \in Slots : inv[s] = j
      BY <2>1, StatusIs DEF InSlot
    <3>2. j # 0
      BY <1>3
    <3>3. QED
      BY <1>2, <3>1, <3>2 DEF Slotted
  <2>2. QED
    BY <2>1
<1>8. run.failFast => \A j \in DOMAIN Todo : ~IsBad(StatusOf(j))
  BY <1>2, StatusIs DEF Failing
<1>9. ResultOf = "none"
  BY <1>1, ResultIs
<1>10. StatusesOf[next] = "waiting" /\ \A j \in DOMAIN Todo : StatusesOf[j] = StatusOf(j)
  BY <1>3, <1>5 DEF StatusesOf
<1>11. \A j \in DOMAIN Todo : SuitesOf[j] = Todo[j].suite
  BY DEF SuitesOf
<1>12. QED
  <2>1. DOMAIN SuitesOf = DOMAIN Todo
    BY DEF SuitesOf
  <2>2. \A j \in 1 .. next - 1 : StatusesOf[j] # "waiting"
    BY <1>6, <1>10
  <2>3. \A j \in {k \in DOMAIN SuitesOf : StatusesOf[k] = "running"} : SuitesOf[j] = SuitesOf[next]
    BY <1>3, <1>7, <1>10, <1>11, <2>1
  <2>4. ~(run.failFast /\ {k \in DOMAIN SuitesOf : StatusesOf[k] \in Outcomes \ {"PASSED", "SKIP"}} # {})
    BY <1>8, <1>10, <2>1 DEF IsBad, Good
  <2>5. QED
    BY <1>9, <1>10, <2>2, <2>3, <2>4
       DEF Abstract!MayBegin, Abstract!In, Abstract!Items, Abstract!Bad, Abstract!Good,
           SuitesOf, StatusesOf, ResultOf

\* A step that changes the status of invocation i, and nothing else that TestRun sees.
LEMMA StatusChanges ==
  ASSUME NEW i \in DOMAIN Todo, NEW st, plan' = plan, rpc \notin Ended, rpc' \notin Ended,
         StatusOf(i)' = st, \A j \in DOMAIN Todo \ {i} : StatusOf(j)' = StatusOf(j)
  PROVE  /\ StatusesOf' = [StatusesOf EXCEPT ![i] = st]
         /\ SuitesOf' = SuitesOf /\ run' = run /\ ResultOf' = ResultOf
<1>1. run' = run /\ Todo' = Todo
  BY DEF run, Todo
<1>2. StatusesOf' = [j \in DOMAIN Todo |-> StatusOf(j)']
  BY <1>1 DEF StatusesOf
<1>3. [StatusesOf EXCEPT ![i] = st] = [j \in DOMAIN Todo |-> IF j = i THEN st ELSE StatusOf(j)]
  BY DEF StatusesOf
<1>4. StatusesOf' = [StatusesOf EXCEPT ![i] = st]
  BY <1>2, <1>3
<1>5. ResultOf' = ResultOf
  BY DEF ResultOf, Ended
<1>6. QED
  BY <1>1, <1>4, <1>5 DEF SuitesOf

\* A test that its attributes skip.
LEMMA SkipMaps ==
  ASSUME SlotsInv, Books, Books', SkipByAttr
  PROVE  Abstract!Next
<1>1. /\ rpc = "suite" /\ rpc' = "suite" /\ Pending /\ ~failed /\ ~stop
      /\ verdict' = [verdict EXCEPT ![next] = "SKIP"] /\ UNCHANGED <<plan, inv>>
  BY DEF SkipByAttr, Launching, testVars
<1>2. PICK i \in DOMAIN Todo : i = next
  BY <1>1, TodoOf DEF SlotsInv, Pending
<1>3. Abstract!MayBegin(i)
  BY <1>1, <1>2, MayBeginIs
<1>4. rpc \notin Ended /\ rpc' \notin Ended
  BY <1>1 DEF Ended
<1>5. verdict'[i] = "SKIP" /\ \A j \in DOMAIN Todo \ {i} : verdict'[j] = verdict[j]
  BY <1>1, <1>2 DEF Books
<1>6. StatusOf(i)' = "SKIP" /\ \A j \in DOMAIN Todo \ {i} : StatusOf(j)' = StatusOf(j)
  BY <1>1, <1>5, OutcomeIs DEF StatusOf, NoVerdict
<1>7. /\ StatusesOf' = [StatusesOf EXCEPT ![i] = "SKIP"]
      /\ SuitesOf' = SuitesOf /\ run' = run /\ ResultOf' = ResultOf
  BY <1>1, <1>4, <1>6, StatusChanges
<1>8. Abstract!SkipIt(i)
  BY <1>3, <1>7 DEF Abstract!SkipIt, SuitesOf, StatusesOf, ResultOf
<1>9. i \in Abstract!In("waiting")
  BY <1>2, <1>3 DEF Abstract!In, Abstract!Items, Abstract!MayBegin
<1>10. QED
  BY <1>8, <1>9 DEF Abstract!Next

\* A test that starts.
LEMMA LaunchMaps ==
  ASSUME SlotsInv, Books, StartRejected \/ StartIsolated \/ StartInline
  PROVE  Abstract!Next
<1> DEFINE s == TakeSlot
<1>1. /\ rpc = "suite" /\ Pending /\ ~failed /\ ~stop /\ nactive < run.jobs
      /\ s \in Slots /\ inv[s] = 0 /\ inv' = [inv EXCEPT ![s] = next]
      /\ UNCHANGED <<plan, verdict>> /\ rpc' \in {"suite"} \cup Begun
  BY LaunchIs
<1> HIDE DEF s
<1>2. PICK i \in DOMAIN Todo : i = next
  BY <1>1, TodoOf DEF SlotsInv, Pending
<1>3. Abstract!MayBegin(i)
  BY <1>1, <1>2, MayBeginIs
<1>4. rpc \notin Ended /\ rpc' \notin Ended /\ rpc \notin Begun
  BY <1>1 DEF Ended, Begun
<1>5. inv'[s] = i /\ \A r \in Slots \ {s} : inv'[r] = inv[r]
  BY <1>1, <1>2 DEF SlotsInv, Shape
<1>6. i # 0 /\ \A j \in DOMAIN Todo : j # 0
  BY TodoOf DEF SlotsInv
<1>7. verdict[i] = NoVerdict
  <2>1. i >= next
    BY <1>2, TodoOf DEF SlotsInv
  <2>2. QED
    BY <1>4, <2>1 DEF Books, Slotted
<1>8. StatusOf(i)' = "running"
  BY <1>1, <1>5, <1>7 DEF StatusOf
<1>9. ASSUME NEW j \in DOMAIN Todo \ {i}
      PROVE  StatusOf(j)' = StatusOf(j)
  <2>1. (\E r \in Slots : inv'[r] = j) <=> (\E r \in Slots : inv[r] = j)
    BY <1>1, <1>5, <1>6, <1>9
  <2>2. QED
    BY <1>1, <2>1 DEF StatusOf
<1>10. /\ StatusesOf' = [StatusesOf EXCEPT ![i] = "running"]
       /\ SuitesOf' = SuitesOf /\ run' = run /\ ResultOf' = ResultOf
  BY <1>1, <1>4, <1>8, <1>9, StatusChanges
<1>11. Abstract!Cardinality(Abstract!In("running")) < run.jobs
  <2>1. Abstract!In("running") = {j \in DOMAIN Todo : StatusOf(j) = "running"}
    BY DEF Abstract!In, Abstract!Items
  <2> DEFINE R == {j \in DOMAIN Todo : StatusOf(j) = "running"}
  <2>2. IsFiniteSet(R) /\ Cardinality(R) <= nactive
    BY <1>4, RunningIs
  <2> HIDE DEF R
  <2>3. Cardinality(R) \in Nat /\ nactive \in Nat /\ run.jobs \in Nat
    BY <2>2, FS_CardinalityType, ActiveIs DEF SlotsInv
  <2>4. Cardinality(R) < run.jobs
    BY <1>1, <2>2, <2>3
  <2>5. Abstract!Cardinality(R) = Cardinality(R)
    BY DEF Abstract!Cardinality, Cardinality
  <2>6. QED
    BY <2>1, <2>4, <2>5 DEF R
<1>12. Abstract!Begin(i)
  BY <1>3, <1>10, <1>11 DEF Abstract!Begin, SuitesOf, StatusesOf, ResultOf
<1>13. i \in Abstract!In("waiting")
  BY <1>2, <1>3 DEF Abstract!In, Abstract!Items, Abstract!MayBegin
<1>14. QED
  BY <1>12, <1>13 DEF Abstract!Next

\* The runner aborts, or is ended by a test or a signal.
LEMMA AbortMaps ==
  ASSUME rpc \notin Ended, rpc' \in Ended \ {"done"}, UNCHANGED <<plan, inv, verdict>>
  PROVE  Abstract!Next
<1>1. run' = run /\ Todo' = Todo
  BY DEF run, Todo
<1>2. \A j : StatusOf(j)' = StatusOf(j)
  BY DEF StatusOf
<1>3. StatusesOf' = StatusesOf /\ SuitesOf' = SuitesOf
  BY <1>1, <1>2 DEF StatusesOf, SuitesOf
<1>4. ResultOf = "none" /\ ResultOf' = "aborted"
  BY DEF ResultOf, Ended
<1>5. Abstract!Abort
  BY <1>1, <1>3, <1>4 DEF Abstract!Abort, SuitesOf, StatusesOf, ResultOf
<1>6. QED
  BY <1>5 DEF Abstract!Next

\* A verdict is reported.
LEMMA CollectMaps ==
  ASSUME SlotsInv, VerdictInv, Books, Collect
  PROVE  Abstract!Next
<1>1. rpc \notin Ended /\ plan' = plan
  BY CollectIs
<1>2. CASE rpc' \in {"fatal", "unreachable"} /\ UNCHANGED <<inv, verdict, failed>>
  BY <1>1, <1>2, AbortMaps DEF Ended
<1>3. ASSUME NEW s \in Slots, NEW v \in Outcomes, inv[s] # 0, rpc' = "suite",
             inv' = [inv EXCEPT ![s] = 0], verdict' = [verdict EXCEPT ![inv[s]] = v]
      PROVE  Abstract!Next
  <2>1. PICK i \in DOMAIN Todo : i = inv[s] /\ verdict[i] = NoVerdict
    BY <1>1, <1>3 DEF Books, Slotted
  <2>2. rpc' \notin Ended
    BY <1>3 DEF Ended
  <2>3. /\ inv'[s] = 0 /\ \A r \in Slots \ {s} : inv'[r] = inv[r]
        /\ \A j \in DOMAIN Todo : j # 0
    BY <1>3, TodoOf DEF SlotsInv, Shape
  <2>4. verdict'[i] = v /\ \A j \in DOMAIN Todo \ {i} : verdict'[j] = verdict[j]
    BY <1>3, <2>1 DEF Books
  <2>5. StatusOf(i) = "running"
    BY <2>1 DEF StatusOf
  <2>6. StatusOf(i)' = v
    BY <2>4, OutcomeIs DEF StatusOf, NoVerdict
  <2>7. ASSUME NEW j \in DOMAIN Todo \ {i}
        PROVE  StatusOf(j)' = StatusOf(j)
    <3>1. (\E r \in Slots : inv'[r] = j) <=> (\E r \in Slots : inv[r] = j)
      BY <2>1, <2>3, <2>7
    <3>2. QED
      BY <2>4, <2>7, <3>1 DEF StatusOf, NoVerdict
  <2>8. /\ StatusesOf' = [StatusesOf EXCEPT ![i] = v]
        /\ SuitesOf' = SuitesOf /\ run' = run /\ ResultOf' = ResultOf
    BY <1>1, <2>2, <2>6, <2>7, StatusChanges
  <2>9. ResultOf = "none" /\ StatusesOf[i] = "running"
    BY <1>1, <2>5, ResultIs DEF StatusesOf
  <2>10. Abstract!Report(i, v)
    BY <2>8, <2>9 DEF Abstract!Report, SuitesOf, StatusesOf, ResultOf
  <2>11. i \in Abstract!In("running")
    BY <2>5 DEF Abstract!In, Abstract!Items
  <2>12. QED
    BY <2>10, <2>11 DEF Abstract!Next
<1>4. QED
  BY <1>2, <1>3, CollectIs

\* The run is over: every test was reported, or a failure has stopped it.
LEMMA EndMaps ==
  ASSUME SlotsInv, Books, EndRun
  PROVE  Abstract!Next
<1> DEFINE good == {i \in DOMAIN Todo : verdict[i] \in Good}
<1>1. /\ rpc = "suite" /\ rpc' = "done" /\ nactive = 0 /\ (stop \/ su > Len(run.suites))
      /\ result' = IF Cardinality(good) # Len(Todo) THEN "failure" ELSE "success"
      /\ UNCHANGED <<plan, inv, verdict>>
  BY DEF EndRun, testVars
<1>2. rpc \notin Ended /\ rpc \notin Begun
  BY <1>1 DEF Ended, Begun
<1>3. run' = run /\ Todo' = Todo
  BY <1>1 DEF run, Todo
<1>4. \A j : StatusOf(j)' = StatusOf(j)
  BY <1>1 DEF StatusOf
<1>5. StatusesOf' = StatusesOf /\ SuitesOf' = SuitesOf
  BY <1>3, <1>4 DEF StatusesOf, SuitesOf
<1>6. ResultOf = "none" /\ ResultOf' = result'
  BY <1>1 DEF ResultOf, Ended
<1>7. \A i \in DOMAIN Todo : ~InSlot(i)
  <2>1. InFlight = {} /\ Starting = {}
    BY <1>1 DEF InFlight, Starting
  <2>2. \A s \in Slots : inv[s] = 0
    BY <1>2, <2>1 DEF SlotsInv, Placed
  <2>3. \A i \in DOMAIN Todo : i # 0
    BY TodoOf DEF SlotsInv
  <2>4. QED
    BY <2>2, <2>3 DEF InSlot
<1>8. \A i \in DOMAIN Todo : StatusOf(i) # "running"
  BY <1>7, StatusIs
<1>9. (\A i \in DOMAIN Todo : StatusOf(i) # "waiting")
      \/ (run.failFast /\ \E i \in DOMAIN Todo : IsBad(StatusOf(i)))
  <2>1. CASE stop
    BY <1>2, <2>1, StatusIs DEF Books, Failing
  <2>2. CASE ~stop
    <3>1. \A i \in DOMAIN Todo : i < next
      <4>1. SUFFICES ASSUME NEW i \in DOMAIN Todo, i >= next
                     PROVE  FALSE
        BY TodoOf DEF SlotsInv
      <4>2. Todo[i].suite >= su
        BY <1>2, <2>2, <4>1 DEF Books, Ordered
      <4>3. Todo[i].suite \in 1 .. Len(run.suites) /\ Len(run.suites) \in Nat /\ su \in Nat
        BY TodoOf DEF SlotsInv, Books
      <4>4. QED
        BY <1>1, <2>2, <4>2, <4>3
    <3>2. \A i \in DOMAIN Todo : verdict[i] # NoVerdict \/ InSlot(i)
      BY <1>2, <2>2, <3>1 DEF Books, Ordered
    <3>3. QED
      BY <3>2, StatusIs
  <2>3. QED
    BY <2>1, <2>2
<1>10. result' = IF \A i \in DOMAIN Todo : StatusOf(i) \in Good THEN "success" ELSE "failure"
  <2>1. DOMAIN Todo = 1 .. Len(Todo) /\ Len(Todo) \in Nat
    BY TodoOf DEF SlotsInv
  <2>2. IsFiniteSet(DOMAIN Todo) /\ Cardinality(DOMAIN Todo) = Len(Todo)
    <3>1. ASSUME NEW n \in Nat
          PROVE  IsFiniteSet(1 .. n) /\ Cardinality(1 .. n) = n
      BY 1 \in Int, n \in Int, FS_Interval
    <3>2. QED
      BY <2>1, <3>1
  <2>3. good \in SUBSET DOMAIN Todo /\ (good = DOMAIN Todo <=> \A i \in DOMAIN Todo : StatusOf(i) \in Good)
    BY StatusIs
  <2> HIDE DEF good
  <2>4. Cardinality(good) = Len(Todo) <=> good = DOMAIN Todo
    BY <2>2, <2>3, FS_Subset
  <2>5. QED
    BY <1>1, <2>3, <2>4
<1>11. Abstract!In("running") = {}
  BY <1>8 DEF Abstract!In, Abstract!Items
<1>12. Abstract!In("waiting") = {} \/ (run.failFast /\ Abstract!Bad # {})
  <2>1. CASE \A i \in DOMAIN Todo : StatusOf(i) # "waiting"
    BY <2>1 DEF Abstract!In, Abstract!Items
  <2>2. CASE run.failFast /\ \E i \in DOMAIN Todo : IsBad(StatusOf(i))
    BY <2>2 DEF Abstract!Bad, Abstract!Items, Abstract!Good, IsBad, Good
  <2>3. QED
    BY <1>9, <2>1, <2>2
<1>13. (\A i \in Abstract!Items : [k \in DOMAIN Todo |-> StatusOf(k)][i] \in Abstract!Good)
       <=> \A i \in DOMAIN Todo : StatusOf(i) \in Good
  BY DEF Abstract!Items, Abstract!Good, Good
<1>14. Abstract!End
  BY <1>3, <1>5, <1>6, <1>10, <1>11, <1>12, <1>13 DEF Abstract!End, SuitesOf, StatusesOf, ResultOf
<1>15. QED
  BY <1>14 DEF Abstract!Next

\* The runner starts as TestRun does.
LEMMA InitMaps ==
  ASSUME Init
  PROVE  Abstract!Init
<1>1. /\ rpc = "suite" /\ inv = [s \in Slots |-> 0] /\ verdict = [i \in DOMAIN Todo |-> NoVerdict]
  BY DEF Init, Todo
<1>2. Shape
  BY SlotsInit DEF SlotsInv
<1>3. /\ DOMAIN Todo = 1 .. Len(Todo) /\ Len(Todo) \in Nat /\ run.failFast \in BOOLEAN
      /\ \A i \in DOMAIN Todo : Todo[i].suite \in Nat
  BY <1>2, TodoOf
<1>4. SuitesOf \in Seq(Nat)
  BY <1>3 DEF SuitesOf
<1>5. ASSUME NEW i \in DOMAIN Todo
      PROVE  StatusOf(i) = "waiting"
  <2>1. i # 0 /\ verdict[i] = NoVerdict
    BY <1>1, <1>3
  <2>2. QED
    BY <1>1, <2>1 DEF StatusOf
<1>6. ResultOf = "none" /\ StatusesOf = [i \in DOMAIN SuitesOf |-> "waiting"]
  BY <1>1, <1>5 DEF ResultOf, Ended, StatusesOf, SuitesOf
<1>7. run.jobs \in Nat \ {0}
  BY <1>2, ActiveIs
<1>8. QED
  BY <1>3, <1>4, <1>6, <1>7 DEF Abstract!Init, SuitesOf, StatusesOf, ResultOf

\* Every step of the program is a step of TestRun, or none.
LEMMA NextMaps ==
  ASSUME SlotsInv, VerdictInv, Books, [Next]_vars
  PROVE  [Abstract!Next]_(Abstract!vars)
<1>1. CASE RunnerStep
  <2>1. CASE SkipByAttr
    BY <2>1, SkipMaps, SkipBooks
  <2>2. CASE StartRejected \/ StartIsolated \/ StartInline
    BY <2>2, LaunchMaps
  <2>3. CASE RecordChild \/ Park
    BY <2>3, BegunIs, StutterIs DEF Begun, Ended
  <2>4. CASE EndSuite
    BY <2>4, StutterIs DEF EndSuite, testVars, Ended
  <2>5. CASE EndRun
    BY <2>5, EndMaps
  <2>6. CASE Collect
    BY <2>6, CollectMaps
  <2>7. CASE Quiet
    BY <2>7, QuietIs, StutterIs
  <2>8. QED
    BY <1>1, <2>1, <2>2, <2>3, <2>4, <2>5, <2>6, <2>7 DEF RunnerStep, Collect, Quiet
<1>2. CASE ExitInline \/ Signalled
  BY <1>2, AbortMaps DEF ExitInline, Signalled, testVars, Ended
<1>3. ASSUME NEW s \in Slots, TestRuns(s) \/ DeadlinePasses(s) \/ DescendantEnds(s)
      PROVE  [Abstract!Next]_(Abstract!vars)
  BY <1>3, OthersAre, StutterIs
<1>4. CASE UNCHANGED vars
  <2>1. UNCHANGED <<plan, inv, verdict, rpc, result>>
    BY <1>4 DEF vars, testVars, runVars
  <2>2. run' = run /\ Todo' = Todo
    BY <2>1 DEF run, Todo
  <2>3. \A j : StatusOf(j)' = StatusOf(j)
    BY <2>1 DEF StatusOf
  <2>4. QED
    BY <2>1, <2>2, <2>3 DEF Abstract!vars
<1>5. QED
  BY <1>1, <1>2, <1>3, <1>4 DEF Next, Over

\* The runner implements TestRun, for every plan and however tests, deadlines, kills
\* and signals interleave: invocations start in order, at most `jobs` at a time and one
\* suite after the other, each gets one verdict, a failure stops the run when it has to,
\* and the run succeeds exactly when all passed or were skipped.
THEOREM TriaxImplementsRun == Spec => ImplementsRun
<1>1. Init => SlotsInv /\ VerdictInv /\ Books
  BY SlotsInit, VerdictInit, InitBooks
<1>2. (SlotsInv /\ VerdictInv /\ Books) /\ [Next]_vars => (SlotsInv /\ VerdictInv /\ Books)'
  BY SlotsNext, VerdictNext, NextBooks
<1>3. (SlotsInv /\ VerdictInv /\ Books) /\ [Next]_vars => [Abstract!Next]_(Abstract!vars)
  BY NextMaps
<1>4. Init => Abstract!Init
  BY InitMaps
<1>5. QED
  BY <1>1, <1>2, <1>3, <1>4, PTL DEF Spec, ImplementsRun, Abstract!Spec

=============================================================================
