------------------------------ MODULE TestRunner ------------------------------
(***************************************************************************)
(* Test.Unit.Runner and Test.Unit.Testcase of unittest.js: tests run one   *)
(* after the other, each may wait for its next part, and what a test left  *)
(* behind (a timer, an answer) may still assert or wait when it is over.   *)
(***************************************************************************)
EXTENDS Naturals, Sequences, FiniteSets

CONSTANTS
    NumTests,  \* tests of the page
    MaxWaits,  \* bound: calls of wait
    MaxLate    \* bound: assertions and waits that come late

VARIABLES
    tests,       \* [1 .. NumTests -> [isWaiting, assertions, failures, errors]]
    currentTest, \* from 1
    running,     \* the call of runTests goes on
    timers,      \* calls of runTests that setTimeout still has to make
    result,      \* what postResults sent, "none" before
    log,         \* [1 .. NumTests -> the status that was logged, "none" before]
    setups, teardowns, \* history: how often each was called, for each test
    late,        \* history: tests something came late for
    waitedAside, \* history: tests whose teardown called wait
    waits, lates \* history: count what the bounds bound

vars == <<tests, currentTest, running, timers, result, log, setups, teardowns, late,
          waitedAside, waits, lates>>
Tests == 1 .. NumTests
Outcomes == {"pass", "fail", "error"}

TypeOK ==
    /\ \A t \in Tests :
        /\ tests[t].isWaiting \in BOOLEAN
        /\ {tests[t].assertions, tests[t].failures, tests[t].errors} \subseteq Nat
    /\ currentTest \in 1 .. NumTests + 1 /\ running \in BOOLEAN /\ timers \in Nat
    /\ result \in {"none", "ERROR", "FAILURE", "SUCCESS"}

Fresh == [isWaiting |-> FALSE, assertions |-> 0, failures |-> 0, errors |-> 0]

Init ==
    /\ tests = [t \in Tests |-> Fresh] /\ currentTest = 1
    /\ running = FALSE /\ timers = 1 /\ result = "none" /\ log = [t \in Tests |-> "none"]
    /\ setups = [t \in Tests |-> 0] /\ teardowns = [t \in Tests |-> 0]
    /\ late = {} /\ waitedAside = {} /\ waits = 0 /\ lates = 0
-----------------------------------------------------------------------------
(* Assertions.                                                             *)

\* Each assertion passes, fails, or catches an error of its arguments
Assert(test, outcome) ==
    CASE outcome = "pass" -> [test EXCEPT !.assertions = @ + 1]
      [] outcome = "fail" -> [test EXCEPT !.failures = @ + 1]
      [] outcome = "error" -> [test EXCEPT !.errors = @ + 1]

\* status
Status(test) ==
    IF test.failures > 0 THEN "failed" ELSE IF test.errors > 0 THEN "error" ELSE "passed"

getResult ==
    IF \E t \in Tests : tests[t].errors > 0 THEN "ERROR"
    ELSE IF \E t \in Tests : tests[t].failures > 0 THEN "FAILURE" ELSE "SUCCESS"
-----------------------------------------------------------------------------
(* The runner.                                                             *)

\* setTimeout calls runTests
Timer ==
    /\ timers > 0 /\ ~running
    /\ timers' = timers - 1 /\ running' = TRUE
    /\ UNCHANGED <<tests, currentTest, result, log, setups, teardowns, late, waitedAside,
                   waits, lates>>

\* finally: if (!this.isWaiting) teardown
NeedsTeardown(waiting) == ~waiting

\* Testcase.run: setup, the part of the test and teardown may each call wait and
\* may throw; a part may also end with an assertion.  One exception is an error,
\* also when teardown throws another.  A wait of a setup that returns is
\* forgotten, one of a setup that throws is not.
Run(t, setup, part, waits_, teardown) ==
    LET sets == ~tests[t].isWaiting
        skipped == sets /\ setup # "returns"
        waiting == IF skipped THEN setup = "waitsAndThrows" ELSE waits_
        tears == NeedsTeardown(waiting)
        tearWaits == tears /\ teardown \in {"waits", "waitsAndThrows"}
        threw == \/ skipped \/ part = "throws"
                 \/ tears /\ teardown \in {"throws", "waitsAndThrows"}
        asserted == IF skipped \/ part = "throws" THEN tests[t] ELSE Assert(tests[t], part)
    IN  /\ setups' = [setups EXCEPT ![t] = @ + IF sets THEN 1 ELSE 0]
        /\ teardowns' = [teardowns EXCEPT ![t] = @ + IF tears THEN 1 ELSE 0]
        /\ tests' = [tests EXCEPT ![t] =
                [asserted EXCEPT !.isWaiting = waiting \/ tearWaits,
                                 !.errors = @ + IF threw THEN 1 ELSE 0]]
        /\ waitedAside' = IF tearWaits THEN waitedAside \union {t} ELSE waitedAside
        /\ waits' = waits + IF tests'[t].isWaiting THEN 1 ELSE 0

\* Faulty: runTests goes on although the test waits
GoesOnAlways(waiting) == TRUE

\* runTests calls itself, unless the test waits
GoesOn(waiting) == ~waiting

\* runTests, for the current test
RunTest ==
    /\ running /\ currentTest <= NumTests
    /\ \E setup \in {"returns", "throws", "waitsAndThrows"}, waits_ \in BOOLEAN,
          part \in Outcomes \union {"throws"},
          teardown \in {"returns", "throws", "waits", "waitsAndThrows"} :
        Run(currentTest, setup, part, waits_, teardown)
    /\ waits' <= MaxWaits
    /\ LET waiting == tests'[currentTest].isWaiting
       IN  /\ running' = GoesOn(waiting)
           /\ IF waiting
              THEN timers' = timers + 1 /\ UNCHANGED <<currentTest, log>>
              ELSE /\ log' = [log EXCEPT ![currentTest] = Status(tests'[currentTest])]
                   /\ currentTest' = currentTest + 1
                   /\ UNCHANGED timers
    /\ UNCHANGED <<result, late, lates>>

\* runTests, after the last test
Finish ==
    /\ running /\ currentTest > NumTests
    /\ result' = getResult /\ running' = FALSE
    /\ UNCHANGED <<tests, currentTest, timers, log, setups, teardowns, late, waitedAside,
                   waits, lates>>
-----------------------------------------------------------------------------
(* Callbacks a test left behind.                                           *)

Late(t) ==
    /\ ~running /\ setups[t] > 0
    /\ lates < MaxLate /\ lates' = lates + 1
    /\ late' = late \union {t}
    /\ UNCHANGED <<currentTest, running, timers, result, log, setups, teardowns,
                   waitedAside, waits>>

LateAssert ==
    \E t \in Tests, outcome \in Outcomes :
        /\ Late(t)
        /\ tests' = [tests EXCEPT ![t] = Assert(@, outcome)]

\* wait replaces the part the test waits for; a test that is over waits in vain
LateWait ==
    \E t \in Tests :
        /\ Late(t)
        /\ tests' = [tests EXCEPT ![t].isWaiting = TRUE]

Next == Timer \/ RunTest \/ Finish \/ LateAssert \/ LateWait

Spec == Init /\ [][Next]_vars

FairSpec == Spec /\ WF_vars(Timer) /\ WF_vars(RunTest \/ Finish)
-----------------------------------------------------------------------------
(* Properties.                                                             *)

Over(t) == t < currentTest

\* Each test is set up once, and torn down once when it is over, in however
\* many parts it ran and whatever threw, unless teardown itself waited.
SetupsAndTeardownsPair ==
    \A t \in Tests :
        /\ setups[t] <= 1
        /\ t \in waitedAside \/ teardowns[t] = IF Over(t) THEN 1 ELSE 0

\* One call of runTests is to come or goes on, until the result is there: no
\* test is run by two of them, and the runner does not stop in between.
OneLoop ==
    timers + (IF running THEN 1 ELSE 0) = IF result = "none" THEN 1 ELSE 0

\* The result agrees with the log, unless something came late.
ResultMatchesLog ==
    result # "none" /\ late = {} =>
        (result = "SUCCESS") = (\A t \in Tests : log[t] = "passed")

\* The result arrives, for waits come to an end.
Arrived == result # "none"
ResultArrives == <>Arrived
=============================================================================
