-------------------------- MODULE TestRunnerProofs --------------------------
(***************************************************************************)
(* Proofs about TestRunner.  The argument: the targets are split in three, *)
(* those that were started, those in the pipe, in order and without gaps,  *)
(* and those still to be written (Flow); a target that was started and has *)
(* not returned is held by exactly one worker, which runs it or died of it *)
(* (Calls); and a worker that saw the end of the pipe saw it empty with    *)
(* nobody left to write (Fleet).                                           *)
(***************************************************************************)
EXTENDS TestRunner, TLAPS

(* The targets up to t were started, the pipe holds those up to n.           *)
Split(t, n) ==
    /\ t <= n /\ n <= Len(targets)
    /\ Len(pipe) = n - t
    /\ \A k \in 1 .. Len(pipe) : pipe[k] = t + k - 1
    /\ \A i \in Slots : started[i] = IF i <= t THEN 1 ELSE 0
    /\ pc \in {"parse", "setup", "fork"} => n = 0
    /\ pc \in {"sequential", "write"} => n = it
    /\ pc = "wait" => n = Len(targets)

Flow == \E t, n \in 0 .. MAX_ARGS : Split(t, n)

Holds(w, i) == worker[w].slot = i /\ worker[w].state \in {"running", "aborted"}

(* What became of the targets that were started.                             *)
CallOf(i) ==
    /\ passed[i] <= started[i]
    /\ passed[i] = 1 => i <= Len(targets) /\ ~Fails(i)
    /\ (started[i] = 1 /\ passed[i] = 0) =>
          (\E w \in Workers : Holds(w, i)) \/ (pc = "exited" /\ status # 0)

HolderOf(w, i) ==
    /\ i \in 1 .. Len(targets) /\ i \in Slots
    /\ started[i] = 1 /\ passed[i] = 0
    /\ \A v \in Workers : Holds(v, i) => v = w
    /\ worker[w].state = "aborted" => Fails(i)

Calls ==
    /\ \A i \in Slots : CallOf(i)
    /\ \A w \in Workers : \A i \in 0 .. ByteRange : Holds(w, i) => HolderOf(w, i)

(* The processes: which exist, and what their descriptors say.               *)
Fleet ==
    /\ pc \in {"fork", "write", "wait"} => num_processes > 1 /\ Len(targets) <= MAX_TARGETS
    /\ pc \in {"parse", "setup", "sequential"} => \A w \in Workers : worker[w] = Idle
    /\ pc \in {"parse", "setup"} => it = 0
    /\ pc = "sequential" =>
          /\ pipe = <<>> /\ it <= Len(targets)
          /\ \A i \in Slots : passed[i] = started[i]
    /\ pc = "fork" => it <= num_processes /\ \A w \in Workers : worker[w].state = "none" <=> w > it
    /\ pc \in {"write", "wait"} =>
          \A w \in Workers : worker[w].state = "none" <=> w > num_processes
    /\ pc = "write" => it <= Len(targets)
    /\ pc = "wait" => it <= num_processes
    /\ \A w \in Workers : worker[w].state \in {"none", "reading", "running"} => ~worker[w].writes
    /\ \A w \in Workers : worker[w].state = "exited" => pipe = <<>> /\ ~WriteEndOpen

(* What the status of the parent knows so far.                               *)
Verdict ==
    /\ pc # "exited" => trouble = "none"
    /\ pc \notin {"wait", "exited"} => status = 0
    /\ pc = "wait" =>
          /\ \A w \in 1 .. it : worker[w].state \in {"exited", "aborted"}
          /\ status = 0 => \A w \in 1 .. it : worker[w].state = "exited"
          /\ status # 0 => \E w \in 1 .. it : worker[w].state = "aborted"

IInv ==
    TypeOK /\ Flow /\ Calls /\ Fleet /\ Verdict /\ SuccessMeansAllPassed /\ NoFalseAlarm

-----------------------------------------------------------------------------
(* The initial state satisfies the invariant: nothing is selected, started   *)
(* or forked.                                                                *)
LEMMA InitInvariant == Init => IInv
<1> SUFFICES ASSUME Init PROVE IInv
  OBVIOUS
<1> USE RunnerAssumption DEF Init
<1>1. TypeOK
  <2>1. worker \in [Workers -> [state : WorkerStates, slot : 0 .. ByteRange, writes : BOOLEAN]]
    BY DEF WorkerStates, Idle
  <2>2. started \in [Slots -> Nat] /\ passed \in [Slots -> Nat]
    OBVIOUS
  <2>3. pipe \in Seq(0 .. ByteRange - 1) /\ Len(pipe) <= PipeSize
    OBVIOUS
  <2>4. targets \in Seq(Tests) /\ Len(targets) <= MAX_ARGS
    OBVIOUS
  <2>5. pc \in RunStates /\ trouble \in Troubles
    BY DEF RunStates, Troubles
  <2>6. num_processes \in 0 .. MAX_SUBPROCESSES /\ it \in Nat /\ status \in {0, 1, KILLED}
    BY SMT
  <2>7. run_all \in BOOLEAN /\ failing \in SUBSET Tests
    BY Zenon
  <2> QED
    BY <2>1, <2>2, <2>3, <2>4, <2>5, <2>6, <2>7 DEF TypeOK
<1>2. Flow
  <2>1. Split(0, 0)
    BY DEF Split, Slots
  <2> QED
    BY <2>1 DEF Flow
<1>3. Calls
  BY DEF Calls, CallOf, Holds, Idle, Slots
<1>4. Fleet /\ Verdict
  BY DEF Fleet, Verdict, Idle
<1>5. SuccessMeansAllPassed /\ NoFalseAlarm
  BY DEF SuccessMeansAllPassed, NoFalseAlarm
<1> QED
  BY <1>1, <1>2, <1>3, <1>4, <1>5 DEF IInv

(* The parse and setup phases: no target was started, no worker forked.      *)
Fresh ==
    /\ pipe = <<>> /\ it = 0
    /\ worker = [w \in Workers |-> Idle]
    /\ \A i \in Slots : started[i] = 0 /\ passed[i] = 0

(* Nothing has run before the workers or the sequential loop start.          *)
LEMMA FreshPhases ==
    ASSUME IInv, pc \in {"parse", "setup"}
    PROVE  Fresh /\ status = 0 /\ trouble = "none"
<1>1. PICK t \in 0 .. MAX_ARGS, n \in 0 .. MAX_ARGS : Split(t, n)
  BY DEF IInv, Flow
<1>2. pipe = <<>> /\ \A i \in Slots : started[i] = 0
  BY <1>1, RunnerAssumption DEF Split, IInv, TypeOK, Slots
<1>3. \A i \in Slots : passed[i] = 0
  BY <1>2 DEF IInv, TypeOK, Calls, CallOf, Slots
<1>4. worker = [w \in Workers |-> Idle]
  BY DEF IInv, TypeOK, Fleet
<1> QED
  BY <1>2, <1>3, <1>4 DEF Fresh, IInv, Fleet, Verdict

(* A state in which nothing was started satisfies the invariant as soon as   *)
(* its status is that of a failure or of a run not yet decided.              *)
LEMMA FreshInvariant ==
    ASSUME TypeOK', Fresh', pc' \in {"parse", "setup", "sequential", "fork", "exited"},
           pc' # "exited" => trouble' = "none" /\ status' = 0,
           pc' = "exited" => status' # 0 /\ (trouble' # "none" \/ NoRngAborts'),
           pc' = "fork" => num_processes' > 1 /\ Len(targets') <= MAX_TARGETS
    PROVE  IInv'
<1> USE RunnerAssumption
<1>1. Flow'
  <2>1. Split(0, 0)'
    BY DEF Split, Fresh, Slots, TypeOK
  <2> QED
    BY <2>1 DEF Flow
<1>2. Calls'
  BY DEF Calls, CallOf, Holds, Fresh, Idle, Slots
<1>3. Fleet'
  BY DEF Fleet, Fresh, Idle, TypeOK, Workers
<1>4. Verdict'
  BY DEF Verdict
<1>5. SuccessMeansAllPassed' /\ NoFalseAlarm'
  BY DEF SuccessMeansAllPassed, NoFalseAlarm
<1> QED
  BY <1>1, <1>2, <1>3, <1>4, <1>5 DEF IInv

(* Reading the arguments and the setup keep the invariant.                   *)
LEMMA ParseSteps ==
    ASSUME IInv,
           \/ BadArgument \/ UnknownArgument \/ parse_target \/ parse_jobs_count
           \/ Populate \/ NoRngAbort \/ SetupFails \/ Setup
    PROVE  IInv'
<1> USE RunnerAssumption
<1>1. pc \in {"parse", "setup"}
  BY DEF BadArgument, UnknownArgument, parse_target, AddTargets, parse_jobs_count,
         Populate, NoRngAbort, SetupFails, Setup
<1>2. Fresh /\ status = 0 /\ trouble = "none"
  BY <1>1, FreshPhases
<1>3. CASE BadArgument \/ UnknownArgument
  <2>1. TypeOK'
    BY <1>3 DEF IInv, TypeOK, BadArgument, UnknownArgument, Fail, Exit, args, RunStates, Troubles, KILLED
  <2>2. Fresh' /\ pc' = "exited" /\ status' = 1 /\ trouble' # "none"
    BY <1>2, <1>3 DEF Fresh, BadArgument, UnknownArgument, Fail, Exit, args
  <2> QED
    BY <2>1, <2>2, FreshInvariant
<1>4. CASE parse_target
  <2>1. PICK m \in DOMAIN Registry :
            AddTargets(Registry[m]) \/ \E k \in DOMAIN Registry[m] : AddTargets(<<Registry[m][k]>>)
    BY <1>4 DEF parse_target
  <2>2. Registry[m] \in Seq(Tests)
    OBVIOUS
  <2>3. \A k \in DOMAIN Registry[m] : <<Registry[m][k]>> \in Seq(Tests)
    BY <2>2
  <2>4. PICK tests \in Seq(Tests) : AddTargets(tests)
    BY <2>1, <2>2, <2>3
  <2>5. targets' \in Seq(Tests) /\ Len(targets') <= MAX_ARGS
    <3>1. targets \in Seq(Tests) /\ Len(targets) <= MAX_ARGS
      BY DEF IInv, TypeOK
    <3>2. targets \o tests \in Seq(Tests) /\ Len(targets \o tests) = Len(targets) + Len(tests)
      BY <3>1
    <3>3. CASE Len(targets) + Len(tests) > MAX_ARGS
      BY <3>1, <3>3, <2>4 DEF AddTargets
    <3>4. CASE ~(Len(targets) + Len(tests) > MAX_ARGS)
      <4>1. targets' = targets \o tests
        BY <3>4, <2>4 DEF AddTargets
      <4> QED
        BY <3>1, <3>2, <3>4, <4>1
    <3> QED
      BY <3>3, <3>4
  <2>6. Fresh'
    BY <2>4, <1>2 DEF Fresh, AddTargets
  <2>7. CASE Len(targets) + Len(tests) > MAX_ARGS
    <3>1. pc' = "exited" /\ status' = 1 /\ trouble' = "too_many"
      BY <2>4, <2>7 DEF AddTargets, Fail, Exit
    <3>2. TypeOK'
      BY <2>4, <2>5, <3>1 DEF IInv, TypeOK, AddTargets, RunStates, Troubles
    <3> QED
      BY <2>6, <3>1, <3>2, FreshInvariant
  <2>8. CASE ~(Len(targets) + Len(tests) > MAX_ARGS)
    <3>1. pc' = "parse" /\ status' = 0 /\ trouble' = "none"
      BY <2>4, <2>8, <1>2 DEF AddTargets
    <3>2. TypeOK'
      BY <2>4, <2>5, <3>1 DEF IInv, TypeOK, AddTargets, RunStates, Troubles
    <3> QED
      BY <2>6, <3>1, <3>2, FreshInvariant
  <2> QED
    BY <2>7, <2>8
<1>5. CASE parse_jobs_count
  <2>1. TypeOK'
    BY <1>5 DEF IInv, TypeOK, parse_jobs_count, JobsInRange
  <2>2. Fresh' /\ pc' = "parse" /\ status' = 0 /\ trouble' = "none"
    BY <1>2, <1>5 DEF Fresh, parse_jobs_count
  <2> QED
    BY <2>1, <2>2, FreshInvariant
<1>6. CASE Populate
  <2>3. targets' \in Seq(Tests) /\ Len(targets') <= MAX_ARGS
    <3>1. targets' \in {targets, AllTests}
      BY <1>6 DEF Populate
    <3>2. targets \in Seq(Tests) /\ Len(targets) <= MAX_ARGS /\ AllTests \in Seq(Tests)
      BY DEF IInv, TypeOK, AllTests
    <3>3. CASE targets = <<>> /\ Len(AllTests) > MAX_ARGS
      BY <1>6, <3>2, <3>3 DEF Populate
    <3>4. CASE ~(targets = <<>> /\ Len(AllTests) > MAX_ARGS)
      <4>1. targets' = IF targets = <<>> THEN AllTests ELSE targets
        BY <1>6, <3>4 DEF Populate
      <4> QED
        BY <3>2, <3>4, <4>1
    <3> QED
      BY <3>3, <3>4
  <2>4. run_all' \in BOOLEAN
    BY <1>6 DEF Populate
  <2>1. TypeOK'
    BY <1>6, <2>3, <2>4 DEF IInv, TypeOK, Populate, Fail, Exit, RunStates, Troubles, KILLED
  <2>2. Fresh'
    BY <1>2, <1>6 DEF Fresh, Populate
  <2>5. CASE targets = <<>> /\ Len(AllTests) > MAX_ARGS
    <3>1. pc' = "exited" /\ status' = 1 /\ trouble' = "too_many"
      BY <1>6, <2>5 DEF Populate, Fail, Exit
    <3> QED
      BY <2>1, <2>2, <3>1, FreshInvariant
  <2>6. CASE ~(targets = <<>> /\ Len(AllTests) > MAX_ARGS)
    <3>1. pc' = "setup" /\ status' = 0 /\ trouble' = "none"
      BY <1>2, <1>6, <2>6 DEF Populate
    <3> QED
      BY <2>1, <2>2, <3>1, FreshInvariant
  <2> QED
    BY <2>5, <2>6
<1>7. CASE NoRngAbort
  <2>1. TypeOK'
    BY <1>7 DEF IInv, TypeOK, NoRngAbort, Exit, args, RunStates, KILLED
  <2>2. Fresh' /\ pc' = "exited" /\ status' # 0 /\ NoRngAborts'
    BY <1>2, <1>7 DEF Fresh, NoRngAbort, NoRngAborts, Exit, args, KILLED
  <2> QED
    BY <2>1, <2>2, FreshInvariant
<1>8. CASE SetupFails
  <2>1. TypeOK'
    BY <1>8 DEF IInv, TypeOK, SetupFails, Fail, Exit, args, RunStates, Troubles, KILLED
  <2>2. Fresh' /\ pc' = "exited" /\ status' = 1 /\ trouble' # "none"
    BY <1>2, <1>8 DEF Fresh, SetupFails, Fail, Exit, args
  <2> QED
    BY <2>1, <2>2, FreshInvariant
<1>9. CASE Setup
  <2>1. TypeOK'
    BY <1>9 DEF IInv, TypeOK, Setup, Fail, Exit, args, RunStates, Troubles, KILLED
  <2>2. Fresh'
    BY <1>2, <1>9 DEF Fresh, Setup, args
  <2>3. pc' \in {"sequential", "fork", "exited"}
    BY <1>9 DEF Setup, Fail, Exit
  <2>4. pc' = "fork" => num_processes' > 1 /\ Len(targets') <= MAX_TARGETS
    BY <1>9 DEF Setup, Fail, Exit, Oversized, args, IInv, TypeOK
  <2>5. IF pc' = "exited" THEN status' = 1 /\ trouble' # "none"
                          ELSE status' = 0 /\ trouble' = "none"
    BY <1>2, <1>9 DEF Setup, Fail, Exit
  <2> QED
    BY <2>1, <2>2, <2>3, <2>4, <2>5, FreshInvariant
<1> QED
  BY <1>3, <1>4, <1>5, <1>6, <1>7, <1>8, <1>9

(* What the invariant says of a sequential run: the slots up to it were run, *)
(* nothing is in the pipe and there is no worker.                            *)
LEMMA SequentialPhase ==
    ASSUME IInv, pc = "sequential"
    PROVE  /\ pipe = <<>> /\ worker = [w \in Workers |-> Idle]
           /\ it \in 0 .. Len(targets) /\ status = 0 /\ trouble = "none"
           /\ \A i \in Slots : started[i] = (IF i <= it THEN 1 ELSE 0) /\ passed[i] = started[i]
           /\ \A i \in 1 .. it : ~Fails(i)
<1> USE RunnerAssumption
<1>1. PICK t \in 0 .. MAX_ARGS, n \in 0 .. MAX_ARGS : Split(t, n)
  BY DEF IInv, Flow
<1>2. pipe = <<>> /\ it \in 0 .. Len(targets) /\ \A i \in Slots : passed[i] = started[i]
  BY DEF IInv, TypeOK, Fleet
<1>3. \A i \in Slots : started[i] = IF i <= it THEN 1 ELSE 0
  BY <1>1, <1>2 DEF Split
<1>4. \A i \in 1 .. it : ~Fails(i)
  <2> TAKE i \in 1 .. it
  <2>1. i \in Slots
    BY <1>2 DEF Slots, IInv, TypeOK
  <2>2. passed[i] = 1
    BY <1>2, <1>3, <2>1
  <2> QED
    BY <2>1, <2>2 DEF IInv, Calls, CallOf
<1>5. worker = [w \in Workers |-> Idle]
  BY DEF IInv, TypeOK, Fleet
<1> QED
  BY <1>2, <1>3, <1>4, <1>5 DEF IInv, Verdict

(* The sequential loop keeps the invariant.                                  *)
LEMMA SequentialSteps ==
    ASSUME IInv, RunSequential \/ SequentialDone
    PROVE  IInv'
<1> USE RunnerAssumption
<1>1. pc = "sequential"
  BY DEF RunSequential, SequentialDone
<1>2. /\ pipe = <<>> /\ worker = [w \in Workers |-> Idle]
      /\ it \in 0 .. Len(targets) /\ status = 0 /\ trouble = "none"
      /\ \A i \in Slots : started[i] = (IF i <= it THEN 1 ELSE 0) /\ passed[i] = started[i]
      /\ \A i \in 1 .. it : ~Fails(i)
  BY <1>1, SequentialPhase
<1>3. \A i : \A w \in Workers : ~Holds(w, i)
  BY <1>2 DEF Holds, Idle
<1>4. TypeOK
  BY DEF IInv
<1>5. Len(targets) \in 0 .. MAX_ARGS
  BY <1>4 DEF TypeOK
<1>6. CASE RunSequential
  <2>1. it + 1 \in Slots /\ it + 1 \in 1 .. Len(targets)
    BY <1>2, <1>5, <1>6 DEF RunSequential, Slots
  <2>2. /\ started' = [started EXCEPT ![it + 1] = 1]
        /\ pipe' = <<>> /\ worker' = worker /\ trouble' = "none"
        /\ targets' = targets /\ failing' = failing /\ num_processes' = num_processes
        /\ run_all' = run_all
    <3>1. started[it + 1] + 1 = 1
      BY <1>2, <2>1
    <3> QED
      BY <1>2, <1>6, <3>1 DEF RunSequential, Called, args
  <2>3. \A i \in Slots : started'[i] = IF i <= it + 1 THEN 1 ELSE 0
    BY <1>2, <2>1, <2>2, <1>4 DEF TypeOK, Slots
  <2>4. \A i : \A w \in Workers : ~Holds(w, i)'
    BY <1>3, <2>2 DEF Holds
  <2>5. CASE Fails(it + 1)
    <3>1. pc' = "exited" /\ status' = KILLED /\ passed' = passed /\ it' = it
      BY <1>6, <2>5 DEF RunSequential, Exit
    <3>2. TypeOK'
      BY <1>4, <2>2, <2>1, <3>1 DEF TypeOK, RunStates, Troubles
    <3>3. Flow'
      <4>1. PICK k \in Slots : k = it + 1
        BY <2>1
      <4>2. Split(k, k)'
        BY <4>1, <2>1, <2>2, <2>3, <3>1 DEF Split
      <4> QED
        BY <4>2 DEF Flow, Slots
    <3>4. Calls'
      BY <1>2, <1>4, <2>2, <2>3, <2>4, <3>1 DEF Calls, CallOf, TypeOK, KILLED, Fails, Slots
    <3>5. Fleet'
      BY <1>2, <2>2, <3>1 DEF Fleet, Idle
    <3>6. Verdict'
      BY <3>1 DEF Verdict
    <3>7. SuccessMeansAllPassed'
      BY <3>1 DEF SuccessMeansAllPassed, KILLED
    <3>8. NoFalseAlarm'
      BY <2>1, <2>2, <2>3, <2>5 DEF NoFalseAlarm, Fails
    <3> QED
      BY <3>2, <3>3, <3>4, <3>5, <3>6, <3>7, <3>8 DEF IInv
  <2>6. CASE ~Fails(it + 1)
    <3>1. /\ passed' = [passed EXCEPT ![it + 1] = passed[it + 1] + 1] /\ it' = it + 1
          /\ pc' = "sequential" /\ status' = 0
      BY <1>1, <1>2, <1>6, <2>6 DEF RunSequential, Returned
    <3>2. passed[it + 1] = 0
      BY <1>2, <2>1
    <3>3. passed' = [passed EXCEPT ![it + 1] = 1]
      BY <3>1, <3>2
    <3>4. \A i \in Slots : passed'[i] = started'[i]
      BY <1>2, <1>4, <2>1, <2>2, <3>3 DEF TypeOK
    <3>5. TypeOK'
      BY <1>4, <2>2, <2>1, <3>1, <3>3 DEF TypeOK, RunStates, Troubles
    <3>6. Flow'
      <4>1. PICK k \in Slots : k = it + 1
        BY <2>1
      <4>2. Split(k, k)'
        BY <4>1, <2>1, <2>2, <2>3, <3>1 DEF Split
      <4> QED
        BY <4>2 DEF Flow, Slots
    <3>7. \A i \in Slots : i <= it + 1 => i <= Len(targets) /\ ~Fails(i)
      BY <1>2, <2>1, <2>6 DEF Slots
    <3>8. Calls'
      BY <2>2, <2>3, <2>4, <3>4, <3>7 DEF Calls, CallOf, Fails
    <3>9. Fleet'
      BY <1>2, <2>1, <2>2, <3>1, <3>4 DEF Fleet, Idle
    <3>10. Verdict'
      BY <2>2, <3>1 DEF Verdict
    <3>11. SuccessMeansAllPassed' /\ NoFalseAlarm'
      BY <3>1 DEF SuccessMeansAllPassed, NoFalseAlarm
    <3> QED
      BY <3>5, <3>6, <3>8, <3>9, <3>10, <3>11 DEF IInv
  <2> QED
    BY <2>5, <2>6
<1>7. CASE SequentialDone
  <2>1. /\ it = Len(targets) /\ pc' = "exited"
        /\ \/ status' = 0 /\ trouble' = "none"
           \/ status' = 1 /\ trouble' = "system"
        /\ UNCHANGED <<targets, num_processes, run_all, failing, it, pipe, worker, started, passed>>
    BY <1>2, <1>7 DEF SequentialDone, Teardown, Exit, Fail, args
  <2>2. TypeOK'
    BY <1>4, <2>1 DEF TypeOK, RunStates, Troubles
  <2>3. Flow'
    <3>1. PICK k \in 0 .. MAX_ARGS : k = it
      BY <1>2, <1>5
    <3>2. Split(k, k)'
      BY <3>1, <1>2, <2>1, <1>5 DEF Split
    <3> QED
      BY <3>2 DEF Flow
  <2>4. Calls'
    BY <1>2, <1>3, <1>4, <2>1 DEF Calls, CallOf, Holds, Fails, TypeOK, Slots
  <2>5. Fleet'
    BY <1>2, <2>1 DEF Fleet, Idle
  <2>6. Verdict'
    BY <2>1 DEF Verdict
  <2>7. SuccessMeansAllPassed'
    BY <1>2, <1>5, <2>1 DEF SuccessMeansAllPassed, Fails, Slots
  <2>8. NoFalseAlarm'
    BY <2>1 DEF NoFalseAlarm
  <2> QED
    BY <2>2, <2>3, <2>4, <2>5, <2>6, <2>7, <2>8 DEF IInv
<1> QED
  BY <1>6, <1>7

(* A step that takes and finishes no target leaves every call as it is.      *)
LEMMA CallsKept ==
    ASSUME IInv, (pc = "exited" /\ status # 0) => (pc' = "exited" /\ status' # 0),
           UNCHANGED <<targets, failing, started, passed>>,
           \A w \in Workers : /\ worker'[w].slot = worker[w].slot
                              /\ worker'[w].state = worker[w].state
                                  \/ {worker'[w].state, worker[w].state} \subseteq
                                         {"none", "forked", "reading", "exited"}
    PROVE  Calls'
<1>1. \A i : \A w \in Workers : Holds(w, i)' <=> Holds(w, i)
  BY DEF Holds
<1>2. ASSUME NEW i \in Slots PROVE CallOf(i)'
  BY <1>1 DEF IInv, Calls, CallOf, Fails
<1>3. ASSUME NEW w \in Workers, NEW i \in 0 .. ByteRange, Holds(w, i)' PROVE HolderOf(w, i)'
  <2>1. Holds(w, i) /\ HolderOf(w, i)
    BY <1>1, <1>3 DEF IInv, Calls
  <2>2. worker'[w].state = worker[w].state
    BY <2>1 DEF Holds
  <2> QED
    BY <1>1, <2>1, <2>2 DEF HolderOf, Fails
<1> QED
  BY <1>2, <1>3 DEF Calls

(* Starting the workers keeps the invariant.                                 *)
LEMMA ForkSteps ==
    ASSUME IInv, Fork \/ ForkFails \/ ForkDone
    PROVE  IInv'
<1> USE RunnerAssumption
<1>1. pc = "fork"
  BY DEF Fork, ForkFails, ForkDone
<1>2. PICK t \in 0 .. MAX_ARGS, n \in 0 .. MAX_ARGS : Split(t, n)
  BY DEF IInv, Flow
<1>3. /\ TypeOK /\ num_processes > 1 /\ Len(targets) <= MAX_TARGETS
      /\ it <= num_processes /\ trouble = "none" /\ status = 0
      /\ \A w \in Workers : worker[w].state = "none" <=> w > it
      /\ \A w \in Workers : worker[w].state \in {"none", "reading", "running"} => ~worker[w].writes
  BY <1>1 DEF IInv, Fleet, Verdict
<1>4. \A w \in Workers : worker[w].state # "exited"
  BY <1>1 DEF IInv, Fleet, WriteEndOpen
<1>5. CASE Fork
  <2>1. /\ it + 1 \in Workers /\ it' = it + 1 /\ it + 1 <= num_processes
        /\ worker' = [worker EXCEPT ![it + 1].state = "forked", ![it + 1].writes = TRUE]
        /\ UNCHANGED <<targets, num_processes, run_all, failing, pc, pipe, status, started, passed, trouble>>
    BY <1>3, <1>5 DEF Fork, TypeOK, Workers, args
  <2>2. \A w \in Workers :
            IF w = it + 1 THEN /\ worker'[w].state = "forked" /\ worker'[w].slot = worker[w].slot
                               /\ worker[w].state = "none"
                          ELSE worker'[w] = worker[w]
    BY <1>3, <2>1, SMTT(30) DEF TypeOK, Workers
  <2>3. TypeOK'
    <3>1. worker' \in [Workers -> [state : WorkerStates, slot : 0 .. ByteRange, writes : BOOLEAN]]
      BY <1>3, <2>1 DEF TypeOK, WorkerStates
    <3>2. it' \in Nat
      BY <1>3, <2>1 DEF TypeOK
    <3> QED
      BY <1>3, <2>1, <3>1, <3>2 DEF TypeOK
  <2>4. Flow'
    <3>1. Split(t, n)'
      BY <1>1, <1>2, <2>1 DEF Split
    <3> QED
      BY <3>1 DEF Flow
  <2>5. Calls'
    BY <1>1, <2>1, <2>2, CallsKept
  <2>6. Fleet'
    <3>1. \A w \in Workers : worker'[w].state = "none" <=> w > it + 1
      BY <1>3, <2>2 DEF TypeOK, Workers
    <3>2. \A w \in Workers : /\ worker'[w].state # "exited"
                             /\ worker'[w].state \in {"none", "reading", "running"} => ~worker'[w].writes
      BY <1>3, <1>4, <2>2
    <3> QED
      BY <1>1, <1>3, <2>1, <3>1, <3>2 DEF Fleet
  <2>7. Verdict' /\ SuccessMeansAllPassed' /\ NoFalseAlarm'
    BY <1>1, <1>3, <2>1 DEF Verdict, SuccessMeansAllPassed, NoFalseAlarm
  <2> QED
    BY <2>3, <2>4, <2>5, <2>6, <2>7 DEF IInv
<1>6. CASE ForkFails
  <2>1. /\ pc' = "exited" /\ status' = 1 /\ trouble' = "system"
        /\ UNCHANGED <<targets, num_processes, run_all, failing, it, pipe, worker, started, passed>>
    BY <1>6 DEF ForkFails, Fail, Exit, args
  <2>2. TypeOK'
    BY <1>3, <2>1 DEF TypeOK, RunStates, Troubles
  <2>3. Flow'
    <3>1. Split(t, n)'
      BY <1>2, <2>1 DEF Split
    <3> QED
      BY <3>1 DEF Flow
  <2>4. Calls'
    BY <1>1, <2>1, CallsKept
  <2>5. Fleet'
    BY <1>3, <1>4, <2>1 DEF Fleet
  <2>6. Verdict' /\ SuccessMeansAllPassed' /\ NoFalseAlarm'
    BY <2>1 DEF Verdict, SuccessMeansAllPassed, NoFalseAlarm
  <2> QED
    BY <2>2, <2>3, <2>4, <2>5, <2>6 DEF IInv
<1>7. CASE ForkDone
  <2>1. /\ pc' = "write" /\ it' = 0 /\ it = num_processes
        /\ UNCHANGED <<targets, num_processes, run_all, failing, pipe, worker, status, started, passed, trouble>>
    BY <1>7 DEF ForkDone, args
  <2>2. TypeOK'
    BY <1>3, <2>1 DEF TypeOK, RunStates
  <2>3. Flow'
    <3>1. Split(t, n)'
      BY <1>1, <1>2, <2>1 DEF Split
    <3> QED
      BY <3>1 DEF Flow
  <2>4. Calls'
    BY <1>1, <2>1, CallsKept
  <2>5. Fleet'
    BY <1>3, <1>4, <2>1 DEF Fleet, TypeOK
  <2>6. Verdict' /\ SuccessMeansAllPassed' /\ NoFalseAlarm'
    BY <1>3, <2>1 DEF Verdict, SuccessMeansAllPassed, NoFalseAlarm
  <2> QED
    BY <2>2, <2>3, <2>4, <2>5, <2>6 DEF IInv
<1> QED
  BY <1>5, <1>6, <1>7

(* A worker that died of its target shows that the target fails.             *)
LEMMA AbortedShows ==
    ASSUME IInv, NEW w \in Workers, worker[w].state = "aborted"
    PROVE  \E i \in 1 .. Len(targets) : started[i] = 1 /\ Fails(i)
<1>1. PICK i \in 0 .. ByteRange : i = worker[w].slot
  BY DEF IInv, TypeOK
<1>2. HolderOf(w, i)
  BY <1>1 DEF IInv, Calls, Holds
<1> QED
  BY <1>2 DEF HolderOf

(* Handing out the targets keeps the invariant.                              *)
LEMMA WriteSteps ==
    ASSUME IInv, Write \/ WriteBroken \/ WriteDone
    PROVE  IInv'
<1> USE RunnerAssumption
<1>1. pc = "write"
  BY DEF Write, WriteBroken, WriteDone
<1>2. PICK t \in 0 .. MAX_ARGS, n \in 0 .. MAX_ARGS : Split(t, n)
  BY DEF IInv, Flow
<1>3. /\ TypeOK /\ num_processes > 1 /\ Len(targets) <= MAX_TARGETS
      /\ it <= Len(targets) /\ trouble = "none" /\ status = 0
      /\ \A w \in Workers : worker[w].state = "none" <=> w > num_processes
      /\ \A w \in Workers : worker[w].state \in {"none", "reading", "running"} => ~worker[w].writes
  BY <1>1 DEF IInv, Fleet, Verdict
<1>4. \A w \in Workers : worker[w].state # "exited"
  BY <1>1 DEF IInv, Fleet, WriteEndOpen
<1>5. Len(targets) \in 0 .. MAX_ARGS
  BY <1>3 DEF TypeOK
<1>6. CASE Write
  <2>1. it % ByteRange = it /\ it \in 0 .. ByteRange - 1 /\ n = it /\ it < Len(targets)
    <3>1. it < ByteRange /\ it < Len(targets)
      BY <1>3, <1>6 DEF Write, TypeOK
    <3>2. n = it
      BY <1>1, <1>2 DEF Split
    <3>3. it \in 0 .. ByteRange - 1
      BY <1>3, <3>1 DEF TypeOK
    <3>4. it % ByteRange = it
      BY <3>3, Z3
    <3> QED
      BY <3>1, <3>2, <3>3, <3>4
  <2>2. /\ pipe' = Append(pipe, it) /\ Len(pipe) < PipeSize /\ it' = it + 1 /\ pc' = pc
        /\ UNCHANGED <<targets, num_processes, run_all, failing, worker, status, started, passed, trouble>>
    BY <1>6, <2>1 DEF Write, args
  <2>3. /\ pipe' \in Seq(0 .. ByteRange - 1) /\ Len(pipe') = Len(pipe) + 1
        /\ \A k \in 1 .. Len(pipe') : pipe'[k] = IF k = Len(pipe) + 1 THEN it ELSE pipe[k]
    BY <1>3, <2>1, <2>2 DEF TypeOK
  <2>4. TypeOK'
    BY <1>3, <2>2, <2>3 DEF TypeOK
  <2>5. Flow'
    <3>1. PICK m \in 0 .. MAX_ARGS : m = n + 1
      BY <1>5, <2>1
    <3>2. \A k \in 1 .. Len(pipe') : pipe'[k] = t + k - 1
      <4>1. Len(pipe) \in Nat /\ Len(pipe) = n - t /\ it = n
        BY <1>2, <1>3, <2>1 DEF Split, TypeOK
      <4>2. \A k \in 1 .. Len(pipe) : pipe[k] = t + k - 1
        BY <1>2 DEF Split
      <4> SUFFICES ASSUME NEW k \in 1 .. Len(pipe') PROVE pipe'[k] = t + k - 1
        OBVIOUS
      <4>3. CASE k = Len(pipe) + 1
        <5>1. pipe'[k] = it
          BY <2>3, <4>3
        <5> QED
          BY <4>1, <4>3, <5>1
      <4>4. CASE k # Len(pipe) + 1
        <5>1. k \in 1 .. Len(pipe)
          BY <2>3, <4>1, <4>4
        <5>2. pipe'[k] = pipe[k]
          BY <2>3, <4>4
        <5> QED
          BY <4>2, <5>1, <5>2
      <4> QED
        BY <4>3, <4>4
    <3>3. t <= m /\ m <= Len(targets) /\ Len(pipe') = m - t
      BY <1>2, <1>3, <1>5, <2>1, <2>3, <3>1 DEF Split, TypeOK
    <3>4. \A i \in Slots : started[i] = IF i <= t THEN 1 ELSE 0
      BY <1>2 DEF Split
    <3>5. Split(t, m)'
      BY <1>1, <2>1, <2>2, <3>1, <3>2, <3>3, <3>4 DEF Split
    <3> QED
      BY <3>5 DEF Flow
  <2>6. Calls'
    BY <1>1, <2>2, CallsKept
  <2>7. Fleet'
    BY <1>1, <1>3, <1>4, <2>1, <2>2 DEF Fleet, TypeOK
  <2>8. Verdict' /\ SuccessMeansAllPassed' /\ NoFalseAlarm'
    BY <1>1, <1>3, <2>2 DEF Verdict, SuccessMeansAllPassed, NoFalseAlarm
  <2> QED
    BY <2>4, <2>5, <2>6, <2>7, <2>8 DEF IInv
<1>7. CASE WriteBroken
  <2>1. /\ pc' = "exited" /\ status' \in {1, KILLED}
        /\ UNCHANGED <<targets, num_processes, run_all, failing, it, pipe, worker, started, passed, trouble>>
    BY <1>7 DEF WriteBroken, Exit, args
  <2>2. TypeOK'
    BY <1>3, <2>1 DEF TypeOK, RunStates
  <2>3. Flow'
    <3>1. Split(t, n)'
      BY <1>2, <2>1 DEF Split
    <3> QED
      BY <3>1 DEF Flow
  <2>4. Calls'
    BY <1>1, <2>1, CallsKept
  <2>5. Fleet'
    BY <1>3, <1>4, <2>1 DEF Fleet
  <2>6. Verdict' /\ SuccessMeansAllPassed'
    BY <2>1 DEF Verdict, SuccessMeansAllPassed, KILLED
  <2>7. NoFalseAlarm'
    <3>1. 1 \in Workers /\ worker[1].state = "aborted"
      <4>1. 1 \in Workers
        BY <1>3 DEF TypeOK, Workers
      <4>2. worker[1].state \in WorkerStates /\ ~Alive(1) /\ worker[1].state # "none"
        BY <1>1, <1>3, <1>7, <4>1 DEF WriteBroken, ReadEndOpen, TypeOK
      <4> QED
        BY <1>4, <4>1, <4>2 DEF WorkerStates, Alive
    <3>2. \E i \in 1 .. Len(targets) : started[i] = 1 /\ Fails(i)
      BY <3>1, AbortedShows
    <3> QED
      BY <2>1, <3>2 DEF NoFalseAlarm, Fails
  <2> QED
    BY <2>2, <2>3, <2>4, <2>5, <2>6, <2>7 DEF IInv
<1>8. CASE WriteDone
  <2>1. /\ pc' = "wait" /\ it' = 0 /\ it = Len(targets)
        /\ UNCHANGED <<targets, num_processes, run_all, failing, pipe, worker, status, started, passed, trouble>>
    BY <1>8 DEF WriteDone, args
  <2>2. TypeOK'
    BY <1>3, <2>1 DEF TypeOK, RunStates
  <2>3. Flow'
    <3>1. Split(t, n)'
      BY <1>1, <1>2, <2>1 DEF Split
    <3> QED
      BY <3>1 DEF Flow
  <2>4. Calls'
    BY <1>1, <2>1, CallsKept
  <2>5. Fleet'
    BY <1>3, <1>4, <2>1 DEF Fleet, TypeOK
  <2>6. Verdict' /\ SuccessMeansAllPassed' /\ NoFalseAlarm'
    BY <1>3, <2>1 DEF Verdict, SuccessMeansAllPassed, NoFalseAlarm
  <2> QED
    BY <2>2, <2>3, <2>4, <2>5, <2>6 DEF IInv
<1> QED
  BY <1>6, <1>7, <1>8

(* Collecting the workers keeps the invariant.                               *)
LEMMA WaitSteps ==
    ASSUME IInv, Wait \/ WaitDone
    PROVE  IInv'
<1> USE RunnerAssumption
<1>1. pc = "wait"
  BY DEF Wait, WaitDone
<1>2. PICK t \in 0 .. MAX_ARGS, n \in 0 .. MAX_ARGS : Split(t, n)
  BY DEF IInv, Flow
<1>3. /\ TypeOK /\ num_processes > 1 /\ Len(targets) <= MAX_TARGETS
      /\ it <= num_processes /\ trouble = "none"
      /\ \A w \in Workers : worker[w].state = "none" <=> w > num_processes
      /\ \A w \in Workers : worker[w].state \in {"none", "reading", "running"} => ~worker[w].writes
      /\ \A w \in Workers : worker[w].state = "exited" => pipe = <<>> /\ ~WriteEndOpen
  BY <1>1 DEF IInv, Fleet, Verdict
<1>4. /\ \A w \in 1 .. it : worker[w].state \in {"exited", "aborted"}
      /\ status = 0 => \A w \in 1 .. it : worker[w].state = "exited"
      /\ status # 0 => \E w \in 1 .. it : worker[w].state = "aborted"
  BY <1>1 DEF IInv, Verdict
<1>5. CASE Wait
  <2>1. /\ it' = it + 1 /\ it < num_processes /\ it + 1 \in Workers
        /\ worker[it + 1].state \in {"exited", "aborted"}
        /\ status' = IF worker[it + 1].state = "aborted" THEN 1 ELSE status
        /\ UNCHANGED <<targets, num_processes, run_all, failing, pc, pipe, worker, started, passed, trouble>>
    BY <1>3, <1>5 DEF Wait, WaitFor, args, TypeOK, Workers
  <2>2. TypeOK'
    BY <1>3, <2>1 DEF TypeOK
  <2>3. Flow'
    <3>1. Split(t, n)'
      BY <1>1, <1>2, <2>1 DEF Split
    <3> QED
      BY <3>1 DEF Flow
  <2>4. Calls'
    BY <1>1, <2>1, CallsKept
  <2>5. Fleet'
    <3>1. it' <= num_processes
      BY <1>3, <2>1 DEF TypeOK
    <3>2. WriteEndOpen' <=> WriteEndOpen
      BY <2>1 DEF WriteEndOpen, Alive
    <3> QED
      BY <1>1, <1>3, <2>1, <3>1, <3>2 DEF Fleet
  <2>6. Verdict'
    <3>1. \A w \in 1 .. it' : w \in 1 .. it \/ w = it + 1
      BY <1>3, <2>1 DEF TypeOK
    <3>2. it + 1 \in 1 .. it' /\ \A w \in 1 .. it : w \in 1 .. it'
      BY <1>3, <2>1 DEF TypeOK
    <3>3. \A w \in 1 .. it' : worker'[w].state \in {"exited", "aborted"}
      BY <1>4, <2>1, <3>1
    <3>4. status' = 0 => \A w \in 1 .. it' : worker'[w].state = "exited"
      BY <1>4, <2>1, <3>1
    <3>5. status' # 0 => \E w \in 1 .. it' : worker'[w].state = "aborted"
      BY <1>4, <2>1, <3>2
    <3> QED
      BY <1>1, <1>3, <2>1, <3>3, <3>4, <3>5 DEF Verdict
  <2>7. SuccessMeansAllPassed' /\ NoFalseAlarm'
    BY <1>1, <2>1 DEF SuccessMeansAllPassed, NoFalseAlarm
  <2> QED
    BY <2>2, <2>3, <2>4, <2>5, <2>6, <2>7 DEF IInv
<1>6. CASE WaitDone
  <2>1. /\ it = num_processes /\ pc' = "exited"
        /\ \/ status' = status /\ trouble' = "none"
           \/ status' = 1 /\ trouble' = "system"
        /\ UNCHANGED <<targets, num_processes, run_all, failing, it, pipe, worker, started, passed>>
    BY <1>3, <1>6 DEF WaitDone, Teardown, Exit, Fail, args
  <2>2. TypeOK'
    BY <1>3, <2>1 DEF TypeOK, RunStates, Troubles
  <2>3. Flow'
    <3>1. Split(t, n)'
      BY <1>2, <2>1 DEF Split
    <3> QED
      BY <3>1 DEF Flow
  <2>4. Calls'
    BY <1>1, <2>1, CallsKept
  <2>5. Fleet'
    <3>1. WriteEndOpen' => WriteEndOpen
      BY <2>1 DEF WriteEndOpen, Alive
    <3> QED
      BY <1>3, <2>1, <3>1 DEF Fleet
  <2>6. Verdict'
    BY <2>1 DEF Verdict
  <2>7. SuccessMeansAllPassed'
    <3> SUFFICES ASSUME status = 0, NEW i \in 1 .. Len(targets)
                 PROVE  passed[i] = 1 /\ ~Fails(i)
      BY <2>1 DEF SuccessMeansAllPassed, Fails
    <3>1. \A w \in Workers : worker[w].state \in {"none", "exited"}
      BY <1>3, <1>4, <2>1 DEF Workers, TypeOK
    <3>2. pipe = <<>>
      <4>1. 1 \in Workers /\ worker[1].state = "exited"
        BY <1>3, <1>4, <2>1 DEF Workers, TypeOK
      <4> QED
        BY <1>3, <4>1
    <3>3. i \in Slots /\ started[i] = 1
      BY <1>1, <1>2, <1>3, <3>2 DEF Split, Slots, TypeOK
    <3>4. CallOf(i) /\ passed[i] \in Nat
      BY <1>3, <3>3 DEF IInv, Calls, TypeOK
    <3>5. passed[i] # 0
      BY <1>1, <3>1, <3>3, <3>4 DEF CallOf, Holds
    <3>6. passed[i] <= 1
      BY <3>3, <3>4 DEF CallOf
    <3>7. passed[i] = 1
      BY <3>4, <3>5, <3>6
    <3> QED
      BY <3>4, <3>7 DEF CallOf
  <2>8. NoFalseAlarm'
    <3> SUFFICES ASSUME status # 0
                 PROVE  \E i \in 1 .. Len(targets) : started[i] = 1 /\ Fails(i)
      BY <2>1 DEF NoFalseAlarm, Fails
    <3>1. PICK w \in 1 .. it : worker[w].state = "aborted"
      BY <1>4
    <3>2. w \in Workers
      BY <1>3 DEF Workers, TypeOK
    <3> QED
      BY <3>1, <3>2, AbortedShows
  <2> QED
    BY <2>2, <2>3, <2>4, <2>5, <2>6, <2>7, <2>8 DEF IInv
<1> QED
  BY <1>5, <1>6

(* A step of a worker keeps the invariant.                                   *)
LEMMA ChildSteps ==
    ASSUME IInv, NEW w \in Workers, Child(w)
    PROVE  IInv'
<1> USE RunnerAssumption
<1>1. PICK t \in 0 .. MAX_ARGS, n \in 0 .. MAX_ARGS : Split(t, n)
  BY DEF IInv, Flow
<1>2. worker[w].state \in {"forked", "reading", "running"} /\ TypeOK
  BY DEF Child, WorkerStart, Read, RunTest, ReadEof, IInv
<1>3. pc \notin {"parse", "setup", "sequential"}
  BY <1>2 DEF IInv, Fleet, Idle
<1>4. \A v \in Workers : worker[v].state \in {"none", "reading", "running"} => ~worker[v].writes
  BY DEF IInv, Fleet
<1>5. UNCHANGED <<targets, num_processes, run_all, failing, pc, it, status, trouble>>
  BY DEF Child, WorkerStart, Read, RunTest, ReadEof, args
<1>6. \A i \in Slots : /\ started[i] \in {0, 1} /\ passed[i] \in Nat /\ passed[i] <= started[i]
                       /\ started[i] = 1 <=> i <= t
  BY <1>1, <1>2 DEF Split, IInv, Calls, CallOf, TypeOK
<1>7. ASSUME /\ \A v \in Workers \ {w} : worker'[v] = worker[v]
             /\ worker'[w].state \notin {"none", "forked"} /\ ~worker'[w].writes
             /\ worker'[w].state = "exited" => pipe = <<>> /\ ~WriteEndOpen
             /\ pipe = <<>> => pipe' = <<>>
      PROVE  Fleet' /\ Verdict'
  <2>1. WriteEndOpen' => WriteEndOpen
    BY <1>5, <1>7 DEF WriteEndOpen, Alive
  <2>2. \A v \in Workers : worker'[v].state = "none" <=> worker[v].state = "none"
    BY <1>2, <1>7
  <2>3. \A v \in Workers : worker'[v].state = "exited" => pipe' = <<>> /\ ~WriteEndOpen'
    BY <1>7, <2>1 DEF IInv, Fleet
  <2>4. \A v \in Workers : worker'[v].state \in {"none", "reading", "running"} => ~worker'[v].writes
    BY <1>4, <1>7
  <2>5. Fleet'
    BY <1>3, <1>5, <2>2, <2>3, <2>4 DEF IInv, Fleet
  <2>6. ASSUME pc = "wait", NEW v \in 1 .. it PROVE worker'[v] = worker[v]
    <3>1. worker[v].state \in {"exited", "aborted"}
      BY <2>6 DEF IInv, Verdict
    <3>2. v \in Workers
      BY <1>2, <2>6 DEF IInv, Fleet, Workers, TypeOK
    <3> QED
      BY <1>2, <1>7, <3>1, <3>2
  <2>7. Verdict'
    BY <1>5, <2>6 DEF IInv, Verdict
  <2> QED
    BY <2>5, <2>7
<1>8. ASSUME \A i \in Slots : /\ started[i] = 1 => started'[i] = 1
                              /\ passed[i] = 1 => passed'[i] = 1
      PROVE  SuccessMeansAllPassed' /\ NoFalseAlarm'
  <2>1. \A i \in 1 .. Len(targets) : i \in Slots
    BY <1>2 DEF TypeOK, Slots
  <2> QED
    BY <1>5, <1>8, <2>1 DEF IInv, SuccessMeansAllPassed, NoFalseAlarm, NoRngAborts, Fails
<1>9. CASE WorkerStart(w) \/ ReadEof(w)
  <2>1. /\ UNCHANGED <<pipe, started, passed>>
        /\ worker' \in [Workers -> [state : WorkerStates, slot : 0 .. ByteRange, writes : BOOLEAN]]
        /\ \A v \in Workers \ {w} : worker'[v] = worker[v]
        /\ worker'[w].slot = worker[w].slot /\ ~worker'[w].writes
        /\ worker'[w].state \in {"reading", "exited"} /\ worker[w].state \in {"forked", "reading"}
        /\ worker'[w].state = "exited" => pipe = <<>> /\ ~WriteEndOpen
    <3>1. CASE WorkerStart(w)
      <4>1. worker' = [worker EXCEPT ![w].state = "reading", ![w].writes = FALSE]
            /\ UNCHANGED <<pipe, started, passed>> /\ worker[w].state = "forked"
        BY <3>1 DEF WorkerStart, CloseWriteEnd
      <4> QED
        BY <1>2, <4>1 DEF TypeOK, WorkerStates
    <3>2. CASE ReadEof(w)
      <4>1. worker' = [worker EXCEPT ![w].state = "exited"] /\ worker[w].state = "reading"
            /\ UNCHANGED <<pipe, started, passed>> /\ pipe = <<>> /\ ~WriteEndOpen
        BY <3>2 DEF ReadEof, Becomes
      <4> QED
        BY <1>2, <1>4, <4>1 DEF TypeOK, WorkerStates
    <3> QED
      BY <1>9, <3>1, <3>2
  <2>2. TypeOK'
    BY <1>2, <1>5, <2>1 DEF TypeOK
  <2>3. Flow'
    <3>1. Split(t, n)'
      BY <1>1, <1>5, <2>1 DEF Split
    <3> QED
      BY <3>1 DEF Flow
  <2>4. Calls'
    BY <1>5, <2>1, CallsKept
  <2>5. Fleet' /\ Verdict'
    BY <1>7, <2>1
  <2>6. SuccessMeansAllPassed' /\ NoFalseAlarm'
    BY <1>8, <2>1
  <2> QED
    BY <2>2, <2>3, <2>4, <2>5, <2>6 DEF IInv
<1>10. CASE Read(w)
  <2>1. /\ pipe # <<>> /\ pipe' = Tail(pipe) /\ worker[w].state = "reading"
        /\ worker' = [worker EXCEPT ![w].state = "running", ![w].slot = Head(pipe) + 1]
        /\ started' = [started EXCEPT ![Head(pipe) + 1] = @ + 1]
        /\ passed' = passed
    BY <1>10 DEF Read, Called
  <2>2. /\ Len(pipe) >= 1 /\ Head(pipe) = t /\ t < n /\ n <= Len(targets)
        /\ pipe' \in Seq(0 .. ByteRange - 1) /\ Len(pipe') = Len(pipe) - 1
        /\ \A k \in 1 .. Len(pipe') : pipe'[k] = pipe[k + 1]
    <3>1. pipe \in Seq(0 .. ByteRange - 1) /\ Len(pipe) \in Nat /\ Len(pipe) # 0
      BY <1>2, <2>1 DEF TypeOK
    <3>2. Head(pipe) = pipe[1] /\ pipe[1] = t
      <4>1. 1 \in 1 .. Len(pipe)
        BY <3>1
      <4>2. pipe[1] = t + 1 - 1
        BY <1>1, <4>1 DEF Split
      <4> QED
        BY <3>1, <4>2
    <3>3. t < n /\ n <= Len(targets)
      BY <1>1, <3>1 DEF Split
    <3>4. pipe' \in Seq(0 .. ByteRange - 1) /\ Len(pipe') = Len(pipe) - 1
      BY <2>1, <3>1
    <3>5. \A k \in 1 .. Len(pipe') : pipe'[k] = pipe[k + 1]
      BY <2>1, <3>1
    <3> QED
      BY <3>1, <3>2, <3>3, <3>4, <3>5
  <2>3. PICK i \in Slots : i = t + 1
    BY <1>2, <2>2 DEF Slots, TypeOK
  <2>4. started[i] = 0 /\ passed[i] = 0 /\ i \in 1 .. Len(targets) /\ i \in 0 .. ByteRange
    <3>1. started[i] = 0 /\ passed[i] = 0
      <4>1. ~(i <= t)
        BY <2>3
      <4>2. started[i] = 0
        BY <1>6, <4>1
      <4>3. passed[i] \in Nat /\ passed[i] <= 0
        BY <1>6, <4>2
      <4> QED
        BY <4>2, <4>3
    <3>2. Head(pipe) \in 0 .. ByteRange - 1
      <4>1. pipe \in Seq(0 .. ByteRange - 1) /\ pipe # <<>>
        BY <1>2, <2>1 DEF TypeOK
      <4>2. Head(pipe) = pipe[1] /\ 1 \in 1 .. Len(pipe)
        BY <2>2, <4>1
      <4> QED
        BY <4>1, <4>2
    <3>3. i \in 1 .. Len(targets)
      <4>1. Len(targets) \in Nat /\ t + 1 <= Len(targets)
        BY <1>2, <2>2 DEF TypeOK
      <4> QED
        BY <2>3, <4>1
    <3>4. i \in 0 .. ByteRange
      BY <2>2, <2>3, <3>2
    <3> QED
      BY <3>1, <3>3, <3>4
  <2>5. started' = [started EXCEPT ![i] = 1]
    <3>1. Head(pipe) + 1 = i /\ started[i] + 1 = 1
      BY <2>2, <2>3, <2>4
    <3> QED
      BY <2>1, <3>1
  <2>6. /\ worker' \in [Workers -> [state : WorkerStates, slot : 0 .. ByteRange, writes : BOOLEAN]]
        /\ \A v \in Workers \ {w} : worker'[v] = worker[v]
        /\ worker'[w].state = "running" /\ worker'[w].slot = i /\ ~worker'[w].writes
    <3>1. worker' = [worker EXCEPT ![w].state = "running", ![w].slot = i]
      <4>1. Head(pipe) + 1 = i
        BY <2>2, <2>3
      <4> QED
        BY <2>1, <4>1
    <3>2. i \in 0 .. ByteRange /\ worker \in [Workers -> [state : WorkerStates, slot : 0 .. ByteRange, writes : BOOLEAN]]
      BY <1>2, <2>4 DEF TypeOK
    <3>3. ~worker[w].writes
      BY <1>4, <2>1
    <3> HIDE RunnerAssumption
    <3> QED
      BY <3>1, <3>2, <3>3 DEF WorkerStates
  <2>7. \A k \in Slots : started'[k] = IF k <= i THEN 1 ELSE 0
    <3> SUFFICES ASSUME NEW k \in Slots PROVE started'[k] = IF k <= i THEN 1 ELSE 0
      OBVIOUS
    <3>1. started'[k] = IF k = i THEN 1 ELSE started[k]
      BY <1>2, <2>5 DEF TypeOK
    <3>2. started[k] = IF k <= t THEN 1 ELSE 0
      BY <1>1 DEF Split
    <3> QED
      BY <2>3, <3>1, <3>2 DEF Slots
  <2>8. TypeOK'
    <3>1. Len(pipe') <= PipeSize
      BY <1>2, <2>2 DEF TypeOK
    <3>2. started' \in [Slots -> Nat]
      BY <1>2, <2>5 DEF TypeOK
    <3> QED
      BY <1>2, <1>5, <2>1, <2>2, <2>6, <3>1, <3>2 DEF TypeOK
  <2>9. Flow'
    <3>1. \A k \in 1 .. Len(pipe') : pipe'[k] = i + k - 1
      <4> TAKE k \in 1 .. Len(pipe')
      <4>1. k + 1 \in 1 .. Len(pipe)
        BY <1>2, <2>2 DEF TypeOK
      <4>2. pipe[k + 1] = t + (k + 1) - 1
        BY <1>1, <4>1 DEF Split
      <4> QED
        BY <2>2, <2>3, <4>2
    <3>2. i <= n /\ Len(pipe') = n - i /\ i \in 0 .. MAX_ARGS
      BY <1>1, <2>2, <2>3 DEF Split, Slots
    <3>3. Split(i, n)'
      BY <1>1, <1>5, <2>7, <3>1, <3>2 DEF Split
    <3> QED
      BY <3>2, <3>3 DEF Flow
  <2>10. \A v \in Workers \ {w} : \A k : Holds(v, k)' <=> Holds(v, k)
    BY <2>6 DEF Holds
  <2>11. \A v \in Workers : \A k \in 0 .. ByteRange : Holds(v, k) => k # i /\ HolderOf(v, k)
    BY <2>4 DEF IInv, Calls, HolderOf
  <2>12. ASSUME NEW k \in Slots PROVE CallOf(k)'
    <3>1. CASE k = i
      BY <1>5, <2>1, <2>4, <2>5, <2>6, <2>7, <3>1 DEF CallOf, Holds
    <3>2. CASE k # i
      <4>1. started'[k] = started[k] /\ passed'[k] = passed[k]
        BY <1>2, <2>1, <2>5, <3>2 DEF TypeOK
      <4>2. (\E v \in Workers : Holds(v, k)) => \E v \in Workers : Holds(v, k)'
        BY <2>1, <2>10, ZenonT(30) DEF Holds
      <4> QED
        BY <1>5, <4>1, <4>2 DEF IInv, Calls, CallOf, Fails
    <3> QED
      BY <3>1, <3>2
  <2>13. ASSUME NEW v \in Workers, NEW k \in 0 .. ByteRange, Holds(v, k)' PROVE HolderOf(v, k)'
    <3>1. CASE v = w
      <4>1. k = i
        BY <2>6, <2>13, <3>1 DEF Holds
      <4>2. \A u \in Workers : Holds(u, i)' => u = w
        BY <2>4, <2>10, <2>11
      <4> QED
        BY <1>5, <2>1, <2>3, <2>4, <2>6, <2>7, <3>1, <4>1, <4>2 DEF HolderOf
    <3>2. CASE v # w
      <4>1. Holds(v, k) /\ k # i /\ HolderOf(v, k)
        BY <2>10, <2>11, <2>13, <3>2
      <4>2. started'[k] = started[k] /\ passed'[k] = passed[k]
        BY <1>2, <2>1, <2>5, <4>1 DEF TypeOK, HolderOf
      <4>3. \A u \in Workers : Holds(u, k)' => u = v
        <5>1. ~Holds(w, k)'
          BY <2>6, <4>1 DEF Holds
        <5> QED
          BY <2>10, <4>1, <5>1 DEF HolderOf
      <4>4. worker'[v] = worker[v]
        BY <2>6, <3>2
      <4> QED
        BY <1>5, <4>1, <4>2, <4>3, <4>4 DEF HolderOf, Fails
    <3> QED
      BY <3>1, <3>2
  <2>14. Calls'
    BY <2>12, <2>13 DEF Calls
  <2>15. Fleet' /\ Verdict'
    BY <1>7, <2>1, <2>6
  <2>16. SuccessMeansAllPassed' /\ NoFalseAlarm'
    BY <1>2, <1>8, <2>1, <2>4, <2>5 DEF TypeOK
  <2> QED
    BY <2>8, <2>9, <2>14, <2>15, <2>16 DEF IInv
<1>11. CASE RunTest(w)
  <2>1. PICK i \in 0 .. ByteRange : i = worker[w].slot
    BY <1>2 DEF TypeOK
  <2>2. worker[w].state = "running" /\ Holds(w, i) /\ HolderOf(w, i)
    BY <1>11, <2>1 DEF RunTest, Holds, IInv, Calls
  <2>3. UNCHANGED <<pipe, started>>
    BY <1>11 DEF RunTest
  <2>4. Flow'
    <3>1. Split(t, n)'
      BY <1>1, <1>5, <2>3 DEF Split
    <3> QED
      BY <3>1 DEF Flow
  <2>5. CASE Fails(i)
    <3>1. worker' = [worker EXCEPT ![w].state = "aborted"] /\ passed' = passed
      BY <1>11, <2>1, <2>5 DEF RunTest, Becomes
    <3>2. /\ worker' \in [Workers -> [state : WorkerStates, slot : 0 .. ByteRange, writes : BOOLEAN]]
          /\ \A v \in Workers \ {w} : worker'[v] = worker[v]
          /\ worker'[w].state = "aborted" /\ worker'[w].slot = i /\ ~worker'[w].writes
      BY <1>2, <1>4, <2>1, <2>2, <3>1 DEF TypeOK, WorkerStates
    <3>3. TypeOK'
      BY <1>2, <1>5, <2>3, <3>1, <3>2 DEF TypeOK
    <3>4. \A k : \A v \in Workers : Holds(v, k)' <=> Holds(v, k)
      BY <2>1, <2>2, <3>2 DEF Holds
    <3>5. ASSUME NEW k \in Slots PROVE CallOf(k)'
      BY <1>5, <2>3, <3>1, <3>4 DEF IInv, Calls, CallOf, Fails
    <3>6. ASSUME NEW v \in Workers, NEW k \in 0 .. ByteRange, Holds(v, k)' PROVE HolderOf(v, k)'
      <4>1. Holds(v, k) /\ HolderOf(v, k)
        BY <3>4, <3>6 DEF IInv, Calls
      <4>2. worker'[v].state = "aborted" => Fails(k)
        BY <2>1, <2>5, <3>2, <4>1 DEF Holds, HolderOf
      <4> QED
        BY <1>5, <2>3, <3>1, <3>4, <4>1, <4>2 DEF HolderOf, Fails
    <3>7. Calls'
      BY <3>5, <3>6 DEF Calls
    <3>8. Fleet' /\ Verdict'
      BY <1>7, <2>3, <3>2
    <3>9. SuccessMeansAllPassed' /\ NoFalseAlarm'
      BY <1>8, <2>3, <3>1
    <3> QED
      BY <2>4, <3>3, <3>7, <3>8, <3>9 DEF IInv
  <2>6. CASE ~Fails(i)
    <3>1. worker' = [worker EXCEPT ![w].state = "reading"] /\ passed' = [passed EXCEPT ![i] = @ + 1]
      BY <1>11, <2>1, <2>6 DEF RunTest, NextJob, Becomes, Returned
    <3>2. i \in Slots /\ i \in 1 .. Len(targets) /\ started[i] = 1 /\ passed[i] = 0
      BY <2>2 DEF HolderOf
    <3>3. passed' = [passed EXCEPT ![i] = 1]
      BY <3>1, <3>2
    <3>4. /\ worker' \in [Workers -> [state : WorkerStates, slot : 0 .. ByteRange, writes : BOOLEAN]]
          /\ \A v \in Workers \ {w} : worker'[v] = worker[v]
          /\ worker'[w].state = "reading" /\ ~worker'[w].writes
      BY <1>2, <1>4, <2>2, <3>1 DEF TypeOK, WorkerStates
    <3>5. TypeOK'
      BY <1>2, <1>5, <2>3, <3>3, <3>4 DEF TypeOK
    <3>6. \A k : \A v \in Workers : Holds(v, k)' <=> Holds(v, k) /\ v # w
      BY <3>4 DEF Holds
    <3>7. \A v \in Workers : \A k \in 0 .. ByteRange : Holds(v, k)' => Holds(v, k) /\ HolderOf(v, k) /\ k # i
      BY <2>1, <2>2, <3>6 DEF IInv, Calls, HolderOf
    <3>8. ASSUME NEW k \in Slots PROVE CallOf(k)'
      <4>1. CASE k = i
        BY <1>5, <2>3, <2>6, <3>2, <3>3, <1>2, <4>1 DEF CallOf, Fails, TypeOK
      <4>2. CASE k # i
        <5>1. started'[k] = started[k] /\ passed'[k] = passed[k]
          BY <1>2, <2>3, <3>3, <4>2 DEF TypeOK
        <5>2. (\E v \in Workers : Holds(v, k)) => \E v \in Workers : Holds(v, k)'
          BY <2>1, <3>6, <4>2 DEF Holds
        <5> QED
          BY <1>5, <5>1, <5>2 DEF IInv, Calls, CallOf, Fails
      <4> QED
        BY <4>1, <4>2
    <3>9. ASSUME NEW v \in Workers, NEW k \in 0 .. ByteRange, Holds(v, k)' PROVE HolderOf(v, k)'
      <4>1. Holds(v, k) /\ HolderOf(v, k) /\ k # i /\ v # w
        BY <3>6, <3>7, <3>9
      <4>2. started'[k] = started[k] /\ passed'[k] = passed[k]
        BY <1>2, <2>3, <3>3, <4>1 DEF TypeOK, HolderOf
      <4>3. worker'[v] = worker[v]
        BY <3>4, <4>1
      <4> QED
        BY <1>5, <3>6, <4>1, <4>2, <4>3 DEF HolderOf, Fails
    <3>10. Calls'
      BY <3>8, <3>9 DEF Calls
    <3>11. Fleet' /\ Verdict'
      BY <1>7, <2>3, <3>4
    <3>12. SuccessMeansAllPassed' /\ NoFalseAlarm'
      BY <1>2, <1>8, <2>3, <3>3 DEF TypeOK
    <3> QED
      BY <2>4, <3>5, <3>10, <3>11, <3>12 DEF IInv
  <2> QED
    BY <2>5, <2>6
<1> QED
  BY <1>9, <1>10, <1>11 DEF Child

-----------------------------------------------------------------------------
(* The invariant holds in every state of every run.                          *)
THEOREM Invariance == Spec => []IInv
<1>1. Init => IInv
  BY InitInvariant
<1>2. IInv /\ [Next]_vars => IInv'
  <2> SUFFICES ASSUME IInv, [Next]_vars PROVE IInv'
    OBVIOUS
  <2>1. CASE UNCHANGED vars
    <3>1. TypeOK' /\ Verdict'
      BY <2>1 DEF vars, IInv, TypeOK, Verdict
    <3>2. Flow'
      BY <2>1 DEF vars, IInv, Flow, Split
    <3>3. Calls'
      BY <2>1 DEF vars, IInv, Calls, CallOf, HolderOf, Holds, Fails
    <3>4. Fleet'
      BY <2>1 DEF vars, IInv, Fleet, WriteEndOpen, Alive
    <3>5. SuccessMeansAllPassed' /\ NoFalseAlarm'
      BY <2>1 DEF vars, IInv, SuccessMeansAllPassed, NoFalseAlarm, Fails, NoRngAborts
    <3> QED
      BY <3>1, <3>2, <3>3, <3>4, <3>5 DEF IInv
  <2>2. CASE Next
    BY <2>2, ParseSteps, SequentialSteps, ForkSteps, WriteSteps, WaitSteps, ChildSteps
    DEF Next, Parent
  <2> QED
    BY <2>1, <2>2
<1> QED
  BY <1>1, <1>2, PTL DEF Spec

(* Every variable of the runner keeps its type.                              *)
THEOREM TypeCorrect == Spec => []TypeOK
<1>1. IInv => TypeOK
  BY DEF IInv
<1> QED
  BY <1>1, Invariance, PTL

(* No target is ever run twice, for any number of targets and workers.       *)
THEOREM RunsOnce == Spec => []JobRunsOnce
<1>1. IInv => JobRunsOnce
  BY DEF IInv, Flow, Split, JobRunsOnce
<1> QED
  BY <1>1, Invariance, PTL

(* An exit status of success means that every selected target passed.        *)
THEOREM SuccessIsReal == Spec => []SuccessMeansAllPassed
<1>1. IInv => SuccessMeansAllPassed
  BY DEF IInv
<1> QED
  BY <1>1, Invariance, PTL

(* A failing exit status has a failed test or trouble behind it.             *)
THEOREM FailureIsReal == Spec => []NoFalseAlarm
<1>1. IInv => NoFalseAlarm
  BY DEF IInv
<1> QED
  BY <1>1, Invariance, PTL
=============================================================================
