----------------------------- MODULE TestRunner -----------------------------
(***************************************************************************)
(* The test framework (src/unit_test.c): the command line selects targets  *)
(* and a number of worker processes; the workers take one-byte indices of  *)
(* targets from a pipe that the parent fills, and the parent's exit status *)
(* says whether everything passed.  A test that fails aborts its process.  *)
(* Slots are counted from 1 here; the byte in the pipe counts from 0.      *)
(***************************************************************************)
EXTENDS Integers, SequencesExt

CONSTANTS
    Tests,              \* the tests that can be registered
    Registry,           \* registry_modules: one sequence of tests per module
    NoRngTests,         \* registry_no_rng
    MAX_ARGS,
    MAX_TARGETS,
    MAX_SUBPROCESSES,
    ByteRange,          \* values of the unsigned char that names a target, 256
    PipeSize            \* what the pipe holds before a write blocks

ASSUME RunnerAssumption ==
    /\ Registry \in Seq(Seq(Tests)) /\ NoRngTests \subseteq Tests
    /\ MAX_ARGS \in Nat /\ MAX_SUBPROCESSES \in Nat /\ PipeSize \in Nat \ {0}
    /\ MAX_TARGETS \in Nat /\ ByteRange \in Nat /\ MAX_TARGETS < ByteRange
    /\ FlattenSeq(Registry) \in Seq(Tests)

Workers == 1 .. MAX_SUBPROCESSES
Slots == 1 .. MAX_ARGS
RunStates == {"parse", "setup", "sequential", "fork", "write", "wait", "exited"}
Troubles == {"none", "argument", "unknown_argument", "too_many", "system"}
WorkerStates == {"none", "forked", "reading", "running", "exited", "aborted"}

Idle == [state |-> "none", slot |-> 0, writes |-> FALSE]
KILLED == 2         \* status of a parent that a signal ended

VARIABLES
    pc,                 \* what the parent is doing
    targets,            \* args.targets.slots
    num_processes,      \* args.num_processes
    run_all,
    it,                 \* the parent's loop iterator
    pipe,
    worker,             \* what each child does, the slot it last took, and
                        \* whether it has a write end of the pipe
    status,             \* of the parent: 0, 1 or KILLED
    failing,            \* the tests that do not pass
    started, passed,    \* per slot: calls of its test, and returns
    trouble             \* what went wrong other than a test

vars == <<pc, targets, num_processes, run_all, it, pipe, worker, status,
          failing, started, passed, trouble>>
args == <<targets, num_processes, run_all, failing>>

(* Counters, file descriptors and process states within their ranges.        *)
TypeOK ==
    /\ pc \in RunStates
    /\ targets \in Seq(Tests) /\ Len(targets) <= MAX_ARGS
    /\ num_processes \in 0 .. MAX_SUBPROCESSES
    /\ run_all \in BOOLEAN
    /\ it \in Nat
    /\ pipe \in Seq(0 .. ByteRange - 1) /\ Len(pipe) <= PipeSize
    /\ worker \in [Workers -> [state : WorkerStates, slot : 0 .. ByteRange,
                               writes : BOOLEAN]]
    /\ status \in {0, 1, KILLED}
    /\ failing \in SUBSET Tests
    /\ started \in [Slots -> Nat] /\ passed \in [Slots -> Nat]
    /\ trouble \in Troubles

Init ==
    /\ pc = "parse" /\ targets = <<>> /\ num_processes = 0 /\ run_all = FALSE
    /\ it = 0 /\ pipe = <<>> /\ status = 0 /\ trouble = "none"
    /\ worker = [w \in Workers |-> Idle]
    /\ started = [i \in Slots |-> 0] /\ passed = [i \in Slots |-> 0]
    /\ failing \in SUBSET Tests

(* The parent ends; the descriptors it still holds are closed with it.       *)
Exit(code) == pc' = "exited" /\ status' = code
Fail(what) == Exit(1) /\ trouble' = what

-----------------------------------------------------------------------------
(* tf_init: the arguments, one at a time.                                    *)

(* An argument that is malformed, out of range or names no test.             *)
BadArgument ==
    /\ pc = "parse"
    /\ Fail("argument")
    /\ UNCHANGED <<args, it, pipe, worker, started, passed>>

(* parse_arg finds no handler for the key: it reports it and returns -1,     *)
(* which read_args and tf_init hand on.                                      *)
UnknownArgument ==
    /\ pc = "parse"
    /\ Fail("unknown_argument")
    /\ UNCHANGED <<args, it, pipe, worker, started, passed>>

(* parse_target adds the tests it selects one by one and gives up when the   *)
(* slots are full.                                                           *)
AddTargets(tests) ==
    /\ pc = "parse"
    /\ IF Len(targets) + Len(tests) > MAX_ARGS
       THEN Fail("too_many") /\ UNCHANGED targets
       ELSE targets' = targets \o tests /\ UNCHANGED <<pc, status, trouble>>
    /\ UNCHANGED <<num_processes, run_all, failing, it, pipe, worker, started, passed>>

parse_target ==
    \E m \in DOMAIN Registry :
        \/ AddTargets(Registry[m])
        \/ \E k \in DOMAIN Registry[m] : AddTargets(<<Registry[m][k]>>)

JobsInRange == 0 .. MAX_SUBPROCESSES

parse_jobs_count ==
    /\ pc = "parse"
    /\ num_processes' \in JobsInRange
    /\ UNCHANGED <<pc, targets, run_all, failing, it, pipe, worker, status,
                   started, passed, trouble>>

-----------------------------------------------------------------------------
(* tf_run up to the choice of the runner.                                    *)

AllTests == FlattenSeq(Registry)

Populate ==
    /\ pc = "parse"
    /\ run_all' = (targets = <<>>)
    /\ IF targets = <<>> /\ Len(AllTests) > MAX_ARGS
       THEN Fail("too_many") /\ UNCHANGED targets
       ELSE /\ targets' = IF targets = <<>> THEN AllTests ELSE targets
            /\ pc' = "setup" /\ UNCHANGED <<status, trouble>>
    /\ UNCHANGED <<num_processes, failing, it, pipe, worker, started, passed>>

(* The tests that need no random numbers run in the parent, and only when    *)
(* nothing was selected.                                                     *)
NoRngAborts == run_all /\ NoRngTests \cap failing # {}

NoRngAbort ==
    /\ pc = "setup" /\ NoRngAborts
    /\ Exit(KILLED)
    /\ UNCHANGED <<args, it, pipe, worker, started, passed, trouble>>

SetupFails ==
    /\ pc = "setup" /\ ~NoRngAborts
    /\ Fail("system")
    /\ UNCHANGED <<args, it, pipe, worker, started, passed>>

(* Faulty variant: no limit on the number of targets of a concurrent run.    *)
NeverOversized == FALSE

Oversized == Len(targets) > MAX_TARGETS

Setup ==
    /\ pc = "setup" /\ ~NoRngAborts
    /\ it' = 0
    /\ \/ num_processes <= 1
          /\ pc' = "sequential" /\ UNCHANGED <<status, trouble>>
       \/ num_processes > 1 /\ ~Oversized
          /\ pc' = "fork" /\ UNCHANGED <<status, trouble>>
       \/ num_processes > 1     \* too many targets, or pipe() fails
          /\ Fail(IF Oversized THEN "too_many" ELSE "system")
    /\ UNCHANGED <<args, pipe, worker, started, passed>>

-----------------------------------------------------------------------------
(* Running slot i calls its test, which returns or aborts the process.       *)
Called(i) == started' = [started EXCEPT ![i] = @ + 1]
Returned(i) == passed' = [passed EXCEPT ![i] = @ + 1]
Fails(i) == targets[i] \in failing

RunSequential ==
    /\ pc = "sequential" /\ it < Len(targets)
    /\ Called(it + 1)
    /\ IF Fails(it + 1)
       THEN Exit(KILLED) /\ UNCHANGED <<passed, it>>
       ELSE Returned(it + 1) /\ it' = it + 1 /\ UNCHANGED <<pc, status>>
    /\ UNCHANGED <<args, pipe, worker, trouble>>

(* fn_teardown may still turn the status of a run into a failure.            *)
Teardown(code) ==
    \/ Exit(code) /\ UNCHANGED trouble
    \/ Fail("system")

SequentialDone ==
    /\ pc = "sequential" /\ it = Len(targets)
    /\ Teardown(0)
    /\ UNCHANGED <<args, it, pipe, worker, started, passed>>

-----------------------------------------------------------------------------
(* run_concurrent, the parent.                                               *)

Fork ==
    /\ pc = "fork" /\ it < num_processes
    /\ worker' = [worker EXCEPT ![it + 1].state = "forked", ![it + 1].writes = TRUE]
    /\ it' = it + 1
    /\ UNCHANGED <<args, pc, pipe, status, started, passed, trouble>>

(* The children forked so far are left to themselves.                        *)
ForkFails ==
    /\ pc = "fork" /\ it < num_processes
    /\ Fail("system")
    /\ UNCHANGED <<args, it, pipe, worker, started, passed>>

ForkDone ==
    /\ pc = "fork" /\ it = num_processes
    /\ pc' = "write" /\ it' = 0
    /\ UNCHANGED <<args, pipe, worker, status, started, passed, trouble>>

Alive(w) == worker[w].state \in {"forked", "reading", "running"}
ReadEndOpen == pc = "fork" \/ \E w \in Workers : Alive(w)
WriteEndOpen == pc \in {"fork", "write"} \/ \E w \in Workers : Alive(w) /\ worker[w].writes

Write ==
    /\ pc = "write" /\ it < Len(targets)
    /\ ReadEndOpen /\ Len(pipe) < PipeSize
    /\ pipe' = Append(pipe, it % ByteRange)
    /\ it' = it + 1
    /\ UNCHANGED <<args, pc, worker, status, started, passed, trouble>>

(* Nobody is left to read: the parent dies of SIGPIPE, or write() fails.     *)
WriteBroken ==
    /\ pc = "write" /\ it < Len(targets) /\ ~ReadEndOpen
    /\ \E code \in {1, KILLED} : Exit(code)
    /\ UNCHANGED <<args, it, pipe, worker, started, passed, trouble>>

WriteDone ==
    /\ pc = "write" /\ it = Len(targets)
    /\ pc' = "wait" /\ it' = 0
    /\ UNCHANGED <<args, pipe, worker, status, started, passed, trouble>>

(* Faulty variant: waits for a worker without looking at how it ended.       *)
WaitIgnoresStatus(w) ==
    /\ worker[w].state \in {"exited", "aborted"}
    /\ UNCHANGED status

WaitFor(w) ==
    /\ worker[w].state \in {"exited", "aborted"}
    /\ status' = IF worker[w].state = "aborted" THEN 1 ELSE status

Wait ==
    /\ pc = "wait" /\ it < num_processes
    /\ WaitFor(it + 1)
    /\ it' = it + 1
    /\ UNCHANGED <<args, pc, pipe, worker, started, passed, trouble>>

WaitDone ==
    /\ pc = "wait" /\ it = num_processes
    /\ Teardown(status)
    /\ UNCHANGED <<args, it, pipe, worker, started, passed>>

-----------------------------------------------------------------------------
(* run_concurrent, a child.                                                  *)

Becomes(w, state) == worker' = [worker EXCEPT ![w].state = state]

(* Faulty variants: a child keeps its write end; a child reads one target.   *)
KeepWriteEnd(w) == Becomes(w, "reading")
ExitAfterOne(w) == Becomes(w, "exited")

CloseWriteEnd(w) ==
    worker' = [worker EXCEPT ![w].state = "reading", ![w].writes = FALSE]
NextJob(w) == Becomes(w, "reading")

WorkerStart(w) ==
    /\ worker[w].state = "forked"
    /\ CloseWriteEnd(w)
    /\ UNCHANGED <<args, pc, it, pipe, status, started, passed, trouble>>

Read(w) ==
    /\ worker[w].state = "reading" /\ pipe # <<>>
    /\ worker' = [worker EXCEPT ![w].state = "running", ![w].slot = Head(pipe) + 1]
    /\ pipe' = Tail(pipe)
    /\ Called(Head(pipe) + 1)
    /\ UNCHANGED <<args, pc, it, status, passed, trouble>>

RunTest(w) ==
    /\ worker[w].state = "running"
    /\ IF Fails(worker[w].slot)
       THEN Becomes(w, "aborted") /\ UNCHANGED passed
       ELSE NextJob(w) /\ Returned(worker[w].slot)
    /\ UNCHANGED <<args, pc, it, pipe, status, started, trouble>>

ReadEof(w) ==
    /\ worker[w].state = "reading" /\ pipe = <<>> /\ ~WriteEndOpen
    /\ Becomes(w, "exited")
    /\ UNCHANGED <<args, pc, it, pipe, status, started, passed, trouble>>

-----------------------------------------------------------------------------
Parent ==
    \/ Populate \/ NoRngAbort \/ SetupFails \/ Setup
    \/ RunSequential \/ SequentialDone
    \/ Fork \/ ForkFails \/ ForkDone \/ Write \/ WriteBroken \/ WriteDone
    \/ Wait \/ WaitDone

Child(w) == WorkerStart(w) \/ Read(w) \/ RunTest(w) \/ ReadEof(w)

Next ==
    \/ BadArgument \/ UnknownArgument \/ parse_target \/ parse_jobs_count
    \/ Parent
    \/ \E w \in Workers : Child(w)

Spec == Init /\ [][Next]_vars

(* The scheduler runs every process, and tests end.                          *)
FairSpec == Spec /\ WF_vars(Parent) /\ \A w \in Workers : WF_vars(Child(w))

-----------------------------------------------------------------------------
(* No target is run twice, whichever workers race for the pipe and however   *)
(* many targets there are.                                                   *)
JobRunsOnce == \A i \in Slots : started[i] <= 1

(* A run that reports success has run every selected target to its end.      *)
SuccessMeansAllPassed ==
    (pc = "exited" /\ status = 0) =>
        \A i \in 1 .. Len(targets) : passed[i] = 1 /\ ~Fails(i)

(* A run fails for a reason: a test that did not pass, or trouble with the   *)
(* arguments or the system.                                                  *)
NoFalseAlarm ==
    (pc = "exited" /\ status # 0 /\ trouble = "none") =>
        \/ NoRngAborts
        \/ \E i \in 1 .. Len(targets) : started[i] = 1 /\ Fails(i)

(* The parent and every worker end: nobody blocks on the pipe or in waitpid  *)
(* for good, not even when workers abort or a fork fails.                    *)
Ends == <>(pc = "exited" /\ \A w \in Workers : ~Alive(w))

(* help(): "Unknown arguments are reported but ignored."                     *)
UnknownArgumentsIgnored == trouble # "unknown_argument"
=============================================================================
