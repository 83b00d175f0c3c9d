----------------------------- MODULE JudgeEngine -----------------------------
(***************************************************************************)
(* RealJudgeEngine (services/judge-service-python/app/engine.py) with the  *)
(* sandbox helper and the cgroup it creates for every run: one worker      *)
(* process judges one submission after the other.  The helper, the program *)
(* it runs and a background process of that program go on beside the       *)
(* engine, which reads their pipes against a deadline.                     *)
(*                                                                         *)
(* Data is reduced to what decides a verdict: memory to three sizes, an    *)
(* output to right or wrong, standard error to a sequence of lines.        *)
(***************************************************************************)
EXTENDS Integers, Sequences

CONSTANTS
    Hosts,      \* configurations of worker and kernel, see HostType
    ErrKinds,   \* what programs leave on standard error, a subset of AllErrKinds
    MaxCases,   \* bound: test cases of a problem
    MaxJobs     \* bound: submissions judged by one worker process

(***************************************************************************)
(* cgroup is JUDGE_CGROUP, ns tells whether JUDGE_NS makes a jail; peak    *)
(* tells whether the kernel has memory.peak (5.19 and later), kill whether *)
(* it has cgroup.kill (5.14 and later).                                    *)
(***************************************************************************)
HostType == [cgroup : {"off", "auto", "require"}, ns : BOOLEAN,
             peak : BOOLEAN, kill : BOOLEAN]

\* Nothing, whole lines, a last line without its newline, or more than
\* MAX_OUTPUT_CHARS.
AllErrKinds == {"none", "line", "part", "full"}

\* What the constants must satisfy.
EngineAssumption ==
    /\ Hosts \subseteq HostType
    /\ ErrKinds \subseteq AllErrKinds
    /\ MaxCases \in Nat /\ MaxJobs \in Nat

VARIABLES
    host,     \* the configuration, which never changes
    jobs,     \* number of submissions taken so far
    job,      \* the one being judged: language and number of test cases
    pc,       \* where the engine is
    phase,    \* which subprocess it is at: the compiler or the program
    held,     \* what the finally blocks still have to remove
    prog,     \* the program (or compiler): none, running, dying, ended
    beh,      \* what it did, set when it ends
    helper,   \* sandbox_helper: none, waiting, reaped, gone
    stray,    \* a background process of the program
    err,      \* the lines of standard error kept so far
    full,     \* MAX_OUTPUT_CHARS of standard error are reached: the rest is dropped
    cum,      \* RUSAGE_CHILDREN of the worker is above the limit
    res,      \* the _RunResult of the case
    verdict,  \* the Verdict of the submission
    fact,     \* for the properties: what really happened in this case
    truths,   \* for the properties: the facts of the cases judged so far
    leaked    \* for the properties: a cgroup directory was left behind

world == <<prog, beh, helper, stray, err, full>>
vars == <<host, jobs, job, pc, phase, held, prog, beh, helper, stray, err,
          full, cum, res, verdict, fact, truths, leaked>>

Langs == {"interpreted", "compiled", "unsupported"}
\* Right: equal after strip(), or once all white space is left out.
Outputs == {"right", "wrong"}
Statuses == {"none", "OK", "AC", "WA", "CE", "TLE", "MLE", "RE"}
Tokens == {"line", "part", "cg", "ru", "glued"}
FactType == [status : Statuses, misread : BOOLEAN]

(***************************************************************************)
(* The memory of a run.  MEMORY_LIMIT_KB is 524288: tiny when memory.peak, *)
(* in bytes, is not above that number, high when the program's own peak,   *)
(* in kilobytes, is above it.  Nearly all programs are between the two.    *)
(***************************************************************************)
Sizes == {"tiny", "usual", "high"}

(***************************************************************************)
(* How a program ends: its exit, its memory, what it printed, and the      *)
(* process it leaves in the background: in the process group of the helper *)
(* or in a session of its own, with or without the pipes.  The kernel      *)
(* kills for memory only inside a cgroup, whose memory.max (1 or 2 GB) is  *)
(* above MEMORY_LIMIT_KB.                                                  *)
(***************************************************************************)
Behaviours ==
    { b \in [exit : {"zero", "nonzero", "xcpu", "oom"}, mem : Sizes,
             out : Outputs, err : ErrKinds, bg : {"none", "group", "session"},
             pipes : BOOLEAN] :
        /\ b.exit = "oom" => b.mem = "high"
        /\ b.exit # "zero" => b.out = "wrong"
        /\ b.bg = "none" => ~b.pipes }

\* A compiler prints whole lines and leaves nothing in the background.
CompilerBehaviours ==
    { b \in Behaviours : /\ b.bg = "none"
                         /\ b.err \in {"none", "line"}
                         /\ b.out = IF b.exit = "zero" THEN "right" ELSE "wrong" }

NoBehaviour == [exit |-> "zero", mem |-> "tiny", out |-> "wrong", err |-> "none",
                bg |-> "none", pipes |-> FALSE]
NoStray == [state |-> "none", pipes |-> FALSE, group |-> FALSE]

TypeOK ==
    /\ host \in Hosts
    /\ jobs \in 0..MaxJobs
    /\ job \in [lang : Langs, cases : 0..MaxCases]
    /\ pc \in {"idle", "create", "spawn", "reading", "kill", "destroy", "judge", "done"}
    /\ phase \in {"compile", "run"}
    /\ held \subseteq {"cgroup", "jail", "workdir", "tmp"}
    /\ prog \in {"none", "running", "dying", "ended"}
    /\ beh \in [exit : {"zero", "nonzero", "xcpu", "oom"}, mem : Sizes,
                out : Outputs, err : AllErrKinds,
                bg : {"none", "group", "session"}, pipes : BOOLEAN]
    /\ helper \in {"none", "waiting", "reaped", "gone"}
    /\ stray \in [state : {"none", "alive", "wrote", "dying"}, pipes : BOOLEAN,
                  group : BOOLEAN]
    /\ err \in Seq(Tokens)
    /\ full \in BOOLEAN /\ cum \in BOOLEAN /\ leaked \in BOOLEAN
    /\ res \in [status : Statuses, out : Outputs, shown : SUBSET Tokens]
    /\ verdict \in Statuses
    /\ fact \in FactType
    /\ truths \in Seq(FactType)

Fact(status) == [status |-> status, misread |-> FALSE]
NoResult == [status |-> "none", out |-> "wrong", shown |-> {}]

Init ==
    /\ host \in Hosts
    /\ jobs = 0 /\ job = [lang |-> "interpreted", cases |-> 0]
    /\ pc = "idle" /\ phase = "run" /\ held = {}
    /\ prog = "none" /\ beh = NoBehaviour /\ helper = "none" /\ stray = NoStray
    /\ err = <<>> /\ full = FALSE /\ cum = FALSE
    /\ res = NoResult /\ verdict = "none" /\ leaked = FALSE
    /\ fact = Fact("none") /\ truths = <<>>

-----------------------------------------------------------------------------
(* Standard error: lines, and the markers the helper adds at the end.      *)

\* A write that follows a line without its newline continues that line.
Write(e, token) ==
    IF full THEN e
    ELSE IF e # <<>> /\ e[Len(e)] = "part"
         THEN [e EXCEPT ![Len(e)] = IF token = "part" THEN "part"
                                    ELSE IF token = "line" THEN "line" ELSE "glued"]
         ELSE Append(e, token)

IsMarker(token) == token \in {"cg", "ru"}

\* _parse_sandbox_markers: the values are believed only in the last two lines
\* of an output that was not cut off.
Believed(e) == ~full /\ e # <<>> /\ e[Len(e)] = "ru"
CgroupBelieved(e) == Believed(e) /\ Len(e) >= 2 /\ e[Len(e) - 1] = "cg"
TokensOf(e) == { e[i] : i \in DOMAIN e }

\* Mutated: only the line with the program's peak is taken out.
Cleaned_PeakOnly(e) ==
    IF Believed(e) THEN TokensOf(e) \ {"ru"} ELSE TokensOf(e)

\* What is shown of an output: all marker lines are taken out, once the last one is
\* believed.
Cleaned(e) ==
    IF Believed(e) THEN {token \in TokensOf(e) : ~IsMarker(token)} ELSE TokensOf(e)

-----------------------------------------------------------------------------
(* The engine takes a submission and prepares a subprocess.                *)

\* _run_one: an empty source or an unknown language is answered at once, and
\* _run_cpp, _run_c and _run_java make a directory of their own first.
StartCase(j) ==
    /\ pc' = IF j.lang = "unsupported" THEN "judge" ELSE "create"
    /\ phase' = IF j.lang = "compiled" THEN "compile" ELSE "run"
    /\ held' = IF j.lang = "compiled" THEN {"tmp"} ELSE {}
    /\ res' = IF j.lang = "unsupported" THEN [NoResult EXCEPT !.status = "CE"] ELSE NoResult
    /\ fact' = IF j.lang = "unsupported" THEN Fact("CE") ELSE Fact("none")

\* judge: fetch_test_cases, and RE when there are none.
Take ==
    /\ pc = "idle" /\ jobs < MaxJobs
    /\ jobs' = jobs + 1
    /\ \E j \in [lang : Langs, cases : 0..MaxCases] :
        /\ job' = j
        /\ IF j.cases = 0
           THEN /\ pc' = "done" /\ verdict' = "RE"
                /\ UNCHANGED <<phase, held, res, fact>>
           ELSE StartCase(j) /\ verdict' = "none"
    /\ truths' = <<>>
    /\ UNCHANGED <<host, world, cum, leaked>>

\* An exception on the way to the subprocess ends the case through finally.
Raise(status) ==
    /\ res' = [NoResult EXCEPT !.status = status]
    /\ fact' = Fact(status)
    /\ pc' = "kill"

\* _maybe_cgroup and JudgeCgroup.create: refused before mkdir, or after it
\* because a limit cannot be written.
CreateCgroup ==
    /\ pc = "create"
    /\ \E outcome \in IF host.cgroup = "off" THEN {"off"}
                      ELSE {"created", "refused", "unlimited"} :
        /\ held' = IF outcome = "created" THEN held \union {"cgroup"} ELSE held
        /\ leaked' = (leaked \/ outcome = "unlimited")
        /\ IF outcome \in {"refused", "unlimited"} /\ host.cgroup = "require"
           THEN Raise("RE")
           ELSE pc' = "spawn" /\ UNCHANGED <<res, fact>>
    /\ UNCHANGED <<host, jobs, job, phase, world, cum, verdict, truths>>

\* The jail of _maybe_ns, and a working directory for a program that has none.
Dirs ==
    IF ~host.ns THEN {}
    ELSE IF job.lang = "compiled" THEN {"jail"} ELSE {"jail", "workdir"}

Spawn ==
    /\ pc = "spawn"
    /\ held' = held \union Dirs
    /\ prog' = "running" /\ helper' = "waiting"
    /\ pc' = "reading"
    /\ UNCHANGED <<host, jobs, job, phase, beh, stray, err, full, cum, res,
                   verdict, fact, truths, leaked>>

\* mkdtemp or Popen raises: FileNotFoundError is CE, everything else RE.
SpawnRaises ==
    /\ pc = "spawn"
    /\ \E some \in {{}, Dirs \intersect {"jail"}, Dirs}, status \in {"CE", "RE"} :
        /\ held' = held \union some
        /\ Raise(status)
    /\ UNCHANGED <<host, jobs, job, phase, world, cum, verdict, truths, leaked>>
-----------------------------------------------------------------------------
(* Outside the engine: the program, the helper, a background process.      *)

\* The program, or the helper's child that refuses to become one, ends.
ProgramEnds ==
    /\ prog = "running" /\ helper = "waiting"
    /\ \E b \in IF phase = "compile" THEN CompilerBehaviours ELSE Behaviours :
        /\ b.exit = "oom" => "cgroup" \in held
        /\ beh' = b
        /\ err' = IF b.err = "none" THEN <<>>
                  ELSE IF b.err = "full" THEN <<"line">> ELSE <<b.err>>
        /\ full' = (b.err = "full")
        /\ stray' = IF b.bg = "none" THEN NoStray
                    ELSE [state |-> "alive", pipes |-> b.pipes, group |-> b.bg = "group"]
    /\ prog' = "ended"
    /\ UNCHANGED <<host, jobs, job, pc, phase, held, helper, cum, res, verdict,
                   fact, truths, leaked>>

\* wait4 returns; inside a cgroup the helper writes its telemetry, the peak in bytes
\* as memory.peak has it.  memory.events can be read, so that the line is written, with
\* a peak of 0, even where there is no memory.peak.
HelperReaps ==
    /\ helper = "waiting" /\ prog = "ended"
    /\ helper' = "reaped"
    /\ err' = IF "cgroup" \in held THEN Write(err, "cg") ELSE err
    /\ UNCHANGED <<host, jobs, job, pc, phase, held, prog, beh, stray, full, cum,
                   res, verdict, fact, truths, leaked>>

\* The peak of the program, then the exit of the helper with the same status.
HelperExits ==
    /\ helper = "reaped"
    /\ helper' = "gone"
    /\ err' = Write(err, "ru")
    /\ UNCHANGED <<host, jobs, job, pc, phase, held, prog, beh, stray, full, cum,
                   res, verdict, fact, truths, leaked>>

\* A background process may still print a line, and may end.
StrayWrites ==
    /\ stray.state = "alive" /\ stray.pipes /\ pc = "reading"
    /\ stray' = [stray EXCEPT !.state = "wrote"]
    /\ err' = Write(err, "line")
    /\ UNCHANGED <<host, jobs, job, pc, phase, held, prog, beh, helper, full, cum,
                   res, verdict, fact, truths, leaked>>

StrayEnds ==
    /\ stray.state \in {"alive", "wrote"}
    /\ stray' = NoStray
    /\ UNCHANGED <<host, jobs, job, pc, phase, held, prog, beh, helper, err, full,
                   cum, res, verdict, fact, truths, leaked>>

\* A process that was sent SIGKILL is still there until the kernel is done with it.
Dies ==
    /\ \/ prog = "dying" /\ prog' = "ended" /\ UNCHANGED stray
       \/ stray.state = "dying" /\ stray' = NoStray /\ UNCHANGED prog
    /\ UNCHANGED <<host, jobs, job, pc, phase, held, beh, helper, err, full, cum,
                   res, verdict, fact, truths, leaked>>

-----------------------------------------------------------------------------
(* The engine reads, collects the result and cleans up.                    *)

StrayRuns == stray.state \in {"alive", "wrote"}

\* Mutated: the memory is looked at only when the program failed.
Measured_FailedOnly(high, oom) ==
    IF beh.exit = "xcpu" THEN "TLE"
    ELSE IF beh.exit # "zero" /\ (oom \/ high) THEN "MLE"
    ELSE IF beh.exit # "zero" THEN "RE" ELSE "OK"

\* The status _run_subprocess gives, from what it measured.
Measured(high, oom) ==
    IF beh.exit = "xcpu" THEN "TLE"
    ELSE IF (beh.exit # "zero" /\ oom) \/ high THEN "MLE"
    ELSE IF beh.exit # "zero" THEN "RE" ELSE "OK"

\* The status the program deserves, from what it did.
Deserved ==
    IF beh.exit = "xcpu" THEN "TLE"
    ELSE IF beh.mem = "high" THEN "MLE"
    ELSE IF beh.exit # "zero" THEN "RE"
    ELSE IF beh.out = "wrong" THEN "WA" ELSE "OK"

\* End of both pipes (the helper and any process that holds them are gone): the
\* worker reaps the helper, and RUSAGE_CHILDREN takes in the program's peak.
Eof == pc = "reading" /\ helper = "gone" /\ ~(StrayRuns /\ stray.pipes)

\* The number in the cgroup's line is above MEMORY_LIMIT_KB: it counts bytes.
CgroupPeakIsHigh == host.peak /\ beh.mem # "tiny"

\* For the properties: the number that decides is not the program's own peak in
\* kilobytes, but the worker's after an earlier child passed the limit, the cgroup's in
\* bytes, or the 0 of a kernel without memory.peak.
Misread ==
    \/ ~Believed(err) /\ cum /\ beh.mem # "high" /\ beh.exit # "xcpu"
    \/ /\ CgroupBelieved(err) /\ beh.exit \notin {"xcpu", "oom"}
       /\ beh.mem = IF host.peak THEN "usual" ELSE "high"

\* _run_subprocess after _communicate_capped: cgroup peak, else the helper's
\* figure, else the peak of all children so far.
CollectRun ==
    /\ Eof /\ phase = "run"
    /\ cum' = (cum \/ beh.mem = "high")
    /\ LET high == IF CgroupBelieved(err) THEN CgroupPeakIsHigh
                   ELSE IF Believed(err) THEN beh.mem = "high" ELSE cum'
           oom == CgroupBelieved(err) /\ beh.exit = "oom"
           status == Measured(high, oom)
       IN  /\ res' = [status |-> status, out |-> beh.out,
                      shown |-> IF beh.exit \in {"nonzero", "oom"}
                                THEN Cleaned(err) ELSE {}]
           /\ fact' = [status |-> Deserved, misread |-> Misread]
    /\ pc' = "kill"
    /\ UNCHANGED <<host, jobs, job, phase, held, world, verdict, truths, leaked>>

\* _run_compile: any other exit than 0 is CE; on 0 the program is run.
CollectCompile ==
    /\ Eof /\ phase = "compile"
    /\ cum' = (cum \/ beh.mem = "high")
    /\ IF beh.exit = "zero"
       THEN UNCHANGED <<res, fact>>
       ELSE /\ res' = [status |-> "CE", out |-> "wrong", shown |-> Cleaned(err)]
            /\ fact' = Fact("CE")
    /\ pc' = "kill"
    /\ UNCHANGED <<host, jobs, job, phase, held, world, verdict, truths, leaked>>

\* Mutated: the deadline is that of the program, not of the pipes.
Deadline_ProgramOnly ==
    /\ pc = "reading" /\ prog = "running"
    /\ cum' = cum
    /\ helper' = "gone"
    /\ prog' = "dying"
    /\ stray' = IF StrayRuns /\ stray.group THEN [stray EXCEPT !.state = "dying"] ELSE stray
    /\ LET status == IF phase = "compile" THEN "CE" ELSE "TLE"
       IN  res' = [NoResult EXCEPT !.status = status] /\ fact' = Fact(status)
    /\ pc' = "kill"
    /\ UNCHANGED <<host, jobs, job, phase, held, beh, err, full, verdict, truths, leaked>>

\* The time is over: SIGKILL to the process group, which a session of its own
\* escapes.  A helper that has already reaped the program counts for RUSAGE_CHILDREN.
Deadline ==
    /\ pc = "reading"
    /\ cum' = (cum \/ (helper \in {"reaped", "gone"} /\ beh.mem = "high"))
    /\ helper' = "gone"
    /\ prog' = IF prog = "running" THEN "dying" ELSE prog
    /\ stray' = IF StrayRuns /\ stray.group THEN [stray EXCEPT !.state = "dying"] ELSE stray
    /\ LET status == IF phase = "compile" THEN "CE" ELSE "TLE"
       IN  res' = [NoResult EXCEPT !.status = status] /\ fact' = Fact(status)
    /\ pc' = "kill"
    /\ UNCHANGED <<host, jobs, job, phase, held, beh, err, full, verdict, truths, leaked>>

\* Mutated: cgroup.kill is never used.
KillGroup_ByPid ==
    /\ pc = "kill"
    /\ IF "cgroup" \in held /\ StrayRuns
       THEN \E missed \in BOOLEAN :
                stray' = IF missed THEN stray ELSE [stray EXCEPT !.state = "dying"]
       ELSE UNCHANGED stray
    /\ pc' = "destroy"
    /\ UNCHANGED <<host, jobs, job, phase, held, prog, beh, helper, err, full, cum,
                   res, verdict, fact, truths, leaked>>

\* kill_all: with cgroup.kill at once, otherwise from a list of pids read before,
\* which misses a process forked meanwhile.
KillGroup ==
    /\ pc = "kill"
    /\ IF "cgroup" \in held /\ StrayRuns
       THEN \E missed \in IF host.kill THEN {FALSE} ELSE BOOLEAN :
                stray' = IF missed THEN stray ELSE [stray EXCEPT !.state = "dying"]
       ELSE UNCHANGED stray
    /\ pc' = "destroy"
    /\ UNCHANGED <<host, jobs, job, phase, held, prog, beh, helper, err, full, cum,
                   res, verdict, fact, truths, leaked>>

\* What is left of a subprocess is none of the next one's business.
Forget ==
    /\ prog' = "none" /\ helper' = "none" /\ stray' = NoStray /\ beh' = NoBehaviour
    /\ err' = <<>> /\ full' = FALSE

\* destroy: rmdir fails while a process is left, and nobody tries again.  Then the
\* directories go, and a successful compilation is followed by the run.
Destroy ==
    /\ pc = "destroy"
    /\ leaked' = (leaked \/ ("cgroup" \in held
                             /\ (prog = "dying" \/ stray.state # "none")))
    /\ IF phase = "compile" /\ res.status = "none"
       THEN /\ held' = held \ {"cgroup", "jail", "workdir"}
            /\ phase' = "run" /\ pc' = "create"
       ELSE /\ held' = {}
            /\ pc' = "judge" /\ UNCHANGED phase
    /\ Forget
    /\ UNCHANGED <<host, jobs, job, cum, res, verdict, fact, truths>>

\* judge: one turn of its loop over the test cases.
JudgeCase ==
    /\ pc = "judge"
    /\ truths' = Append(truths, fact)
    /\ LET wrong == res.status = "OK" /\ res.out = "wrong"
           last == Len(truths) + 1 = job.cases
       IN  IF res.status # "OK" \/ wrong \/ last
           THEN /\ verdict' = IF res.status # "OK" THEN res.status
                              ELSE IF wrong THEN "WA" ELSE "AC"
                /\ pc' = "done"
                /\ res' = NoResult /\ fact' = Fact("none")
                /\ UNCHANGED <<phase, held>>
           ELSE StartCase(job) /\ UNCHANGED verdict
    /\ UNCHANGED <<host, jobs, job, world, cum, leaked>>

\* The verdict goes to save_verdict; the worker takes the next message.
Hand ==
    /\ pc = "done"
    /\ pc' = "idle"
    /\ UNCHANGED <<host, jobs, job, phase, held, world, cum, res, verdict, fact,
                   truths, leaked>>

EngineStep ==
    \/ CreateCgroup \/ Spawn \/ SpawnRaises
    \/ CollectRun \/ CollectCompile \/ Deadline
    \/ KillGroup \/ Destroy \/ JudgeCase \/ Hand

Next ==
    \/ Take \/ EngineStep
    \/ ProgramEnds \/ HelperReaps \/ HelperExits
    \/ StrayWrites \/ StrayEnds \/ Dies

\* The worker keeps running and the clock moves on; of the judged program, its
\* background process and the kernel nothing is assumed.
Spec == Init /\ [][Next]_vars /\ WF_vars(EngineStep)

-----------------------------------------------------------------------------
(* Properties.                                                             *)

\* The verdict of a submission is that of its first case that did not go well, and
\* AC only when every case did: no late reading, background process, lost marker
\* or earlier job changes it.  Left out are submissions with a case whose memory was
\* misread in one of the three ways of Misread: MLE was then found for a program that
\* did not pass the limit, or not for one that did.
FairVerdict ==
    (pc = "done" /\ \A i \in DOMAIN truths : ~truths[i].misread)
    => IF job.cases = 0 THEN verdict = "RE"
       ELSE LET n == Len(truths)
            IN  /\ n > 0
                /\ \A i \in 1..(n - 1) : truths[i].status = "OK"
                /\ IF truths[n].status = "OK" THEN n = job.cases /\ verdict = "AC"
                   ELSE verdict = truths[n].status

\* A case is MLE only when its program passed the limit: the helper's line is there so
\* that an earlier child's peak is not taken for it, and the cgroup's line is said to be
\* in kilobytes like the limit.
NoFalseMLE ==
    (pc = "done" /\ verdict = "MLE")
    => truths[Len(truths)].status = "MLE"

\* The helper's lines are for the engine: what a user is shown as an error has none
\* of them, unless the program left its last line open, or a process of it kept
\* writing after the helper was done.
MarkersStayInside ==
    (pc = "destroy" /\ res.shown \intersect {"cg", "ru", "glued"} # {})
    => beh.err \in {"part", "full"} \/ beh.pipes

\* When a subprocess is done with, nothing of it is left: no directory, and, where
\* it was put into a cgroup that can be killed at once, no running process.
CleanAfterwards ==
    [][ /\ (pc = "destroy" /\ pc' = "create") => held' = {"tmp"}
        /\ pc' \in {"judge", "done"} => held' = {}
        /\ (pc = "destroy" /\ "cgroup" \in held /\ host.kill) => ~StrayRuns ]_vars

\* Every submission that is taken gets its verdict, whatever the program does.
JudgingEnds == pc # "idle" ~> pc = "idle"
=============================================================================
