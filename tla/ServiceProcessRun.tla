-------------------------- MODULE ServiceProcessRun -------------------------
(***************************************************************************)
(* One request of StdioServiceProcessRunner (ServiceProcessRunner.swift):  *)
(* the operation starts a service process, feeds it and collects what it   *)
(* writes, while the timeout and the caller's cancellation may end the     *)
(* request at any moment.  They run on threads of their own and share two  *)
(* locks; a step is a section under a lock, or the code between two.       *)
(***************************************************************************)
EXTENDS Naturals

VARIABLES
  started,      \* start was called
  completed,
  answer,       \* what the continuation was resumed with
  resumes,      \* ghost: how often it was resumed
  timer,        \* the sleep of timeoutTask
  opStopped,    \* operationTask is cancelled
  registered,   \* process and the pipe handles are set
  cancelled, terminationRequested,
  stdin,        \* the pipe's writer: "taken" out of stdinWriter, not closed yet
  readers,      \* whether stdoutReader and stderrReader are open
  child,        \* the process
  fed,          \* ghost: it was sent the whole request
  terminated,   \* it was sent SIGTERM, and SIGKILL is due
  pc,           \* where each thread is
  want,         \* what a thread took under the lock, to close or terminate
  output,       \* what the drains have collected
  result        \* what the operation is going to end with

coordVars == <<started, completed, answer, resumes, timer, opStopped>>
lockedVars == <<registered, cancelled, terminationRequested>>
pipeVars  == <<stdin, readers>>
childVars == <<child, fed, terminated>>
opVars    == <<output, result>>
runVars   == <<coordVars, lockedVars, pipeVars, childVars, opVars, pc, want>>

Enders  == {"user", "timeout"}
Threads == {"op"} \cup Enders
Results == {"none", "data", "error", "cancelled", "timeout"}
Labels  == {"idle", "begin", "register", "spawn", "check", "write", "wait",
            "outputs", "recheck", "cleanup", "status", "caught", "fail",
            "mark", "signal", "stop", "finish", "done"}

\* Every variable keeps to the values the runner can give it, and what is
\* taken out of stdinWriter stays in the hands of a thread that will close it.
RunTypeOK ==
  /\ {started, completed, opStopped, registered, cancelled, readers, fed,
      terminationRequested, terminated} \subseteq BOOLEAN
  /\ answer \in Results /\ result \in Results \ {"timeout"}
  /\ resumes \in Nat
  /\ timer \in {"off", "asleep", "over"}
  /\ stdin \in {"open", "taken", "closed"}
  /\ stdin = "taken" => \E t \in Threads : "stdin" \in want[t]
  /\ child \in {"unborn", "running", "succeeded", "failed", "killed"}
  /\ pc \in [Threads -> Labels]
  /\ want \in [Threads -> SUBSET {"stdin", "readers", "process"}]
  /\ output \in {"none", "whole", "cut"}

RunInit ==
  /\ started = FALSE /\ completed = FALSE /\ answer = "none" /\ resumes = 0
  /\ timer = "off" /\ opStopped = FALSE
  /\ registered = FALSE /\ cancelled = FALSE /\ terminationRequested = FALSE
  /\ stdin = "open" /\ readers = TRUE
  /\ child = "unborn" /\ fed = FALSE /\ terminated = FALSE
  /\ pc = [t \in Threads |-> "idle"]
  /\ want = [t \in Threads |-> {}]
  /\ output = "none" /\ result = "none"

Goto(t, from, to) == pc[t] = from /\ pc' = [pc EXCEPT ![t] = to]

\* isCancelled, or Task.isCancelled in the operation.
IsCancelled == opStopped \/ cancelled

-----------------------------------------------------------------------------
(* StdioServiceProcessRunCoordinator.                                      *)

Resume(r) == answer' = r /\ resumes' = resumes + 1

\* start; a caller that was cancelled before is answered at once.
Start ==
  /\ ~started /\ started' = TRUE
  /\ \/ /\ completed
        /\ Resume("cancelled")
        /\ UNCHANGED <<pc, timer>>
     \/ /\ ~completed
        /\ Goto("op", "idle", "begin")
        /\ timer' = "asleep"
        /\ UNCHANGED <<answer, resumes>>
  /\ UNCHANGED <<completed, opStopped>>

\* Mutant of Finish: completed is not looked at.
FinishUnchecked(t, r) ==
  /\ Goto(t, "finish", "done")
  /\ completed' = TRUE
  /\ timer' = IF timer = "asleep" THEN "off" ELSE timer
  /\ IF started THEN Resume(r) ELSE UNCHANGED <<answer, resumes>>
  /\ UNCHANGED <<started, opStopped>>

\* finish: the first one resumes the continuation, if there is one yet, and
\* cancels the sleep of the timeout.
Finish(t, r) ==
  /\ Goto(t, "finish", "done")
  /\ \/ completed /\ UNCHANGED <<completed, timer, answer, resumes>>
     \/ /\ ~completed
        /\ completed' = TRUE
        /\ timer' = IF timer = "asleep" THEN "off" ELSE timer
        /\ \/ started /\ Resume(r)
           \/ ~started /\ UNCHANGED <<answer, resumes>>
  /\ UNCHANGED <<started, opStopped>>

\* The caller's task is cancelled: before start, in the middle, or while the
\* answer is on its way.
UserCancels == Goto("user", "idle", "mark") /\ UNCHANGED coordVars

TimerFires ==
  /\ timer = "asleep" /\ timer' = "over"
  /\ Goto("timeout", "idle", "mark")
  /\ UNCHANGED <<started, completed, answer, resumes, opStopped>>

\* operationTaskSnapshot()?.cancel(); the task is forgotten on completion.
StopOperation(t) ==
  /\ Goto(t, "stop", "finish")
  /\ opStopped' = (opStopped \/ (started /\ ~completed))
  /\ UNCHANGED <<started, completed, answer, resumes, timer>>

CoordOnly == UNCHANGED <<lockedVars, pipeVars, childVars, opVars, want>>

-----------------------------------------------------------------------------
(* cancel and terminateForFailure of StdioServiceProcessInvocation, which  *)
(* every thread may call.                                                  *)

CanTerminate == registered /\ child = "running" /\ ~terminationRequested

Take(t, things) == want' = [want EXCEPT ![t] = things]

\* Mutants of MarkCancelled: termination counts as requested even if there is
\* no process yet; stdinWriter is set to nil before it is copied.
MarkEarly(t) ==
  /\ Goto(t, "mark", "signal")
  /\ cancelled' = TRUE
  /\ terminationRequested' = TRUE
  /\ Take(t, {w \in {"stdin", "readers", "process"} :
                /\ registered
                /\ w = "stdin" => stdin = "open"
                /\ w = "process" => CanTerminate})
  /\ stdin' = IF registered /\ stdin = "open" THEN "taken" ELSE stdin
MarkForgets(t) ==
  /\ Goto(t, "mark", "signal")
  /\ cancelled' = TRUE
  /\ terminationRequested' = (terminationRequested \/ CanTerminate)
  /\ Take(t, {w \in {"readers", "process"} :
                /\ registered
                /\ w = "process" => CanTerminate})
  /\ stdin' = IF registered /\ stdin = "open" THEN "taken" ELSE stdin

\* markCancelled: the flag is set and what there is to close is taken; only
\* the first that sees the process running is to terminate it.
MarkCancelled(t) ==
  /\ Goto(t, "mark", "signal")
  /\ cancelled' = TRUE
  /\ terminationRequested' = (terminationRequested \/ CanTerminate)
  /\ Take(t, {w \in {"stdin", "readers", "process"} :
                /\ registered
                /\ w = "stdin" => stdin = "open"
                /\ w = "process" => CanTerminate})
  /\ stdin' = IF registered /\ stdin = "open" THEN "taken" ELSE stdin

\* terminateForFailure: as before, but it is no cancellation.
MarkFailed ==
  /\ Goto("op", "fail", "signal")
  /\ terminationRequested' = (terminationRequested \/ CanTerminate)
  /\ Take("op", {w \in {"stdin", "process"} :
                   /\ registered
                   /\ w = "stdin" => stdin = "open"
                   /\ w = "process" => CanTerminate})
  /\ UNCHANGED <<cancelled, stdin>>

Mark(t) == /\ \/ MarkCancelled(t)
              \/ t = "op" /\ MarkFailed
           /\ UNCHANGED <<coordVars, registered, readers, childVars, opVars>>

AfterSignal(t) == IF t # "op" THEN "stop"
                  ELSE IF result = "cancelled" THEN "cleanup" ELSE "wait"

\* The handles that were taken are closed and the process is terminated.
Signal(t) ==
  /\ Goto(t, "signal", AfterSignal(t))
  /\ stdin' = IF "stdin" \in want[t] THEN "closed" ELSE stdin
  /\ readers' = (readers /\ "readers" \notin want[t])
  /\ terminated' = (terminated \/ ("process" \in want[t] /\ child = "running"))
  /\ Take(t, {})
  /\ UNCHANGED <<coordVars, lockedVars, child, fed, opVars>>

-----------------------------------------------------------------------------
(* run of StdioServiceProcessInvocation, on the operation's thread.        *)

Op(from, to) == Goto("op", from, to) /\ UNCHANGED <<coordVars, want>>
EndWith(r)   == result' = r /\ UNCHANGED output
OpOnly       == UNCHANGED <<lockedVars, pipeVars, childVars>>

\* checkCancellation, and what is thrown before there is anything to clean up.
Begin ==
  /\ \/ ~opStopped /\ Op("begin", "register") /\ UNCHANGED opVars
     \/ opStopped  /\ Op("begin", "finish") /\ EndWith("cancelled")
     \/ ~opStopped /\ Op("begin", "finish") /\ EndWith("error")
  /\ OpOnly

\* register; a cancellation that came earlier found no pipes to close.
Register ==
  /\ Op("register", "spawn")
  /\ registered' = TRUE
  /\ stdin' = IF cancelled THEN "closed" ELSE stdin
  /\ readers' = (readers /\ ~cancelled)
  /\ UNCHANGED <<cancelled, terminationRequested, childVars, opVars>>

\* process.run() starts the service, or throws.
Spawn ==
  /\ \/ Op("spawn", "check") /\ child' = "running"
     \/ Op("spawn", "caught") /\ UNCHANGED child
  /\ UNCHANGED <<lockedVars, pipeVars, fed, terminated, opVars>>

Check ==
  /\ \/ ~opStopped /\ Op("check", "write") /\ UNCHANGED opVars
     \/ opStopped  /\ Op("check", "mark") /\ EndWith("cancelled")
  /\ OpOnly

\* The request is written, as far as the pipe allows, and the pipe is closed;
\* an error is kept for later.
Write ==
  /\ Op("write", "wait")
  /\ fed' \in {FALSE, stdin # "closed"}
  /\ stdin' = "closed"
  /\ UNCHANGED <<lockedVars, readers, child, terminated, opVars>>

\* waitUntilExit polls the process and the cancellation.
Wait ==
  /\ \/ child = "running" /\ IsCancelled /\ Op("wait", "mark")
     \/ child # "running" /\ result = "none" /\ Op("wait", "outputs")
     \/ child # "running" /\ result # "none" /\ Op("wait", "cleanup")
  /\ OpOnly /\ UNCHANGED opVars

\* The drains have reached the end of both pipes, or their readers were closed.
Collect ==
  /\ \/ /\ Op("outputs", "recheck")
        /\ output' \in {"whole"} \cup (IF readers THEN {} ELSE {"cut"})
     \/ Op("outputs", "caught") /\ UNCHANGED output
  /\ UNCHANGED result
  /\ OpOnly

\* Mutant of Recheck: a cancellation during the wait is not noticed.
RecheckSkipped ==
  /\ Op("recheck", "cleanup") /\ UNCHANGED opVars
  /\ OpOnly

Recheck ==
  /\ \/ ~IsCancelled /\ Op("recheck", "cleanup") /\ UNCHANGED opVars
     \/ IsCancelled  /\ Op("recheck", "mark") /\ EndWith("cancelled")
  /\ OpOnly

\* cleanup: the handles are dropped and closed.
Cleanup ==
  /\ \/ result = "none" /\ Op("cleanup", "status")
     \/ result # "none" /\ Op("cleanup", "finish")
  /\ registered' = FALSE
  /\ stdin' = IF stdin = "taken" THEN "taken" ELSE "closed"
  /\ readers' = FALSE
  /\ UNCHANGED <<cancelled, terminationRequested, childVars, opVars>>

\* A reply that is too large, an exit status or an error of the write is
\* thrown; all of it may be fine.
Status ==
  /\ \/ /\ child = "succeeded" /\ fed
        /\ Op("status", "finish") /\ EndWith("data")
     \/ Op("status", "caught") /\ UNCHANGED opVars
  /\ OpOnly

\* A failure: the process is waited for (in this code it has always ended).
Caught ==
  /\ \/ ~IsCancelled /\ Op("caught", "fail") /\ EndWith("error")
     \/ IsCancelled  /\ Op("caught", "mark") /\ EndWith("cancelled")
  /\ OpOnly

-----------------------------------------------------------------------------
(* The threads.                                                            *)

\* The operation, but for the wait for the drains.
Operate == \/ Begin \/ Register \/ Spawn \/ Check \/ Write \/ Wait
           \/ Recheck \/ Cleanup \/ Status \/ Caught
           \/ Mark("op") \/ Signal("op")
           \/ Finish("op", result) /\ CoordOnly

\* cancel and timeoutReached of the coordinator.
End(t) == \/ Mark(t) \/ Signal(t)
          \/ /\ \/ StopOperation(t)
                \/ Finish(t, IF t = "user" THEN "cancelled" ELSE "timeout")
             /\ CoordOnly

-----------------------------------------------------------------------------
(* The process.                                                            *)

ChildOnly == UNCHANGED <<coordVars, lockedVars, pipeVars, fed, opVars, pc, want>>

Exit == /\ child = "running"
        /\ child' \in {"succeeded", "failed"}
               \cup (IF terminated THEN {"killed"} ELSE {})
        /\ UNCHANGED terminated
        /\ ChildOnly

\* forceTerminate: the SIGKILL, 250 ms later.
ForceKill == /\ terminated /\ child = "running"
             /\ child' = "killed"
             /\ UNCHANGED terminated
             /\ ChildOnly

RunNext == \/ (Start \/ UserCancels \/ TimerFires) /\ CoordOnly
           \/ \E t \in Enders : End(t)
           \/ Operate \/ Collect
           \/ Exit \/ ForceKill

RunSpec == RunInit /\ [][RunNext]_runVars

\* Threads are scheduled, sleeps end and SIGKILL kills.  Nothing is assumed of
\* the process and its pipes: it may ignore everything, and its children may
\* keep the pipes open.
RunFairSpec ==
  /\ RunSpec
  /\ WF_runVars(TimerFires /\ CoordOnly)
  /\ \A t \in Enders : WF_runVars(End(t))
  /\ WF_runVars(Operate)
  /\ WF_runVars(ForceKill)
-----------------------------------------------------------------------------
(* Properties.                                                             *)

\* The continuation is resumed once, by the first to finish, though three
\* threads and a start that comes late may all want to: never twice (a crash),
\* and never forgotten once the run is completed.
OneAnswer == /\ resumes <= 1
             /\ resumes = 1 <=> answer # "none"
             /\ started /\ completed => answer # "none"

\* A request that is answered with data was sent whole to a process that
\* ended well by itself, and its output is whole: no cancellation or timeout
\* that hits at the same moment makes a truncated output pass for the reply.
\* And whoever gets data or an error, and sends the next request, finds no
\* older process.
DataIsReply ==
  /\ answer = "data" => child = "succeeded" /\ fed /\ output = "whole"
                        /\ ~terminated
  /\ answer \in {"data", "error"} => child # "running"

\* Every request is answered, whatever its process does, and in the end no
\* process is left of it.
EveryRunEnds == started ~> answer # "none" /\ [](child # "running")
=============================================================================
