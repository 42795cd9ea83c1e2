----------------------- MODULE ServiceProcessRunProofs ----------------------
(***************************************************************************)
(* One request of the process runner: it is answered at most once, and     *)
(* with data only if the data is the whole reply.  The invariant follows   *)
(* the operation and says what each of its places knows of the result, the *)
(* process and the output; the other two threads may act at any of them.   *)
(***************************************************************************)
EXTENDS ServiceProcessRun, TLAPS

-----------------------------------------------------------------------------
(* The inductive invariant.                                                *)

\* The continuation was resumed once if the run is over and somebody waits.
Answered == /\ answer # "none" <=> started /\ completed
            /\ resumes = IF answer = "none" THEN 0 ELSE 1

\* A thread has taken things only between the two halves of a cancellation.
TakenBriefly == \A t \in Threads : want[t] # {} => pc[t] = "signal"

\* How far the operation is tells what is known of its result.
ResultKnown ==
  /\ pc["op"] \in {"idle", "begin", "register", "spawn", "check", "write", "outputs",
                   "recheck", "status", "caught"} => result = "none"
  /\ pc["op"] = "fail" => result = "error"
  /\ pc["op"] = "finish" => result # "none"
  /\ result = "data" => pc["op"] \in {"finish", "done"}

\* There is no process before the operation spawns it.
Unborn == pc["op"] \in {"idle", "begin", "register", "spawn"} => child = "unborn"

\* As long as the output may still be used, only a cancellation closes the
\* readers and so cuts it.
CutIsCancelled ==
  /\ ~readers /\ result = "none" => cancelled \/ pc["op"] \in {"status", "caught"}
  /\ \A t \in Threads : "readers" \in want[t] => cancelled
  /\ output = "cut" => cancelled

\* A process is terminated only for a cancellation or after a failure.
TerminatedForCause ==
  terminated \/ (\E t \in Threads : "process" \in want[t])
    => cancelled \/ result \in {"error", "cancelled"}

\* The last check for a cancellation was passed, and the reply may be used.
Passed == \/ pc["op"] \in {"cleanup", "status"} /\ result = "none"
          \/ result = "data"

\* What the last check found stays: the process is gone, so nobody can
\* terminate it any more, and the output is whole.
PassedIsWhole ==
  /\ pc["op"] \in {"outputs", "recheck"} => child # "running"
  /\ pc["op"] = "recheck" => output # "none"
  /\ Passed => child # "running" /\ ~terminated /\ output = "whole"
  /\ result = "data" => child = "succeeded" /\ fed

\* An error is reported after the process it belongs to.
ErrorIsLate ==
  result = "error" /\ pc["op"] \in {"cleanup", "finish", "done"} => child # "running"

\* Only the operation answers with data or an error.
OpAnswers == answer \in {"data", "error"} => answer = result /\ pc["op"] = "done"

RunInv ==
  /\ RunTypeOK /\ Answered /\ TakenBriefly /\ ResultKnown /\ Unborn /\ CutIsCancelled
  /\ TerminatedForCause /\ PassedIsWhole /\ ErrorIsLate /\ OpAnswers

\* The place of one thread changes.
LEMMA GotoMoves ==
  ASSUME RunInv, NEW t \in Threads, NEW from, NEW to \in Labels, Goto(t, from, to)
  PROVE  /\ pc' \in [Threads -> Labels] /\ pc[t] = from /\ pc'[t] = to
         /\ \A s \in Threads : s # t => pc'[s] = pc[s]
BY DEF Goto, RunInv, RunTypeOK

\* The initial state.
LEMMA RunInitial == RunInit => RunInv
<1> SUFFICES ASSUME RunInit PROVE RunInv
  OBVIOUS
<1>1. \A t \in Threads : want[t] = {} /\ pc[t] = "idle"
  BY DEF RunInit
<1>2. RunTypeOK
  BY DEF RunInit, RunTypeOK, Threads, Enders, Labels, Results
<1> QED BY <1>1, <1>2
        DEF RunInit, RunInv, Answered, TakenBriefly, ResultKnown, Unborn, CutIsCancelled,
            TerminatedForCause, Passed, PassedIsWhole, ErrorIsLate, OpAnswers, Threads

\* The operation's steps before there is a process.
LEMMA BeginKeeps == RunInv /\ Begin => RunInv'
<1> SUFFICES ASSUME RunInv, Begin PROVE RunInv'
  OBVIOUS
<1>1. /\ UNCHANGED <<coordVars, want, lockedVars, pipeVars, childVars, output>>
      /\ \/ Goto("op", "begin", "register") /\ UNCHANGED result
         \/ Goto("op", "begin", "finish") /\ result' \in {"cancelled", "error"}
  BY DEF Begin, Op, EndWith, OpOnly, opVars
<1>2. /\ pc' \in [Threads -> Labels] /\ pc["op"] = "begin"
      /\ \/ pc'["op"] = "register" /\ UNCHANGED result
         \/ pc'["op"] = "finish" /\ result' \in {"cancelled", "error"}
      /\ \A s \in Threads : s # "op" => pc'[s] = pc[s]
  BY <1>1, GotoMoves DEF Threads, Labels
<1> USE DEF RunInv, coordVars, lockedVars, pipeVars, childVars
<1>3. RunTypeOK'
  BY <1>1, <1>2 DEF RunTypeOK, Results
<1>4. Answered' /\ TakenBriefly' /\ OpAnswers'
  BY <1>1, <1>2 DEF Answered, TakenBriefly, OpAnswers
<1>5. ResultKnown' /\ Unborn' /\ ErrorIsLate'
  BY <1>1, <1>2 DEF ResultKnown, Unborn, ErrorIsLate
<1>6. CutIsCancelled' /\ TerminatedForCause'
  BY <1>1, <1>2 DEF ResultKnown, CutIsCancelled, TerminatedForCause
<1>7. PassedIsWhole'
  BY <1>1, <1>2 DEF ResultKnown, PassedIsWhole, Passed
<1> QED BY <1>3, <1>4, <1>5, <1>6, <1>7

\* The pipes are handed over, closed if a cancellation came first.
LEMMA RegisterKeeps == RunInv /\ Register => RunInv'
<1> SUFFICES ASSUME RunInv, Register PROVE RunInv'
  OBVIOUS
<1>1. /\ UNCHANGED <<coordVars, want, cancelled, terminationRequested, childVars, opVars>>
      /\ Goto("op", "register", "spawn") /\ registered' = TRUE
      /\ stdin' = IF cancelled THEN "closed" ELSE stdin
      /\ readers' = (readers /\ ~cancelled)
  BY DEF Register, Op
<1>2. /\ pc' \in [Threads -> Labels] /\ pc["op"] = "register" /\ pc'["op"] = "spawn"
      /\ \A s \in Threads : s # "op" => pc'[s] = pc[s]
  BY <1>1, GotoMoves DEF Threads, Labels
<1> USE DEF RunInv, coordVars, lockedVars, pipeVars, childVars, opVars
<1>3. RunTypeOK'
  BY <1>1, <1>2 DEF RunTypeOK, Results
<1>4. Answered' /\ TakenBriefly' /\ OpAnswers'
  BY <1>1, <1>2 DEF Answered, TakenBriefly, OpAnswers
<1>5. ResultKnown' /\ Unborn' /\ ErrorIsLate'
  BY <1>1, <1>2 DEF ResultKnown, Unborn, ErrorIsLate
<1>6. CutIsCancelled' /\ TerminatedForCause'
  BY <1>1, <1>2 DEF ResultKnown, CutIsCancelled, TerminatedForCause
<1>7. PassedIsWhole'
  BY <1>1, <1>2 DEF RunTypeOK, ResultKnown, Unborn, CutIsCancelled, TerminatedForCause,
                    PassedIsWhole, Passed
<1> QED BY <1>3, <1>4, <1>5, <1>6, <1>7

\* The process is started, or that fails.
LEMMA SpawnKeeps == RunInv /\ Spawn => RunInv'
<1> SUFFICES ASSUME RunInv, Spawn PROVE RunInv'
  OBVIOUS
<1>1. /\ UNCHANGED <<coordVars, want, lockedVars, pipeVars, fed, terminated, opVars>>
      /\ \/ Goto("op", "spawn", "check") /\ child' = "running"
         \/ Goto("op", "spawn", "caught") /\ UNCHANGED child
  BY DEF Spawn, Op
<1>2. /\ pc' \in [Threads -> Labels] /\ pc["op"] = "spawn"
      /\ \/ pc'["op"] = "check" /\ child' = "running"
         \/ pc'["op"] = "caught" /\ UNCHANGED child
      /\ \A s \in Threads : s # "op" => pc'[s] = pc[s]
  BY <1>1, GotoMoves DEF Threads, Labels
<1> USE DEF RunInv, coordVars, lockedVars, pipeVars, childVars, opVars
<1>3. RunTypeOK'
  BY <1>1, <1>2 DEF RunTypeOK, Results
<1>4. Answered' /\ TakenBriefly' /\ OpAnswers'
  BY <1>1, <1>2 DEF Answered, TakenBriefly, OpAnswers
<1>5. ResultKnown' /\ Unborn' /\ ErrorIsLate'
  BY <1>1, <1>2 DEF ResultKnown, Unborn, ErrorIsLate
<1>6. CutIsCancelled' /\ TerminatedForCause'
  BY <1>1, <1>2 DEF ResultKnown, CutIsCancelled, TerminatedForCause
<1>7. PassedIsWhole'
  BY <1>1, <1>2 DEF RunTypeOK, ResultKnown, Unborn, CutIsCancelled, TerminatedForCause,
                    PassedIsWhole, Passed
<1> QED BY <1>3, <1>4, <1>5, <1>6, <1>7

\* The operation looks for a cancellation of its task.
LEMMA CheckKeeps == RunInv /\ Check => RunInv'
<1> SUFFICES ASSUME RunInv, Check PROVE RunInv'
  OBVIOUS
<1>1. /\ UNCHANGED <<coordVars, want, lockedVars, pipeVars, childVars, output>>
      /\ \/ Goto("op", "check", "write") /\ UNCHANGED result
         \/ Goto("op", "check", "mark") /\ result' = "cancelled"
  BY DEF Check, Op, EndWith, OpOnly, opVars
<1>2. /\ pc' \in [Threads -> Labels] /\ pc["op"] = "check"
      /\ \/ pc'["op"] = "write" /\ UNCHANGED result
         \/ pc'["op"] = "mark" /\ result' = "cancelled"
      /\ \A s \in Threads : s # "op" => pc'[s] = pc[s]
  BY <1>1, GotoMoves DEF Threads, Labels
<1> USE DEF RunInv, coordVars, lockedVars, pipeVars, childVars, opVars
<1>3. RunTypeOK'
  BY <1>1, <1>2 DEF RunTypeOK, Results
<1>4. Answered' /\ TakenBriefly' /\ OpAnswers'
  BY <1>1, <1>2 DEF Answered, TakenBriefly, OpAnswers
<1>5. ResultKnown' /\ Unborn' /\ ErrorIsLate'
  BY <1>1, <1>2 DEF ResultKnown, Unborn, ErrorIsLate
<1>6. CutIsCancelled' /\ TerminatedForCause'
  BY <1>1, <1>2 DEF ResultKnown, CutIsCancelled, TerminatedForCause
<1>7. PassedIsWhole'
  BY <1>1, <1>2 DEF RunTypeOK, ResultKnown, Unborn, CutIsCancelled, TerminatedForCause,
                    PassedIsWhole, Passed
<1> QED BY <1>3, <1>4, <1>5, <1>6, <1>7

\* The request is written, whole or not, and the pipe is closed.
LEMMA WriteKeeps == RunInv /\ Write => RunInv'
<1> SUFFICES ASSUME RunInv, Write PROVE RunInv'
  OBVIOUS
<1>1. /\ UNCHANGED <<coordVars, want, lockedVars, readers, child, terminated, opVars>>
      /\ Goto("op", "write", "wait") /\ fed' \in BOOLEAN /\ stdin' = "closed"
  BY DEF Write, Op
<1>2. /\ pc' \in [Threads -> Labels] /\ pc["op"] = "write" /\ pc'["op"] = "wait"
      /\ \A s \in Threads : s # "op" => pc'[s] = pc[s]
  BY <1>1, GotoMoves DEF Threads, Labels
<1> USE DEF RunInv, coordVars, lockedVars, pipeVars, childVars, opVars
<1>3. RunTypeOK'
  BY <1>1, <1>2 DEF RunTypeOK, Results
<1>4. Answered' /\ TakenBriefly' /\ OpAnswers'
  BY <1>1, <1>2 DEF Answered, TakenBriefly, OpAnswers
<1>5. ResultKnown' /\ Unborn' /\ ErrorIsLate'
  BY <1>1, <1>2 DEF ResultKnown, Unborn, ErrorIsLate
<1>6. CutIsCancelled' /\ TerminatedForCause'
  BY <1>1, <1>2 DEF ResultKnown, CutIsCancelled, TerminatedForCause
<1>7. PassedIsWhole'
  BY <1>1, <1>2 DEF RunTypeOK, ResultKnown, Unborn, CutIsCancelled, TerminatedForCause,
                    PassedIsWhole, Passed
<1> QED BY <1>3, <1>4, <1>5, <1>6, <1>7

\* The operation waits for the process, or sees a cancellation.
LEMMA WaitKeeps == RunInv /\ Wait => RunInv'
<1> SUFFICES ASSUME RunInv, Wait PROVE RunInv'
  OBVIOUS
<1>1. /\ UNCHANGED <<coordVars, want, lockedVars, pipeVars, childVars, opVars>>
      /\ \/ Goto("op", "wait", "mark")
         \/ child # "running" /\ result = "none" /\ Goto("op", "wait", "outputs")
         \/ child # "running" /\ result # "none" /\ Goto("op", "wait", "cleanup")
  BY DEF Wait, Op, OpOnly
<1>2. /\ pc' \in [Threads -> Labels] /\ pc["op"] = "wait"
      /\ \/ pc'["op"] = "mark"
         \/ child # "running" /\ result = "none" /\ pc'["op"] = "outputs"
         \/ child # "running" /\ result # "none" /\ pc'["op"] = "cleanup"
      /\ \A s \in Threads : s # "op" => pc'[s] = pc[s]
  BY <1>1, GotoMoves DEF Threads, Labels
<1> USE DEF RunInv, coordVars, lockedVars, pipeVars, childVars, opVars
<1>3. RunTypeOK'
  BY <1>1, <1>2 DEF RunTypeOK, Results
<1>4. Answered' /\ TakenBriefly' /\ OpAnswers'
  BY <1>1, <1>2 DEF Answered, TakenBriefly, OpAnswers
<1>5. ResultKnown' /\ Unborn' /\ ErrorIsLate'
  BY <1>1, <1>2 DEF ResultKnown, Unborn, ErrorIsLate
<1>6. CutIsCancelled' /\ TerminatedForCause'
  BY <1>1, <1>2 DEF ResultKnown, CutIsCancelled, TerminatedForCause
<1>7. PassedIsWhole'
  BY <1>1, <1>2 DEF RunTypeOK, ResultKnown, Unborn, CutIsCancelled, TerminatedForCause,
                    PassedIsWhole, Passed
<1> QED BY <1>3, <1>4, <1>5, <1>6, <1>7

\* The output is collected; it is cut only where readers were closed.
LEMMA CollectKeeps == RunInv /\ Collect => RunInv'
<1> SUFFICES ASSUME RunInv, Collect PROVE RunInv'
  OBVIOUS
<1>1. /\ UNCHANGED <<coordVars, want, lockedVars, pipeVars, childVars, result>>
      /\ \/ /\ Goto("op", "outputs", "recheck")
            /\ output' \in {"whole", "cut"} /\ (output' = "cut" => ~readers)
         \/ Goto("op", "outputs", "caught") /\ UNCHANGED output
  BY DEF Collect, Op, OpOnly
<1>2. /\ pc' \in [Threads -> Labels] /\ pc["op"] = "outputs"
      /\ \/ /\ pc'["op"] = "recheck"
            /\ output' \in {"whole", "cut"} /\ (output' = "cut" => ~readers)
         \/ pc'["op"] = "caught" /\ UNCHANGED output
      /\ \A s \in Threads : s # "op" => pc'[s] = pc[s]
  BY <1>1, GotoMoves DEF Threads, Labels
<1> USE DEF RunInv, coordVars, lockedVars, pipeVars, childVars, opVars
<1>3. RunTypeOK'
  BY <1>1, <1>2 DEF RunTypeOK, Results
<1>4. Answered' /\ TakenBriefly' /\ OpAnswers'
  BY <1>1, <1>2 DEF Answered, TakenBriefly, OpAnswers
<1>5. ResultKnown' /\ Unborn' /\ ErrorIsLate'
  BY <1>1, <1>2 DEF ResultKnown, Unborn, ErrorIsLate
<1>6. CutIsCancelled' /\ TerminatedForCause'
  BY <1>1, <1>2 DEF ResultKnown, CutIsCancelled, TerminatedForCause
<1>7. PassedIsWhole'
  BY <1>1, <1>2 DEF RunTypeOK, ResultKnown, Unborn, CutIsCancelled, TerminatedForCause,
                    PassedIsWhole, Passed
<1> QED BY <1>3, <1>4, <1>5, <1>6, <1>7

\* The last check: what it lets pass was not terminated and is whole.
LEMMA RecheckKeeps == RunInv /\ Recheck => RunInv'
<1> SUFFICES ASSUME RunInv, Recheck PROVE RunInv'
  OBVIOUS
<1>1. /\ UNCHANGED <<coordVars, want, lockedVars, pipeVars, childVars, output>>
      /\ \/ ~cancelled /\ Goto("op", "recheck", "cleanup") /\ UNCHANGED result
         \/ Goto("op", "recheck", "mark") /\ result' = "cancelled"
  BY DEF Recheck, Op, EndWith, OpOnly, opVars, IsCancelled
<1>2. /\ pc' \in [Threads -> Labels] /\ pc["op"] = "recheck"
      /\ \/ ~cancelled /\ pc'["op"] = "cleanup" /\ UNCHANGED result
         \/ pc'["op"] = "mark" /\ result' = "cancelled"
      /\ \A s \in Threads : s # "op" => pc'[s] = pc[s]
  BY <1>1, GotoMoves DEF Threads, Labels
<1> USE DEF RunInv, coordVars, lockedVars, pipeVars, childVars, opVars
<1>3. RunTypeOK'
  BY <1>1, <1>2 DEF RunTypeOK, Results
<1>4. Answered' /\ TakenBriefly' /\ OpAnswers'
  BY <1>1, <1>2 DEF Answered, TakenBriefly, OpAnswers
<1>5. ResultKnown' /\ Unborn' /\ ErrorIsLate'
  BY <1>1, <1>2 DEF ResultKnown, Unborn, ErrorIsLate
<1>6. CutIsCancelled' /\ TerminatedForCause'
  BY <1>1, <1>2 DEF ResultKnown, CutIsCancelled, TerminatedForCause
<1>7. PassedIsWhole'
  BY <1>1, <1>2 DEF RunTypeOK, ResultKnown, Unborn, CutIsCancelled, TerminatedForCause,
                    PassedIsWhole, Passed
<1> QED BY <1>3, <1>4, <1>5, <1>6, <1>7

\* The handles are closed, unless another thread is about to.
LEMMA CleanupKeeps == RunInv /\ Cleanup => RunInv'
<1> SUFFICES ASSUME RunInv, Cleanup PROVE RunInv'
  OBVIOUS
<1>1. /\ UNCHANGED <<coordVars, want, cancelled, terminationRequested, childVars, opVars>>
      /\ \/ result = "none" /\ Goto("op", "cleanup", "status")
         \/ result # "none" /\ Goto("op", "cleanup", "finish")
      /\ registered' = FALSE /\ readers' = FALSE
      /\ stdin' = IF stdin = "taken" THEN "taken" ELSE "closed"
  BY DEF Cleanup, Op
<1>2. /\ pc' \in [Threads -> Labels] /\ pc["op"] = "cleanup"
      /\ \/ result = "none" /\ pc'["op"] = "status"
         \/ result # "none" /\ pc'["op"] = "finish"
      /\ \A s \in Threads : s # "op" => pc'[s] = pc[s]
  BY <1>1, GotoMoves DEF Threads, Labels
<1> USE DEF RunInv, coordVars, lockedVars, pipeVars, childVars, opVars
<1>3. RunTypeOK'
  BY <1>1, <1>2 DEF RunTypeOK, Results
<1>4. Answered' /\ TakenBriefly' /\ OpAnswers'
  BY <1>1, <1>2 DEF Answered, TakenBriefly, OpAnswers
<1>5. ResultKnown' /\ Unborn' /\ ErrorIsLate'
  BY <1>1, <1>2 DEF ResultKnown, Unborn, ErrorIsLate
<1>6. CutIsCancelled' /\ TerminatedForCause'
  BY <1>1, <1>2 DEF ResultKnown, CutIsCancelled, TerminatedForCause
<1>7. PassedIsWhole'
  BY <1>1, <1>2 DEF RunTypeOK, ResultKnown, Unborn, CutIsCancelled, TerminatedForCause,
                    PassedIsWhole, Passed
<1> QED BY <1>3, <1>4, <1>5, <1>6, <1>7

\* Data is what a process that was fed and ended well has written.
LEMMA StatusKeeps == RunInv /\ Status => RunInv'
<1> SUFFICES ASSUME RunInv, Status PROVE RunInv'
  OBVIOUS
<1>1. /\ UNCHANGED <<coordVars, want, lockedVars, pipeVars, childVars, output>>
      /\ \/ /\ child = "succeeded" /\ fed /\ result' = "data"
            /\ Goto("op", "status", "finish")
         \/ Goto("op", "status", "caught") /\ UNCHANGED result
  BY DEF Status, Op, EndWith, OpOnly, opVars
<1>2. /\ pc' \in [Threads -> Labels] /\ pc["op"] = "status"
      /\ \/ /\ child = "succeeded" /\ fed /\ result' = "data"
            /\ pc'["op"] = "finish"
         \/ pc'["op"] = "caught" /\ UNCHANGED result
      /\ \A s \in Threads : s # "op" => pc'[s] = pc[s]
  BY <1>1, GotoMoves DEF Threads, Labels
<1> USE DEF RunInv, coordVars, lockedVars, pipeVars, childVars, opVars
<1>3. RunTypeOK'
  BY <1>1, <1>2 DEF RunTypeOK, Results
<1>4. Answered' /\ TakenBriefly' /\ OpAnswers'
  BY <1>1, <1>2 DEF Answered, TakenBriefly, OpAnswers
<1>5. ResultKnown' /\ Unborn' /\ ErrorIsLate'
  BY <1>1, <1>2 DEF ResultKnown, Unborn, ErrorIsLate
<1>6. CutIsCancelled' /\ TerminatedForCause'
  BY <1>1, <1>2 DEF ResultKnown, CutIsCancelled, TerminatedForCause
<1>7. PassedIsWhole'
  BY <1>1, <1>2 DEF RunTypeOK, ResultKnown, Unborn, CutIsCancelled, TerminatedForCause,
                    PassedIsWhole, Passed
<1> QED BY <1>3, <1>4, <1>5, <1>6, <1>7

\* A failure is an error, or the cancellation that caused it.
LEMMA CaughtKeeps == RunInv /\ Caught => RunInv'
<1> SUFFICES ASSUME RunInv, Caught PROVE RunInv'
  OBVIOUS
<1>1. /\ UNCHANGED <<coordVars, want, lockedVars, pipeVars, childVars, output>>
      /\ \/ Goto("op", "caught", "fail") /\ result' = "error"
         \/ IsCancelled /\ Goto("op", "caught", "mark") /\ result' = "cancelled"
  BY DEF Caught, Op, EndWith, OpOnly, opVars
<1>2. /\ pc' \in [Threads -> Labels] /\ pc["op"] = "caught"
      /\ \/ pc'["op"] = "fail" /\ result' = "error"
         \/ IsCancelled /\ pc'["op"] = "mark" /\ result' = "cancelled"
      /\ \A s \in Threads : s # "op" => pc'[s] = pc[s]
  BY <1>1, GotoMoves DEF Threads, Labels
<1> USE DEF RunInv, coordVars, lockedVars, pipeVars, childVars, opVars
<1>3. RunTypeOK'
  BY <1>1, <1>2 DEF RunTypeOK, Results
<1>4. Answered' /\ TakenBriefly' /\ OpAnswers'
  BY <1>1, <1>2 DEF Answered, TakenBriefly, OpAnswers
<1>5. ResultKnown' /\ Unborn' /\ ErrorIsLate'
  BY <1>1, <1>2 DEF ResultKnown, Unborn, ErrorIsLate
<1>6. CutIsCancelled' /\ TerminatedForCause'
  BY <1>1, <1>2 DEF ResultKnown, CutIsCancelled, TerminatedForCause
<1>7. PassedIsWhole'
  BY <1>1, <1>2 DEF RunTypeOK, ResultKnown, Unborn, CutIsCancelled, TerminatedForCause,
                    PassedIsWhole, Passed
<1> QED BY <1>3, <1>4, <1>5, <1>6, <1>7

\* What the first half of a cancellation takes, and from whom.
LEMMA MarkTakes ==
  ASSUME RunInv, NEW t \in Threads, Mark(t)
  PROVE  /\ UNCHANGED <<coordVars, registered, readers, childVars, opVars>>
         /\ pc' \in [Threads -> Labels] /\ pc'[t] = "signal"
         /\ \A s \in Threads : s # t => pc'[s] = pc[s] /\ want'[s] = want[s]
         /\ want' \in [Threads -> SUBSET {"stdin", "readers", "process"}] /\ want[t] = {}
         /\ terminationRequested' \in BOOLEAN
         /\ \/ /\ pc[t] = "mark" /\ cancelled' = TRUE
               /\ stdin' = IF registered /\ stdin = "open" THEN "taken" ELSE stdin
               /\ registered /\ stdin = "open" => "stdin" \in want'[t]
            \/ /\ t = "op" /\ pc[t] = "fail" /\ UNCHANGED <<cancelled, stdin>>
               /\ "readers" \notin want'[t]
<1> USE DEF RunInv
<1>1. want \in [Threads -> SUBSET {"stdin", "readers", "process"}] /\ terminationRequested \in BOOLEAN
  BY DEF RunTypeOK
<1>2. UNCHANGED <<coordVars, registered, readers, childVars, opVars>>
  BY DEF Mark
<1>3. CASE MarkCancelled(t)
  <2>1. /\ pc' \in [Threads -> Labels] /\ pc[t] = "mark" /\ pc'[t] = "signal"
        /\ \A s \in Threads : s # t => pc'[s] = pc[s]
    BY <1>3, GotoMoves DEF MarkCancelled, Labels
  <2>2. /\ want' \in [Threads -> SUBSET {"stdin", "readers", "process"}]
        /\ \A s \in Threads : s # t => want'[s] = want[s]
        /\ registered /\ stdin = "open" => "stdin" \in want'[t]
    BY <1>1, <1>3 DEF MarkCancelled, Take
  <2>3. terminationRequested' \in BOOLEAN
    BY <1>1, <1>3 DEF MarkCancelled, CanTerminate
  <2>4. cancelled' = TRUE /\ stdin' = IF registered /\ stdin = "open" THEN "taken" ELSE stdin
    BY <1>3 DEF MarkCancelled
  <2>5. want[t] = {}
    BY <2>1 DEF TakenBriefly
  <2>6. \A s \in Threads : s # t => pc'[s] = pc[s] /\ want'[s] = want[s]
    BY <2>1, <2>2
  <2> QED BY <1>2, <2>1, <2>2, <2>3, <2>4, <2>5, <2>6
<1>4. CASE t = "op" /\ MarkFailed
  <2>1. /\ pc' \in [Threads -> Labels] /\ pc[t] = "fail" /\ pc'[t] = "signal"
        /\ \A s \in Threads : s # t => pc'[s] = pc[s]
    BY <1>4, GotoMoves DEF MarkFailed, Labels
  <2>2. /\ want' \in [Threads -> SUBSET {"stdin", "readers", "process"}]
        /\ \A s \in Threads : s # t => want'[s] = want[s]
        /\ "readers" \notin want'[t]
    BY <1>1, <1>4 DEF MarkFailed, Take
  <2>3. terminationRequested' \in BOOLEAN
    BY <1>1, <1>4 DEF MarkFailed, CanTerminate
  <2>4. UNCHANGED <<cancelled, stdin>>
    BY <1>4 DEF MarkFailed
  <2>5. want[t] = {}
    BY <2>1 DEF TakenBriefly
  <2>6. \A s \in Threads : s # t => pc'[s] = pc[s] /\ want'[s] = want[s]
    BY <2>1, <2>2
  <2> QED BY <1>2, <1>4, <2>1, <2>2, <2>3, <2>4, <2>5, <2>6
<1> QED BY <1>3, <1>4 DEF Mark

\* The first half of a cancellation, by any thread at any time.
LEMMA MarkKeeps ==
  ASSUME RunInv, NEW t \in Threads, Mark(t)
  PROVE  RunInv'
<1>1. /\ UNCHANGED <<coordVars, registered, readers, childVars, opVars>>
      /\ pc' \in [Threads -> Labels] /\ pc'[t] = "signal"
      /\ \A s \in Threads : s # t => pc'[s] = pc[s] /\ want'[s] = want[s]
      /\ want' \in [Threads -> SUBSET {"stdin", "readers", "process"}] /\ want[t] = {}
      /\ terminationRequested' \in BOOLEAN
      /\ \/ /\ pc[t] = "mark" /\ cancelled' = TRUE
            /\ stdin' = IF registered /\ stdin = "open" THEN "taken" ELSE stdin
            /\ registered /\ stdin = "open" => "stdin" \in want'[t]
         \/ /\ t = "op" /\ pc[t] = "fail" /\ UNCHANGED <<cancelled, stdin>>
            /\ "readers" \notin want'[t]
  BY MarkTakes
<1> USE DEF RunInv, coordVars, childVars, opVars
<1>2. /\ UNCHANGED <<registered, readers, result, output, child, fed, terminated>>
      /\ \/ pc'["op"] = pc["op"]
         \/ pc["op"] \in {"mark", "fail"} /\ pc'["op"] = "signal"
  BY <1>1 DEF Threads
<1>3. stdin' = "taken" => \E u \in Threads : "stdin" \in want'[u]
  BY <1>1 DEF RunTypeOK
<1>4. RunTypeOK'
  BY <1>1, <1>3 DEF RunTypeOK
<1>5. Answered' /\ TakenBriefly' /\ OpAnswers'
  BY <1>1, <1>2 DEF Answered, TakenBriefly, OpAnswers
<1>6. ResultKnown' /\ Unborn' /\ ErrorIsLate' /\ PassedIsWhole'
  BY <1>2 DEF ResultKnown, Unborn, ErrorIsLate, PassedIsWhole, Passed
<1>7. CASE cancelled' = TRUE
  BY <1>4, <1>5, <1>6, <1>7 DEF CutIsCancelled, TerminatedForCause
<1>8. CASE t = "op" /\ pc[t] = "fail" /\ UNCHANGED cancelled /\ "readers" \notin want'[t]
  <2>1. result = "error"
    BY <1>8 DEF ResultKnown
  <2>2. CutIsCancelled'
    BY <1>1, <1>2, <1>8, <2>1 DEF CutIsCancelled
  <2>3. TerminatedForCause'
    BY <1>2, <2>1 DEF TerminatedForCause
  <2> QED BY <1>4, <1>5, <1>6, <2>2, <2>3
<1> QED BY <1>1, <1>7, <1>8

\* The second half: a process that has ended by itself is not terminated.
LEMMA SignalKeeps ==
  ASSUME RunInv, NEW t \in Threads, Signal(t)
  PROVE  RunInv'
<1> USE DEF RunInv, coordVars, lockedVars, opVars
<1>1. /\ UNCHANGED <<coordVars, lockedVars, child, fed, opVars>>
      /\ stdin' = IF "stdin" \in want[t] THEN "closed" ELSE stdin
      /\ readers' = (readers /\ "readers" \notin want[t])
      /\ terminated' = (terminated \/ ("process" \in want[t] /\ child = "running"))
      /\ Goto(t, "signal", AfterSignal(t)) /\ Take(t, {})
  BY DEF Signal
<1>2. /\ want' \in [Threads -> SUBSET {"stdin", "readers", "process"}] /\ want'[t] = {}
      /\ \A s \in Threads : s # t => want'[s] = want[s]
  BY <1>1 DEF Take, RunTypeOK
<1>3. AfterSignal(t) \in Labels
  BY DEF AfterSignal, Labels
<1>4. /\ pc' \in [Threads -> Labels] /\ pc[t] = "signal" /\ pc'[t] = AfterSignal(t)
      /\ \A s \in Threads : s # t => pc'[s] = pc[s]
  BY <1>1, <1>3, GotoMoves
<1>5. \/ pc'["op"] = pc["op"]
      \/ pc["op"] = "signal" /\ pc'["op"] = "cleanup" /\ result = "cancelled"
      \/ pc["op"] = "signal" /\ pc'["op"] = "wait"
  BY <1>4 DEF AfterSignal, Threads
<1>6. stdin' = "taken" => \E u \in Threads : "stdin" \in want'[u]
  BY <1>1, <1>2 DEF RunTypeOK
<1>7. RunTypeOK'
  BY <1>1, <1>2, <1>4, <1>6 DEF RunTypeOK
<1>8. Answered' /\ TakenBriefly' /\ OpAnswers'
  BY <1>1, <1>2, <1>4, <1>5 DEF Answered, TakenBriefly, OpAnswers
<1>9. ResultKnown' /\ Unborn' /\ ErrorIsLate'
  BY <1>1, <1>5 DEF ResultKnown, Unborn, ErrorIsLate
<1>10. CutIsCancelled'
  BY <1>1, <1>2, <1>5 DEF CutIsCancelled
<1>11. TerminatedForCause'
  BY <1>1, <1>2 DEF TerminatedForCause
<1>12. PassedIsWhole'
  BY <1>1, <1>5 DEF PassedIsWhole, Passed, ResultKnown
<1> QED BY <1>7, <1>8, <1>9, <1>10, <1>11, <1>12

\* Only the operation's task is told to stop.
LEMMA StopKeeps ==
  ASSUME RunInv, NEW t \in Enders, StopOperation(t), CoordOnly
  PROVE  RunInv'
<1> USE DEF RunInv, lockedVars, pipeVars, childVars, opVars
<1>1. /\ UNCHANGED <<started, completed, answer, resumes, timer>> /\ opStopped' \in BOOLEAN
      /\ UNCHANGED <<lockedVars, pipeVars, childVars, opVars, want>>
      /\ Goto(t, "stop", "finish")
  BY DEF StopOperation, CoordOnly, RunTypeOK
<1>2. /\ pc' \in [Threads -> Labels] /\ pc'["op"] = pc["op"]
      /\ pc[t] = "stop" /\ \A s \in Threads : s # t => pc'[s] = pc[s]
  BY <1>1, GotoMoves DEF Threads, Enders, Labels
<1>3. RunTypeOK'
  BY <1>1, <1>2 DEF RunTypeOK
<1>4. Answered' /\ TakenBriefly' /\ OpAnswers'
  BY <1>1, <1>2 DEF Answered, TakenBriefly, OpAnswers, Threads, Enders
<1>5. ResultKnown' /\ Unborn' /\ ErrorIsLate' /\ CutIsCancelled' /\ TerminatedForCause'
  BY <1>1, <1>2 DEF ResultKnown, Unborn, ErrorIsLate, CutIsCancelled, TerminatedForCause
<1>6. PassedIsWhole'
  BY <1>1, <1>2 DEF PassedIsWhole, Passed
<1> QED BY <1>3, <1>4, <1>5, <1>6

\* The first to finish resumes the continuation; the others find it done.
LEMMA FinishKeeps ==
  ASSUME RunInv, NEW t \in Threads, NEW r \in Results \ {"none"}, Finish(t, r), CoordOnly,
         t = "op" => r = result, t # "op" => r \in {"cancelled", "timeout"}
  PROVE  RunInv'
<1> USE DEF RunInv, lockedVars, pipeVars, childVars, opVars
<1>1. /\ UNCHANGED <<started, opStopped, lockedVars, pipeVars, childVars, opVars, want>>
      /\ Goto(t, "finish", "done")
  BY DEF Finish, CoordOnly
<1>2. /\ pc' \in [Threads -> Labels] /\ pc[t] = "finish" /\ pc'[t] = "done"
      /\ \A s \in Threads : s # t => pc'[s] = pc[s]
  BY <1>1, GotoMoves DEF Labels
<1>3. \/ UNCHANGED <<completed, timer, answer, resumes>>
      \/ /\ ~completed /\ completed' = TRUE /\ timer' \in {"off", "over", timer}
         /\ \/ started /\ answer' = r /\ resumes' = resumes + 1
            \/ ~started /\ UNCHANGED <<answer, resumes>>
  BY DEF Finish, Resume
<1>4. /\ completed' \in BOOLEAN /\ answer' \in Results /\ resumes' \in Nat
      /\ timer' \in {"off", "asleep", "over"}
  <2>1. /\ completed \in BOOLEAN /\ answer \in Results /\ resumes \in Nat
        /\ timer \in {"off", "asleep", "over"}
    BY DEF RunTypeOK
  <2>2. CASE UNCHANGED <<completed, timer, answer, resumes>>
    BY <2>1, <2>2
  <2>3. CASE completed' = TRUE /\ timer' \in {"off", "over", timer}
    <3>1. answer' \in Results /\ resumes' \in Nat
      BY <1>3, <2>1
    <3> QED BY <2>1, <2>3, <3>1
  <2> QED BY <1>3, <2>2, <2>3
<1>5. RunTypeOK'
  BY <1>1, <1>2, <1>4 DEF RunTypeOK
<1>6. \/ pc'["op"] = pc["op"]
      \/ t = "op" /\ pc["op"] = "finish" /\ pc'["op"] = "done"
  BY <1>2 DEF Threads
<1>7. Answered'
  BY <1>1, <1>3 DEF Answered
<1>8. OpAnswers'
  <2>1. CASE answer' = answer
    BY <1>1, <1>6, <2>1 DEF OpAnswers
  <2>2. CASE answer' = r /\ t = "op"
    BY <1>1, <1>2, <2>2 DEF OpAnswers
  <2>3. CASE answer' = r /\ t # "op"
    BY <2>3 DEF OpAnswers
  <2> QED BY <1>3, <2>1, <2>2, <2>3
<1>9. TakenBriefly' /\ ResultKnown' /\ Unborn' /\ ErrorIsLate'
  BY <1>1, <1>2, <1>6 DEF TakenBriefly, ResultKnown, Unborn, ErrorIsLate
<1>10. CutIsCancelled' /\ TerminatedForCause' /\ PassedIsWhole'
  BY <1>1, <1>6 DEF CutIsCancelled, TerminatedForCause, PassedIsWhole, Passed, ResultKnown
<1> QED BY <1>5, <1>7, <1>8, <1>9, <1>10

\* The caller starts the run; one that was cancelled before is answered at once.
LEMMA StartKeeps == RunInv /\ Start /\ CoordOnly => RunInv'
<1> SUFFICES ASSUME RunInv, Start, CoordOnly PROVE RunInv'
  OBVIOUS
<1> USE DEF RunInv, lockedVars, pipeVars, childVars, opVars
<1>1. /\ UNCHANGED <<completed, opStopped, lockedVars, pipeVars, childVars, opVars, want>>
      /\ ~started /\ started' = TRUE
      /\ \/ /\ completed /\ answer' = "cancelled" /\ resumes' = resumes + 1
            /\ UNCHANGED <<pc, timer>>
         \/ /\ ~completed /\ Goto("op", "idle", "begin") /\ timer' = "asleep"
            /\ UNCHANGED <<answer, resumes>>
  BY DEF Start, Resume, CoordOnly
<1>2. /\ pc' \in [Threads -> Labels]
      /\ pc'["op"] = pc["op"] \/ (pc["op"] = "idle" /\ pc'["op"] = "begin")
      /\ \A s \in Threads : s # "op" => pc'[s] = pc[s]
  <2>1. CASE UNCHANGED pc
    BY <2>1 DEF RunTypeOK
  <2>2. CASE Goto("op", "idle", "begin")
    BY <2>2, GotoMoves DEF Threads, Labels
  <2> QED BY <1>1, <2>1, <2>2
<1>3. /\ answer' \in Results /\ resumes' \in Nat /\ timer' \in {"off", "asleep", "over"}
  BY <1>1 DEF RunTypeOK, Results
<1>4. RunTypeOK'
  BY <1>1, <1>2, <1>3 DEF RunTypeOK
<1>5. Answered' /\ OpAnswers'
  BY <1>1, <1>2 DEF Answered, OpAnswers
<1>6. TakenBriefly' /\ ResultKnown' /\ Unborn' /\ ErrorIsLate'
  BY <1>1, <1>2 DEF TakenBriefly, ResultKnown, Unborn, ErrorIsLate
<1>7. CutIsCancelled' /\ TerminatedForCause' /\ PassedIsWhole'
  BY <1>1, <1>2 DEF CutIsCancelled, TerminatedForCause, PassedIsWhole, Passed
<1> QED BY <1>4, <1>5, <1>6, <1>7

\* The caller cancels, or the time is over: another thread sets out.
LEMMA EnderStarts ==
  ASSUME RunInv, CoordOnly, UserCancels \/ TimerFires
  PROVE  RunInv'
<1> USE DEF RunInv, coordVars, lockedVars, pipeVars, childVars, opVars
<1>1. /\ UNCHANGED <<started, completed, answer, resumes, opStopped>>
      /\ UNCHANGED <<lockedVars, pipeVars, childVars, opVars, want>>
      /\ timer' \in {timer, "over"}
      /\ Goto("user", "idle", "mark") \/ Goto("timeout", "idle", "mark")
  BY DEF UserCancels, TimerFires, CoordOnly
<1>2. /\ pc' \in [Threads -> Labels] /\ pc'["op"] = pc["op"]
      /\ \A s \in Threads : pc[s] = "signal" => pc'[s] = "signal"
  BY <1>1, GotoMoves DEF Threads, Enders, Labels
<1>3. RunTypeOK'
  BY <1>1, <1>2 DEF RunTypeOK
<1>4. Answered' /\ TakenBriefly' /\ OpAnswers'
  BY <1>1, <1>2 DEF Answered, TakenBriefly, OpAnswers
<1>5. ResultKnown' /\ Unborn' /\ ErrorIsLate' /\ CutIsCancelled' /\ TerminatedForCause'
  BY <1>1, <1>2 DEF ResultKnown, Unborn, ErrorIsLate, CutIsCancelled, TerminatedForCause
<1>6. PassedIsWhole'
  BY <1>1, <1>2 DEF PassedIsWhole, Passed
<1> QED BY <1>3, <1>4, <1>5, <1>6

\* The process ends, by itself or killed.
LEMMA ChildKeeps == RunInv /\ (Exit \/ ForceKill) => RunInv'
<1> SUFFICES ASSUME RunInv, Exit \/ ForceKill PROVE RunInv'
  OBVIOUS
<1> USE DEF RunInv, coordVars, lockedVars, pipeVars, opVars
<1>1. /\ child = "running" /\ child' \in {"succeeded", "failed", "killed"}
      /\ UNCHANGED <<coordVars, lockedVars, pipeVars, fed, terminated, opVars, pc, want>>
  BY DEF Exit, ForceKill, ChildOnly
<1>2. RunTypeOK'
  BY <1>1 DEF RunTypeOK
<1>3. Answered' /\ TakenBriefly' /\ OpAnswers'
  BY <1>1 DEF Answered, TakenBriefly, OpAnswers
<1>4. ResultKnown' /\ Unborn' /\ ErrorIsLate' /\ CutIsCancelled' /\ TerminatedForCause'
  BY <1>1 DEF ResultKnown, Unborn, ErrorIsLate, CutIsCancelled, TerminatedForCause
<1>5. PassedIsWhole'
  BY <1>1 DEF PassedIsWhole, Passed
<1> QED BY <1>2, <1>3, <1>4, <1>5

\* The operation ends with its result.
LEMMA OperateKeeps == RunInv /\ Operate => RunInv'
<1> SUFFICES ASSUME RunInv, Operate PROVE RunInv'
  OBVIOUS
<1>1. CASE Mark("op") \/ Signal("op")
  BY <1>1, MarkKeeps, SignalKeeps DEF Threads
<1>2. CASE Finish("op", result) /\ CoordOnly
  <2>1. result \in Results \ {"none"}
    BY <1>2 DEF Finish, Goto, RunInv, RunTypeOK, ResultKnown
  <2> QED BY <1>2, <2>1, FinishKeeps DEF Threads
<1> QED BY <1>1, <1>2, BeginKeeps, RegisterKeeps, SpawnKeeps, CheckKeeps, WriteKeeps, WaitKeeps,
           RecheckKeeps, CleanupKeeps, StatusKeeps, CaughtKeeps DEF Operate

\* The caller's cancellation and the timeout end with theirs.
LEMMA EndKeeps ==
  ASSUME RunInv, NEW t \in Enders, End(t)
  PROVE  RunInv'
<1>1. t \in Threads /\ t # "op"
  BY DEF Threads, Enders
<1>2. CASE Mark(t) \/ Signal(t)
  BY <1>1, <1>2, MarkKeeps, SignalKeeps
<1>3. CASE StopOperation(t) /\ CoordOnly
  BY <1>3, StopKeeps
<1>4. CASE Finish(t, IF t = "user" THEN "cancelled" ELSE "timeout") /\ CoordOnly
  <2>1. (IF t = "user" THEN "cancelled" ELSE "timeout") \in (Results \ {"none"}) \cap {"cancelled", "timeout"}
    BY DEF Results
  <2> QED BY <1>1, <1>4, <2>1, FinishKeeps
<1> QED BY <1>2, <1>3, <1>4 DEF End

\* The invariant is inductive.
LEMMA RunStepKeeps == RunInv /\ [RunNext]_runVars => RunInv'
<1> SUFFICES ASSUME RunInv, [RunNext]_runVars PROVE RunInv'
  OBVIOUS
<1>1. CASE UNCHANGED runVars
  BY <1>1 DEF runVars, coordVars, lockedVars, pipeVars, childVars, opVars, RunInv, RunTypeOK,
              Answered, TakenBriefly, ResultKnown, Unborn, CutIsCancelled, TerminatedForCause,
              PassedIsWhole, Passed, ErrorIsLate, OpAnswers
<1>2. ASSUME NEW t \in Enders, End(t) PROVE RunInv'
  BY <1>2, EndKeeps
<1> QED BY <1>1, <1>2, StartKeeps, EnderStarts, OperateKeeps, CollectKeeps, ChildKeeps DEF RunNext

\* What each place of the operation knows holds in every state.
THEOREM RunInvariant == RunSpec => []RunInv
BY RunInitial, RunStepKeeps, PTL DEF RunSpec

\* The runner's variables keep their types, and what is taken out of
\* stdinWriter is always in the hands of a thread that will close it.
THEOREM RunTypes == RunSpec => []RunTypeOK
<1>1. RunInv => RunTypeOK
  BY DEF RunInv
<1> QED BY <1>1, RunInvariant, PTL

\* Whichever of the three threads ends first, and whenever start comes, the
\* continuation is resumed at most once, and once when the run is over.
THEOREM AnsweredOnce == RunSpec => []OneAnswer
<1>1. RunInv => OneAnswer
  BY DEF RunInv, Answered, OneAnswer
<1> QED BY <1>1, RunInvariant, PTL

\* Data is the whole output of a process that was sent the whole request and
\* ended well by itself, and no process outlives the data or error of its run.
THEOREM DataIsTheReply == RunSpec => []DataIsReply
<1>1. RunInv => DataIsReply
  BY DEF RunInv, RunTypeOK, OpAnswers, PassedIsWhole, Passed, ErrorIsLate, DataIsReply
<1> QED BY <1>1, RunInvariant, PTL
=============================================================================
