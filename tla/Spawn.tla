-------------------------------- MODULE Spawn --------------------------------
(***************************************************************************)
(* Launching a tool: ExecutionWindow::start_new_run holds the window lock  *)
(* while the Run constructor builds a subprocess::Popen, whose             *)
(* execute_process (subprocess.cpp) creates an error pipe with FD_CLOEXEC  *)
(* on both ends, forks, and then                                           *)
(*  - in the parent: closes its write end and reads the pipe until EOF     *)
(*    (read_atmost_n); if anything was read it waits for the child         *)
(*    (wait_for_child_exit) and throws CalledProcessError;                 *)
(*  - in the child (Child::execute_child): dup2s the output files, chdir   *)
(*    to the workspace, runs the pre-exec hook and execvp; on any failure  *)
(*    it writes the message to the pipe and rethrows OSError. The rethrown *)
(*    exception unwinds the child's copy of the server thread, which then  *)
(*    goes on running server code and never exits by itself.              *)
(* A successful execvp closes the child's write end (FD_CLOEXEC).          *)
(* The observer thread's update_stats needs the same window lock.          *)
(*                                                                         *)
(* Launches follow each other: one child at a time, from the fork to the   *)
(* tool being reaped.                                                      *)
(***************************************************************************)
EXTENDS Naturals, FiniteSets

CONSTANTS
  ForkMayFail,    \* whether fork() may return -1
  ExecMayFail     \* whether dup2/chdir/execvp may fail in the child

VARIABLES
  rpc,     \* request thread in start_new_run / execute_process
  cpc,     \* the forked child: none, setup, tool, rogue, exited, reaped
  wOpen,   \* holders of an open write end of the error pipe
  errData, \* the pipe holds the child's error message
  lock,    \* the ExecutionWindow mutex: "free", or held by the request "req"
  run      \* the Run is in ExecutionWindow::running

vars == <<rpc, cpc, wOpen, errData, lock, run>>

-----------------------------------------------------------------------------
(* verify calls start_new_run: take the window lock, build the command,    *)
(* construct the Run; Popen creates the pipe (pipe_cloexec). The next     *)
(* launch comes after the previous Run is gone.                           *)
StartNewRun ==
  /\ rpc \in {"idle", "failed"} /\ lock = "free"
  /\ cpc \in {"none", "reaped"} /\ ~run
  /\ lock' = "req"
  /\ wOpen' = {"parent"}
  /\ rpc' = "fork"
  /\ cpc' = "none"
  /\ errData' = FALSE
  /\ UNCHANGED run

(* fork(): a failure closes both ends and throws OSError, which           *)
(* start_new_run turns into runtime_error; the lock_guard is released.    *)
Fork ==
  /\ rpc = "fork"
  /\ \/ /\ cpc' = "setup"
        /\ wOpen' = wOpen \cup {"child"}
        /\ rpc' = "close"
        /\ UNCHANGED lock
     \/ /\ ForkMayFail
        /\ wOpen' = {}
        /\ rpc' = "failed"
        /\ lock' = "free"
        /\ UNCHANGED cpc
  /\ UNCHANGED <<errData, run>>

(* The parent closes its write end ("else get stuck in read below").      *)
CloseWrite ==
  /\ rpc = "close"
  /\ wOpen' = wOpen \ {"parent"}
  /\ rpc' = "read"
  /\ UNCHANGED <<cpc, errData, lock, run>>

(* read_atmost_n returns once read() gives 0: every write end is closed.  *)
(* Bytes read: wait for the child; none: the Run constructor completes    *)
(* (report running, pid), emplace_back, and the lock is released.         *)
ReadPipe ==
  /\ rpc = "read"
  /\ wOpen = {}
  /\ IF errData
       THEN /\ rpc' = "wait" /\ UNCHANGED <<lock, run>>
       ELSE /\ rpc' = "idle" /\ run' = TRUE /\ lock' = "free"
  /\ UNCHANGED <<cpc, wOpen, errData>>

(* wait(): waitpid(WNOHANG) in a loop until the child has exited; then    *)
(* CalledProcessError is caught by execute_process's catch of             *)
(* std::exception and rethrown by copy (throw exp) as a plain             *)
(* std::exception. Neither start_new_run (OSError) nor handle_verify      *)
(* (runtime_error) catches it, and it leaves the noexcept onEOM: the      *)
(* server terminates.                                                     *)
WaitChild ==
  /\ rpc = "wait"
  /\ cpc = "exited"
  /\ cpc' = "reaped"
  /\ rpc' = "terminated"
  /\ UNCHANGED <<wOpen, errData, lock, run>>

(* Child::execute_child: execvp replaces the image (the write end closes  *)
(* on exec), or a step fails: write_n the message, rethrow, and the       *)
(* child's server thread carries on with the write end still open.        *)
ChildExec ==
  /\ cpc = "setup"
  /\ \/ /\ cpc' = "tool"
        /\ wOpen' = wOpen \ {"child"}
        /\ UNCHANGED errData
     \/ /\ ExecMayFail
        /\ cpc' = "rogue"
        /\ errData' = TRUE
        /\ UNCHANGED wOpen
  /\ UNCHANGED <<rpc, lock, run>>

(* The tool terminates and becomes a zombie until waitpid reaps it.       *)
ToolExits ==
  /\ cpc = "tool"
  /\ cpc' = "exited"
  /\ UNCHANGED <<rpc, wOpen, errData, lock, run>>

(* The observer's update_stats, atomic under the window lock: poll every  *)
(* Run; one whose poll reaps it is finalised and removed.                 *)
ObserverTick ==
  /\ lock = "free"
  /\ run
  /\ IF cpc = "exited" THEN /\ cpc' = "reaped" /\ run' = FALSE
                       ELSE UNCHANGED <<cpc, run>>
  /\ UNCHANGED <<rpc, wOpen, errData, lock>>

(* The child's copy of the server keeps running server code.              *)
RogueServes ==
  /\ cpc = "rogue"
  /\ UNCHANGED vars

Init ==
  /\ rpc = "idle"
  /\ cpc = "none"
  /\ wOpen = {}
  /\ errData = FALSE
  /\ lock = "free"
  /\ run = FALSE

Next ==
  \/ StartNewRun \/ Fork \/ CloseWrite \/ ReadPipe \/ WaitChild
  \/ ChildExec \/ ToolExits \/ ObserverTick \/ RogueServes

Spec == Init /\ [][Next]_vars

(* The threads are scheduled fairly and the kernel completes fork, exec   *)
(* and waitpid: weak fairness for the request thread, the child's setup   *)
(* and the observer (which ticks every second). A tool may run forever.  *)
FairSpec ==
  /\ Spec
  /\ WF_vars(Fork) /\ WF_vars(CloseWrite) /\ WF_vars(ReadPipe)
  /\ WF_vars(WaitChild) /\ WF_vars(ChildExec) /\ WF_vars(ObserverTick)

-----------------------------------------------------------------------------
=============================================================================
