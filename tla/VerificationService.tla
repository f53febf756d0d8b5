------------------------- MODULE VerificationService -------------------------
(***************************************************************************)
(* The orchestration kernel of VerifyServer (src/VerificationService):     *)
(* the ToolKit's busy flags, the WorkspaceManager with its ExpirationMap   *)
(* of shared workspaces, the Archive's reports, the ExecutionWindow's list *)
(* of Runs and the OS processes they supervise.                            *)
(*                                                                         *)
(* Three threads act on one VerificationService object:                    *)
(*  - the request thread (proxygen handler; one per service object, so    *)
(*    requests are handled one at a time), whose verify() is split at the  *)
(*    point where it releases the archive lock before start_new_run;      *)
(*  - the observer thread, whose ExecutionWindow::update_stats() holds    *)
(*    the window lock for the whole call and is one atomic step;           *)
(*  - the PeriodicExpirator thread popping expired workspaces.             *)
(* The OS and the clock are the environment: processes exit, SIGKILL is   *)
(* delivered, deadlines pass.                                              *)
(*                                                                         *)
(* Time is abstracted to staleness flags: a report is "stale" once         *)
(* now - lastMonitored > monitorTimeout, a map entry is "expired" once its *)
(* deadline has passed.                                                    *)
(*                                                                         *)
(* A Workspace is a shared_ptr: it is destroyed (directory removed, tool   *)
(* reservation released) when the last of its holders lets go: the        *)
(* expiration map, a Run, or the request thread.                           *)
(***************************************************************************)
EXTENDS Naturals, FiniteSets

CONSTANTS
  Tools,          \* tools registered in the ToolKit
  SingleInstance, \* tools with single_instance="true"
  Broken,         \* tools whose "--version" probe failed (busy forever)
  WsIds,          \* workspace ids the server hands out
  Requests,       \* distinct verification requests (report identities)
  ReqTool,        \* the tool each request names
  ReqInputs,      \* the archive files each request takes as input
  Files,          \* distinct file contents clients upload
  Pids,           \* process ids of the OS
  None            \* absence of a value

ASSUME /\ SingleInstance \subseteq Tools
       /\ Broken \subseteq Tools
       /\ ReqTool \in [Requests -> Tools]
       /\ ReqInputs \in [Requests -> SUBSET Files]
       /\ None \notin Tools \cup WsIds \cup Requests \cup Pids

VARIABLES
  busy,       \* Tool::busy
  wsMap,      \* WorkspaceManager's ExpirationMap: id -> absent/fresh/expired
  wsAlive,    \* Workspace objects not yet destroyed (directory exists)
  wsTool,     \* the tool reserved by the workspace created under an id
  wsFiles,    \* Workspace::files (file ids checked in)
  wsReports,  \* Workspace::reports (report ACL)
  archFiles,  \* Archive::fileStore
  reports,    \* Archive::reportStore, indexed by request identity
  window,     \* ExecutionWindow::running, indexed by the Run's pid
  proc,       \* OS state of each pid
  req,        \* request thread: idle, or inside verify() before start_new_run
  reply       \* status of the last answered request

vars == <<busy, wsMap, wsAlive, wsTool, wsFiles, wsReports, archFiles,
          reports, window, proc, req, reply>>

Absent  == "absent"
Fresh   == "fresh"
Expired == "expired"

ProcStates == {"free", "running", "killed", "exited"}

Report == [running : BOOLEAN, valid : BOOLEAN, pid : Pids \cup {None},
           stale : BOOLEAN]
Run == [rep : Requests, ws : WsIds]

Replies == {"none", "created", "reservation_failed", "destroyed", "uploaded",
            "already_stored", "escape_rejected", "not_found", "invalid_request",
            "known", "started", "launch_failed", "monitored", "denied",
            "kill_requested"}

Idle == [pc |-> "idle", ws |-> None, rep |-> None]

-----------------------------------------------------------------------------
(* Report constructor: not running, not valid, pid -9999, lastMonitored = *)
(* now.                                                                    *)
NewReport == [running |-> FALSE, valid |-> FALSE, pid |-> None, stale |-> FALSE]

(* Mutant: finalisation forgets to clear the running flag.               *)
FinalisedKeepsRunning(rec) == [rec EXCEPT !.valid = TRUE]

(* Mutant: the TODO of killTask done as "pid = 0", outside the pid range. *)
FinalisedClearsPid(rec) ==
  [rec EXCEPT !.running = FALSE, !.valid = TRUE, !.pid = 0]

(* Run::finalise_report: running = false, "Verification finished.",       *)
(* validate().                                                             *)
Finalised(rec) == [rec EXCEPT !.running = FALSE, !.valid = TRUE]

(* Mutant: acquire without the "if (busy) return false" guard.           *)
AcquireUnchecked(t) == busy' = [busy EXCEPT ![t] = t \in SingleInstance]

(* Tool::acquire: fails on a busy tool; only single-instance tools become *)
(* busy.                                                                   *)
Acquire(t) == /\ ~busy[t]
              /\ busy' = [busy EXCEPT ![t] = t \in SingleInstance]

(* Mutant: the Run does not share ownership of its workspace.             *)
HeldNextNoRuns(w) == \/ wsMap'[w] # Absent
                     \/ req'.pc = "start" /\ req'.ws = w

(* Who still holds a shared_ptr to the workspace after this step: the     *)
(* expiration map, a Run of the window, or the request thread.             *)
HeldNext(w) == \/ wsMap'[w] # Absent
               \/ \E p \in Pids : window'[p] # None /\ window'[p].ws = w
               \/ req'.pc = "start" /\ req'.ws = w

(* Workspace::~Workspace and ~ToolReservation for every workspace whose   *)
(* last holder let go in this step: the directory is removed and the tool *)
(* set free. Must follow the conjuncts that fix wsMap', window', req'.     *)
Collect == LET gone == {w \in wsAlive : ~HeldNext(w)}
           IN /\ wsAlive' = wsAlive \ gone
              /\ busy' = [t \in Tools |->
                            IF \E w \in gone : wsTool[w] = t THEN FALSE
                                                             ELSE busy[t]]

(* Mutant: the monitor-timeout comparison inverted.                       *)
TimedOutInverted(p) == /\ window[p] # None
                       /\ ~reports[window[p].rep].stale
                       /\ proc[p] = "running"

(* update_stats: now - run.getLastMonitored() > monitorTimeout, for a Run  *)
(* whose process has not been killed or exited yet.                        *)
TimedOut(p) == /\ window[p] # None
               /\ reports[window[p].rep].stale
               /\ proc[p] = "running"

(* ExpirationMap::keepAlive of one entry.                                 *)
Renew(w) == [wsMap EXCEPT ![w] = Fresh]

(* ExpirationMap::pop_expired: every entry past its deadline leaves.      *)
PopAll == [w \in WsIds |-> IF wsMap[w] = Expired THEN Absent ELSE wsMap[w]]

(* WorkspaceManager::get: get(id) then keepAlive(id). If the entry is     *)
(* already past its deadline, the expirator may pop it between the two    *)
(* calls: keepAlive then fails silently and the caller keeps the pointer.  *)
Touched(w) == IF wsMap[w] = Expired THEN {Renew(w), PopAll} ELSE {Renew(w)}

-----------------------------------------------------------------------------
Init ==
  /\ busy = [t \in Tools |-> t \in Broken]
  /\ wsMap = [w \in WsIds |-> Absent]
  /\ wsAlive = {}
  /\ wsTool = [w \in WsIds |-> None]
  /\ wsFiles = [w \in WsIds |-> {}]
  /\ wsReports = [w \in WsIds |-> {}]
  /\ archFiles = {}
  /\ reports = [r \in Requests |-> None]
  /\ window = [p \in Pids |-> None]
  /\ proc = [p \in Pids |-> "free"]
  /\ req = Idle
  /\ reply = "none"

(* VerificationService::createWorkspace: ToolKit::reserveTool, then       *)
(* WorkspaceManager::create under a random id not in use.                 *)
CreateWorkspace(t) ==
  /\ req.pc = "idle"
  /\ \/ /\ Acquire(t)
        /\ \E w \in WsIds :
             /\ wsTool[w] = None
             /\ wsMap' = [wsMap EXCEPT ![w] = Fresh]
             /\ wsAlive' = wsAlive \cup {w}
             /\ wsTool' = [wsTool EXCEPT ![w] = t]
        /\ reply' = "created"
     \/ /\ busy[t]
        /\ reply' = "reservation_failed"
        /\ UNCHANGED <<busy, wsMap, wsAlive, wsTool>>
  /\ UNCHANGED <<wsFiles, wsReports, archFiles, reports, window, proc, req>>

(* VerificationService::destroyWorkspace: erase the map entry; the        *)
(* workspace dies only if no Run holds it.                                *)
DestroyWorkspace(w) ==
  /\ req.pc = "idle"
  /\ wsMap' = [wsMap EXCEPT ![w] = Absent]
  /\ reply' = "destroyed"
  /\ UNCHANGED <<wsTool, wsFiles, wsReports, archFiles, reports, window,
                 proc, req>>
  /\ Collect

(* VerificationService::addFile: the archive stores the content before    *)
(* the workspace rejects a path that escapes it.                          *)
AddFile(w, f) ==
  /\ req.pc = "idle"
  /\ UNCHANGED <<wsTool, wsReports, reports, window, proc, req>>
  /\ \/ /\ wsMap[w] = Absent
        /\ reply' = "not_found"
        /\ UNCHANGED <<busy, wsMap, wsAlive, wsFiles, archFiles>>
     \/ /\ wsMap[w] # Absent
        /\ wsMap' \in Touched(w)
        /\ archFiles' = archFiles \cup {f}
        /\ \/ /\ wsFiles' = [wsFiles EXCEPT ![w] = @ \cup {f}]
              /\ reply' = IF f \in archFiles THEN "already_stored"
                                             ELSE "uploaded"
           \/ /\ UNCHANGED wsFiles
              /\ reply' = "escape_rejected"
        /\ Collect

(* VerificationService::verify up to the is_valid() check: workspace      *)
(* lookup, tool and input checks, Archive::checkin_report,                *)
(* Workspace::addReport. A new or not yet valid report goes on to         *)
(* start_new_run (StartRun) after the archive lock is released.           *)
VerifyCheckin(w, r) ==
  /\ req.pc = "idle"
  /\ UNCHANGED <<wsTool, wsFiles, archFiles, window, proc>>
  /\ \/ /\ wsMap[w] = Absent
        /\ reply' = "not_found"
        /\ UNCHANGED <<busy, wsMap, wsAlive, reports, wsReports, req>>
     \/ /\ wsMap[w] # Absent
        /\ wsMap' \in Touched(w)
        /\ \/ /\ \/ ReqTool[r] # wsTool[w]
                 \/ ~(ReqInputs[r] \subseteq wsFiles[w])
              /\ reply' = "invalid_request"
              /\ UNCHANGED <<reports, wsReports, req>>
           \/ /\ ReqTool[r] = wsTool[w]
              /\ ReqInputs[r] \subseteq wsFiles[w]
              /\ LET isNew == reports[r] = None
                     rec   == IF isNew THEN NewReport ELSE reports[r]
                 IN /\ reports' = [reports EXCEPT ![r] = rec]
                    /\ wsReports' = [wsReports EXCEPT ![w] = @ \cup {r}]
                    /\ IF isNew \/ ~rec.valid
                         THEN /\ req' = [pc |-> "start", ws |-> w, rep |-> r]
                              /\ reply' = reply
                         ELSE /\ req' = req
                              /\ reply' = "known"
        /\ Collect

(* ExecutionWindow::start_new_run and the Run constructor: spawn the tool  *)
(* in the workspace; the Run keeps the workspace alive. Spawning fails     *)
(* with an OSError (no pid free, exec failure) and the report stays        *)
(* invalid.                                                                *)
StartRun ==
  /\ req.pc = "start"
  /\ UNCHANGED <<wsMap, wsTool, wsFiles, wsReports, archFiles>>
  /\ LET r == req.rep
         w == req.ws
     IN \/ \E p \in Pids :
             /\ proc[p] = "free"
             /\ proc' = [proc EXCEPT ![p] = "running"]
             /\ window' = [window EXCEPT ![p] = [rep |-> r, ws |-> w]]
             /\ reports' = [reports EXCEPT ![r].running = TRUE, ![r].pid = p]
             /\ reply' = "started"
        \/ /\ reply' = "launch_failed"
           /\ UNCHANGED <<proc, window, reports>>
  /\ req' = Idle
  /\ Collect

(* VerificationService::getMonitoringOSLC: ACL check, then                *)
(* Report::getMonitoringInformation refreshes lastMonitored.              *)
Monitor(w, r) ==
  /\ req.pc = "idle"
  /\ UNCHANGED <<wsTool, wsFiles, wsReports, archFiles, window, proc, req>>
  /\ \/ /\ wsMap[w] = Absent
        /\ reply' = "not_found"
        /\ UNCHANGED <<busy, wsMap, wsAlive, reports>>
     \/ /\ wsMap[w] # Absent
        /\ wsMap' \in Touched(w)
        /\ IF r \in wsReports[w] /\ reports[r] # None
             THEN /\ reports' = [reports EXCEPT ![r].stale = FALSE]
                  /\ reply' = "monitored"
             ELSE /\ UNCHANGED reports
                  /\ reply' = "denied"
        /\ Collect

(* VerificationService::killTask: read the report's pid, then             *)
(* ExecutionWindow::kill_process(pid) SIGKILLs the Run with that pid.     *)
KillTask(w, r) ==
  /\ req.pc = "idle"
  /\ UNCHANGED <<wsTool, wsFiles, wsReports, archFiles, reports, window, req>>
  /\ \/ /\ wsMap[w] = Absent
        /\ reply' = "not_found"
        /\ UNCHANGED <<busy, wsMap, wsAlive, proc>>
     \/ /\ wsMap[w] # Absent
        /\ wsMap' \in Touched(w)
        /\ IF r \in wsReports[w] /\ reports[r] # None
             THEN LET p == reports[r].pid
                  IN /\ proc' = IF p # None /\ window[p] # None
                                              /\ proc[p] = "running"
                                  THEN [proc EXCEPT ![p] = "killed"]
                                  ELSE proc
                     /\ reply' = "kill_requested"
             ELSE /\ UNCHANGED proc
                  /\ reply' = "denied"
        /\ Collect

(* ExecutionWindow::update_stats, called by the observer when the window  *)
(* is not empty: SIGKILL every Run whose report was not monitored within  *)
(* monitorTimeout, then remove every Run whose process has exited         *)
(* (Run::is_running false), finalising its report; poll() reaps the pid.  *)
UpdateStats ==
  /\ \E p \in Pids : window[p] # None
  /\ LET killed   == [p \in Pids |-> IF TimedOut(p) THEN "killed"
                                                   ELSE proc[p]]
         done     == {p \in Pids : window[p] # None /\ killed[p] = "exited"}
         finished == {window[p].rep : p \in done}
     IN /\ proc' = [p \in Pids |-> IF p \in done THEN "free" ELSE killed[p]]
        /\ window' = [p \in Pids |-> IF p \in done THEN None ELSE window[p]]
        /\ reports' = [r \in Requests |->
                         IF r \in finished THEN Finalised(reports[r])
                                           ELSE reports[r]]
  /\ UNCHANGED <<wsMap, wsTool, wsFiles, wsReports, archFiles, req, reply>>
  /\ Collect

(* The PeriodicExpirator's worker: when the earliest deadline has passed, *)
(* pop_expired() and hand the popped workspaces to the callback, which    *)
(* drops them.                                                             *)
Expire ==
  /\ \E w \in WsIds : wsMap[w] = Expired
  /\ wsMap' = PopAll
  /\ UNCHANGED <<wsTool, wsFiles, wsReports, archFiles, reports, window,
                 proc, req, reply>>
  /\ Collect

(* The verification tool terminates on its own.                           *)
ToolExits(p) ==
  /\ proc[p] = "running"
  /\ proc' = [proc EXCEPT ![p] = "exited"]
  /\ UNCHANGED <<busy, wsMap, wsAlive, wsTool, wsFiles, wsReports, archFiles,
                 reports, window, req, reply>>

(* The OS delivers SIGKILL.                                               *)
KilledDies(p) ==
  /\ proc[p] = "killed"
  /\ proc' = [proc EXCEPT ![p] = "exited"]
  /\ UNCHANGED <<busy, wsMap, wsAlive, wsTool, wsFiles, wsReports, archFiles,
                 reports, window, req, reply>>

(* monitorTimeout passes since the report's lastMonitored.                *)
ReportAges(r) ==
  /\ reports[r] # None
  /\ ~reports[r].stale
  /\ reports' = [reports EXCEPT ![r].stale = TRUE]
  /\ UNCHANGED <<busy, wsMap, wsAlive, wsTool, wsFiles, wsReports, archFiles,
                 window, proc, req, reply>>

(* The workspace's 60 s idle deadline passes.                             *)
WorkspaceAges(w) ==
  /\ wsMap[w] = Fresh
  /\ wsMap' = [wsMap EXCEPT ![w] = Expired]
  /\ UNCHANGED <<busy, wsAlive, wsTool, wsFiles, wsReports, archFiles,
                 reports, window, proc, req, reply>>

Next ==
  \/ \E t \in Tools : CreateWorkspace(t)
  \/ \E w \in WsIds : DestroyWorkspace(w)
  \/ \E w \in WsIds, f \in Files : AddFile(w, f)
  \/ \E w \in WsIds, r \in Requests : VerifyCheckin(w, r)
  \/ StartRun
  \/ \E w \in WsIds, r \in Requests : Monitor(w, r)
  \/ \E w \in WsIds, r \in Requests : KillTask(w, r)
  \/ UpdateStats
  \/ Expire
  \/ \E p \in Pids : ToolExits(p)
  \/ \E p \in Pids : KilledDies(p)
  \/ \E r \in Requests : ReportAges(r)
  \/ \E w \in WsIds : WorkspaceAges(w)

(* The observer and expirator loops run forever, the request thread       *)
(* finishes the handler it started, SIGKILL is delivered, and time        *)
(* passes. Clients and the tools themselves owe nothing.                   *)
Fairness ==
  /\ WF_vars(UpdateStats)
  /\ WF_vars(Expire)
  /\ WF_vars(StartRun)
  /\ \A p \in Pids : WF_vars(KilledDies(p))
  /\ \A r \in Requests : WF_vars(ReportAges(r))
  /\ \A w \in WsIds : WF_vars(WorkspaceAges(w))

Spec == Init /\ [][Next]_vars
FairSpec == Spec /\ Fairness


-----------------------------------------------------------------------------
(***************************************************************************)
(* Properties.                                                             *)
(***************************************************************************)

(* Every variable holds a value of its type.                              *)
TypeOK ==
  /\ busy \in [Tools -> BOOLEAN]
  /\ wsMap \in [WsIds -> {Absent, Fresh, Expired}]
  /\ wsAlive \subseteq WsIds
  /\ wsTool \in [WsIds -> Tools \cup {None}]
  /\ wsFiles \in [WsIds -> SUBSET Files]
  /\ wsReports \in [WsIds -> SUBSET Requests]
  /\ archFiles \subseteq Files
  /\ reports \in [Requests -> Report \cup {None}]
  /\ window \in [Pids -> Run \cup {None}]
  /\ proc \in [Pids -> ProcStates]
  /\ req \in {Idle} \cup [pc : {"start"}, ws : WsIds, rep : Requests]
  /\ reply \in Replies

(* ToolReservation: a single-instance tool is busy exactly while one      *)
(* Workspace object holding its reservation exists, and never more than   *)
(* one does. Reservations are released by the destructor of whichever of  *)
(* the map, a Run or the request thread drops the workspace last, on any  *)
(* of three threads.                                                       *)
ReservationExact ==
  \A t \in SingleInstance \ Broken :
    /\ busy[t] <=> \E w \in wsAlive : wsTool[w] = t
    /\ \A v, w \in wsAlive : wsTool[v] = t /\ wsTool[w] = t => v = w

(* A Run executes in a workspace whose directory still exists: destroying *)
(* or expiring the workspace while its tool runs must not remove the      *)
(* directory under the child process (the Run's SharedWorkspace).          *)
RunsKeepWorkspace ==
  \A p \in Pids : window[p] # None => window[p].ws \in wsAlive

(* While a report says "running", its pid is a Run of the window for that *)
(* same report, so killTask, which SIGKILLs report.pid, stops this report's *)
(* process and no other.                                                   *)
RunningReportOwnsPid ==
  \A r \in Requests :
    reports[r] # None /\ reports[r].running =>
      /\ reports[r].pid # None
      /\ window[reports[r].pid] # None
      /\ window[reports[r].pid].rep = r

(* Spec scenario "Idempotent verify": resubmitting an identical verify    *)
(* never spawns a second child process for the same report.               *)
NoDuplicateRun ==
  \A p, q \in Pids :
    p # q /\ window[p] # None /\ window[q] # None => window[p].rep # window[q].rep

(* A workspace that left the expiration map (destroyed or expired) and    *)
(* reserves a single-instance tool is eventually destroyed, freeing the   *)
(* tool: nothing can monitor its Runs any more, so update_stats times     *)
(* them out, kills and finalises them, and the last holder lets go.        *)
AbandonedWorkspaceReleased ==
  \A w \in WsIds :
    (w \in wsAlive /\ wsMap[w] = Absent /\ wsTool[w] \in SingleInstance)
      ~> w \notin wsAlive

=============================================================================
