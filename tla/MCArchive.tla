------------------------------ MODULE MCArchive ------------------------------
(* One tool, two parameters, two contents, one plan. The string hashes    *)
(* are distinct powers of two above every index and FileID of the model.  *)
EXTENDS Archive, OslcReporter

MCStrHash == [x \in {"t1", "a", "b", "c1", "c2", "P1"} |->
                CASE x = "t1" -> 8 [] x = "a" -> 16 [] x = "b" -> 32
                  [] x = "c1" -> 64 [] x = "c2" -> 128 [] OTHER -> 256]

(* Monitor snapshots: a fresh run (every figure 0, every string empty,    *)
(* so many slots share one token), a running one with distinct values,    *)
(* and one with its CPU figures and outputs the other way round.          *)
MCInfos ==
  { [pid |-> 0, runningResult |-> "Verification started.", utime |-> 0, stime |-> 0,
     vsize |-> "0", rss |-> "0", memFree |-> "0", memPerc |-> "0", stdOut |-> "",
     errOut |-> "", verResult |-> "", retCode |-> 0, parsedOutput |-> ""],
    [pid |-> 42, runningResult |-> "running", utime |-> 1500000, stime |-> 250000,
     vsize |-> "1024", rss |-> "512", memFree |-> "2048", memPerc |-> "25",
     stdOut |-> "out", errOut |-> "err", verResult |-> "ok", retCode |-> 1,
     parsedOutput |-> "parsed"],
    [pid |-> 42, runningResult |-> "running", utime |-> 250000, stime |-> 1500000,
     vsize |-> "1024", rss |-> "512", memFree |-> "2048", memPerc |-> "25",
     stdOut |-> "err", errOut |-> "out", verResult |-> "ok", retCode |-> -1,
     parsedOutput |-> "parsed"] }

(* Each plan's reporter checked once over every history of polls.         *)
LatestPollTable == [p \in Plans |-> LatestPollShown(p)]
InternedTable == [p \in Plans |-> StoreInterned(p)]

(* Report::getMonitoringOSLC polls the Report's one OSLCReporter, built   *)
(* by the Report constructor from its plan, again and again: for every    *)
(* archived report and any sequence of polls, the document holds under   *)
(* each title exactly one value, the latest snapshot's, never a value an  *)
(* earlier poll wrote nor one of another slot.                            *)
MonitorShowsLatestPoll == \A r \in Range(reports) : LatestPollTable[r.plan]

(* Xml::insert_token interns strings: for every archived report, after    *)
(* any polls its reporter's tokens hold each string once and every string *)
(* the template and every poll so far produced. Nothing is released, so   *)
(* the store grows with the distinct values the polls return.             *)
TokensInterned == \A r \in Range(reports) : InternedTable[r.plan]
=============================================================================
