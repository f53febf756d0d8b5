------------------------------ MODULE ProcStats ------------------------------
(***************************************************************************)
(* The per-tick resource sampling of one Run (ExecutionEngine.cpp):        *)
(* ExecutionWindow::update_ttime sums the "cpu" line of /proc/stat into    *)
(* the 32-bit currentTtime, and Run::try_update_stats reads                *)
(* /proc/<pid>/stat, splits it with bbb::remove_ws and appends a resource  *)
(* sample whose CPU percentages come from Run::cpu_usage.                  *)
(*                                                                         *)
(* The kernel side is explicit: the process's counters and the global      *)
(* jiffies grow, and the stat line is built field by field as proc(5)      *)
(* lays it out (pid, (comm), state, ..., utime 14, stime 15, cutime 16,    *)
(* cstime 17, ..., vsize 23, rss 24, rsslim 25, startcode 26, ...). Each   *)
(* character is a number (ASCII), and every numeric field is one element *)
(* holding its value (all below 32); fields that no property reads hold   *)
(* 1000 + their number. The kernel's counters are kept modulo           *)
(* 2^NatBits, all the code can see of them; what really elapsed since the *)
(* last tick is kept in delta. A percentage is kept as the pair <<locDif,         *)
(* globDif>> that cpu_usage divides.                                       *)
(***************************************************************************)
EXTENDS Naturals, Sequences, SequencesExt

CONSTANTS
  Comms,        \* executable names (comm), as sequences of ASCII codes
  NCpu,         \* CPUs: the global jiffies grow by NCpu per jiffy
  MemSizes,     \* values vsize and rss take
  NatBits,      \* width of bbb::Nat (uint32_t), scaled down for TLC
  MaxJiffies,   \* bound on the jiffies between two observer ticks
  None

VARIABLES
  comm, proc,      \* the process: its name and kernel counters
  glob,            \* jiffies summed over the "cpu" line of /proc/stat
  prevT, curT,     \* ExecutionWindow::previousTtime, currentTtime
  prevU, prevS,    \* Run::prevUTime, prevSTime
  sample,          \* the last sample appended to report->resources
  delta,           \* user, system and global jiffies since the last tick
  values           \* Run::values as the last tick left it

vars == <<comm, proc, glob, prevT, curT, prevU, prevS, sample, delta, values>>

Wrap(n) == n % (2 ^ NatBits)

Space == 32   \* ' ', the only whitespace in the line

-----------------------------------------------------------------------------
(* /proc/<pid>/stat of the process: the fields separated by single spaces. *)
Field(i) ==
  CASE i = 1  -> <<1001>>
    [] i = 2  -> <<40>> \o comm \o <<41>>      \* "(" comm ")"
    [] i = 3  -> <<82>>                        \* "R"
    [] i = 14 -> <<proc.utime>>
    [] i = 15 -> <<proc.stime>>
    [] i = 16 -> <<proc.cutime>>
    [] i = 17 -> <<proc.cstime>>
    [] i = 23 -> <<proc.vsize>>
    [] i = 24 -> <<proc.rss>>
    [] OTHER  -> <<1000 + i>>

StatLine ==
  FlattenSeq([i \in 1..26 |-> IF i = 1 THEN Field(i) ELSE <<Space>> \o Field(i)])

(* bbb::remove_ws: the maximal runs of non-space characters, in order.   *)
RECURSIVE RemoveWs(_)
RemoveWs(s) ==
  LET i == SelectInSeq(s, LAMBDA c : c = Space)
  IN IF i = 0 THEN IF s = <<>> THEN <<>> ELSE <<s>>
     ELSE (IF i > 1 THEN <<SubSeq(s, 1, i - 1)>> ELSE <<>>)
          \o RemoveWs(SubSeq(s, i + 1, Len(s)))

(* std::stol of a one-element numeric word, stored into a bbb::Nat.      *)
Stol(w) == Wrap(w[1])

(* Run::cpu_usage(l1, l2, g1, g2): (l2 - l1) / (g2 - g1), both in Nat.  *)
CpuUsage(l1, l2, g1, g2) == <<Wrap(l2 - l1), Wrap(g2 - g1)>>

(* update_ttime: previousTtime = currentTtime; currentTtime = the sum of  *)
(* the cpu line, accumulated in 32 bits.                                  *)
UpdateTtime ==
  /\ prevT' = curT
  /\ curT' = glob

-----------------------------------------------------------------------------
(* ExecutionWindow() calls update_ttime once; the Run starts with          *)
(* prevUTime = prevSTime = 0 and a fresh process.                          *)
Init ==
  /\ comm \in Comms
  /\ proc \in [utime : {0}, stime : {0}, cutime : {0}, cstime : {0},
               vsize : MemSizes, rss : MemSizes]
  /\ glob \in {0, Wrap(0 - NCpu)}
  /\ prevT = 0
  /\ curT = glob
  /\ prevU = 0 /\ prevS = 0
  /\ sample = None
  /\ delta = [user |-> 0, sys |-> 0, g |-> 0]
  /\ values = <<>>

(* One jiffy passes: every CPU counts it, the process spends it in user   *)
(* or system mode or waits, a child may be reaped, memory changes.       *)
Elapse ==
  /\ delta.g + NCpu <= MaxJiffies
  /\ glob' = Wrap(glob + NCpu)
  /\ \E mode \in {"user", "sys", "wait"}, dc \in 0..1, v, r \in MemSizes :
       LET du == IF mode = "user" THEN 1 ELSE 0
           ds == IF mode = "sys" THEN 1 ELSE 0
       IN /\ proc' = [proc EXCEPT !.utime = Wrap(@ + du), !.stime = Wrap(@ + ds),
                                  !.cutime = Wrap(@ + dc), !.vsize = v, !.rss = r]
          /\ delta' = [user |-> delta.user + du, sys |-> delta.sys + ds,
                       g |-> delta.g + NCpu]
  /\ UNCHANGED <<comm, prevT, curT, prevU, prevS, sample, values>>

(* Run::is_running, right after try_update_stats in the same tick: its    *)
(* get_stats appends the stat line to values for the zombie check of      *)
(* values[2], and nothing clears them before the next try_update_stats.   *)
IsRunningRead == values' = RemoveWs(StatLine)

(* The observer's update_stats for this Run, once a second, so at least a *)
(* jiffy has passed: update_ttime, then try_update_stats(now,             *)
(* previousTtime, currentTtime): get_stats appends the line to values,    *)
(* and if more than 25 values were read, append {cpu_usage(prevUTime,    *)
(* curUTime, prevTTime, curTTime) twice, values[24], values[25], ...},   *)
(* and remember curUTime and curSTime (values[15], values[16]); clear     *)
(* values. From the second tick on, values starts with the line           *)
(* is_running read at the end of the previous tick.                       *)
Tick ==
  /\ delta.g > 0
  /\ UpdateTtime
  /\ LET read   == values \o RemoveWs(StatLine)
         v(i)   == read[i + 1]            \* values[i], 0-based
         truth  == [user  |-> delta.user, sys |-> delta.sys, g |-> delta.g,
                    vsize |-> proc.vsize, rss |-> proc.rss]
     IN IF Len(read) > 25
          THEN LET curU == Stol(v(15))
                   curS == Stol(v(16))
               IN /\ sample' = [user  |-> CpuUsage(prevU, curU, prevT', curT'),
                                sys   |-> CpuUsage(prevU, curU, prevT', curT'),
                                vsize |-> v(24)[1], rss |-> v(25)[1],
                                truth |-> truth]
                  /\ prevU' = curU
                  /\ prevS' = curS
          ELSE UNCHANGED <<sample, prevU, prevS>>
  /\ IsRunningRead
  /\ delta' = [user |-> 0, sys |-> 0, g |-> 0]
  /\ UNCHANGED <<comm, proc, glob>>

Next == Elapse \/ Tick

Spec == Init /\ [][Next]_vars

-----------------------------------------------------------------------------
(* A resource sample reports what proc(5) says of the process: user and  *)
(* system CPU time spent since the previous sample over the jiffies      *)
(* elapsed, and the vsize and rss fields (the spec's ResourceSample).    *)
SampleMatchesProc ==
  sample # None =>
    /\ sample.user[1] = sample.truth.user
    /\ sample.sys[1] = sample.truth.sys
    /\ sample.vsize = sample.truth.vsize
    /\ sample.rss = sample.truth.rss

=============================================================================
