--------------------------- MODULE ExperimentDriver ---------------------------
(* The programs that run the experiments: exp/*/run.py with                     *)
(* exp/common/runner_helper2.py, and example/auto_runner/run_*.py with its       *)
(* common.py.  A session goes through groups of configurations.  For each group  *)
(* it loads the statuses that a former session saved in the group's folder,   *)
(* starts one script after the other unless its status is Ok, saves the          *)
(* statuses, and reads the logs into the group's table.                       *)
(* A script runs in one step: what happens inside is the subject of other        *)
(* modules; the driver learns its exit status, and a script may return zero      *)
(* although one of its worker processes failed.  The driver may be killed        *)
(* between scripts, during one and while it saves the statuses, and the user may *)
(* start another session in an output directory that exists.                     *)
EXTENDS Naturals, Sequences

CONSTANTS Program,      \* the programs, by name
          MaxSessions,  \* bound, by program: sessions the user starts
          MaxFaults     \* bound, by program: scripts that fail or lose a worker although
                        \* they take their options, and sessions that are killed

(* A program is a record:                                                        *)
(*   groups: its groups in order, each with                                      *)
(*     size: the number of its configurations,                                   *)
(*     folder: the folder below the output directory that it keeps its logs in,  *)
(*     accepted: the configurations whose script takes their command line,       *)
(*     silent: those whose script may return zero although a worker failed,      *)
(*     prints: the results in the log of a complete run, by configuration,       *)
(*     says: what a line of the output may say of the run, by configuration,     *)
(*     cols: the results its table shows,                                        *)
(*     match: the configurations that fit, for each cell <<row, column>>;        *)
(*   lines: the lines it prints at the end, each with a label and the group and  *)
(*     row that its numbers come from;                                           *)
(*   strict: a missing log ends the session;                                     *)
(*   anyOut: the user names the output directory (else the latest one is used);  *)
(*   parseOnly: a session in an old directory is a mock one, and no other is.    *)
ASSUME ProgramAssumption ==
  \A d \in DOMAIN Program :
    /\ Len(Program[d].groups) \in Nat \ {0}
    /\ DOMAIN Program[d].groups = 1..Len(Program[d].groups)
    /\ \A n \in DOMAIN Program[d].groups : Program[d].groups[n].size \in Nat

VARIABLES driver,    \* the name of the program
          sessions,  \* sessions started
          faults,    \* failures and kills
          outs,      \* output directories so far
          session,   \* the session: its directory and options
          pc, gi, idx, \* where it is: the group and the configuration
          status,    \* RunConfig.status of the group's configurations: TRUE for Ok
          logs,      \* <<directory, folder>> -> the logs test0.log, test1.log ...
          saved,     \* <<directory, folder>> -> run_status.txt
          shown      \* by group parsed and configuration: the log that was read

counters == <<sessions, faults>>
disk     == <<outs, logs, saved>>
vars     == <<driver, counters, disk, session, pc, gi, idx, status, shown>>

-------------------------------------------------------------------------------
Groups  == Program[driver].groups
Current == Groups[gi]
Folder  == <<session.out, Current.folder>>

With(f, k, v) == [x \in DOMAIN f \cup {k} |-> IF x = k THEN v ELSE f[x]]

(* by: the configuration that wrote the log; whole: all its results are in it;   *)
(* ok: the script's exit status was zero.                                        *)
Log(whole, ok) == [by |-> <<gi, idx>>, whole |-> whole, ok |-> ok]

NoLog == [by |-> <<0, 0>>, whole |-> FALSE, ok |-> FALSE]

LogAt(f, n) == IF f \in DOMAIN logs /\ n \in DOMAIN logs[f] THEN logs[f][n] ELSE NoLog

(* The script of the current configuration redirects its output to its log.      *)
WriteLog(log) ==
  LET last == IF Folder \in DOMAIN logs /\ idx < Len(logs[Folder])
              THEN Len(logs[Folder]) ELSE idx
  IN  logs' = With(logs, Folder,
                   [n \in 1..last |-> IF n = idx THEN log ELSE LogAt(Folder, n)])

Init ==
  /\ driver \in DOMAIN Program
  /\ sessions = 0 /\ faults = 0 /\ outs = 0
  /\ session = [out |-> 0, mock |-> FALSE, rerun |-> FALSE, clean |-> TRUE]
  /\ pc = "idle" /\ gi = 1 /\ idx = 1
  /\ status = << >> /\ logs = << >> /\ saved = << >> /\ shown = << >>

-------------------------------------------------------------------------------
(* --rerun-tests takes the latest output directory, -l the one it names; any     *)
(* other session makes its own, --mock too.  Some tests of the auto runner have   *)
(* no --mock and take -l for the wish to parse only.                             *)
OldOuts == IF Program[driver].anyOut THEN 1..outs ELSE {outs} \ {0}

(* Mutant: the new directory is not remembered as the latest.                    *)
StartSession_NotLatest(mock, rerun) ==
  /\ pc = "idle" /\ sessions < MaxSessions[driver]
  /\ Program[driver].parseOnly => mock = rerun
  /\ \E out \in IF rerun /\ OldOuts # {} THEN OldOuts ELSE {outs + 1} :
       session' = [out |-> out, mock |-> mock, rerun |-> rerun, clean |-> TRUE]
  /\ outs' = outs
  /\ sessions' = sessions + 1
  /\ pc' = "load" /\ gi' = 1 /\ shown' = << >>
  /\ UNCHANGED <<driver, faults, logs, saved, idx, status>>

StartSession(mock, rerun) ==
  /\ pc = "idle" /\ sessions < MaxSessions[driver]
  /\ Program[driver].parseOnly => mock = rerun
  /\ \E out \in IF rerun /\ OldOuts # {} THEN OldOuts ELSE {outs + 1} :
       /\ session' = [out |-> out, mock |-> mock, rerun |-> rerun, clean |-> TRUE]
       /\ outs' = IF out > outs THEN out ELSE outs
  /\ sessions' = sessions + 1
  /\ pc' = "load" /\ gi' = 1 /\ shown' = << >>
  /\ UNCHANGED <<driver, faults, logs, saved, idx, status>>

(* Mutant: one folder for all groups, as run_pyg.py -l has it.                   *)
LoadRunStatus_OneFolder ==
  LET folder == <<session.out, Groups[1].folder>>
  IN  /\ pc = "load"
      /\ status' = [n \in 1..Current.size |->
           folder \in DOMAIN saved /\ n \in DOMAIN saved[folder] /\ saved[folder][n]]
      /\ pc' = "run" /\ idx' = 1
      /\ UNCHANGED <<driver, counters, disk, session, gi, shown>>

(* A line of run_status.txt beyond the list ends the loading, silently.          *)
LoadRunStatus ==
  /\ pc = "load"
  /\ status' = [n \in 1..Current.size |->
       /\ Folder \in DOMAIN saved
       /\ n \in DOMAIN saved[Folder]
       /\ saved[Folder][n]]
  /\ pc' = "run" /\ idx' = 1
  /\ UNCHANGED <<driver, counters, disk, session, gi, shown>>

(* Mutant: the status is not asked.                                              *)
ToRun_All == pc = "run" /\ idx <= Current.size

ToRun == pc = "run" /\ idx <= Current.size /\ ~status[idx]

Starts == ToRun /\ ~session.mock

RunSucceeds ==
  /\ Starts
  /\ idx \in Current.accepted
  /\ WriteLog(Log(TRUE, TRUE))
  /\ status' = [status EXCEPT ![idx] = TRUE]
  /\ idx' = idx + 1
  /\ UNCHANGED <<driver, counters, outs, saved, session, pc, gi, shown>>

(* A worker fails and the script returns zero: samgraph_wait_one_child passes    *)
(* over a child that a signal other than SIGABRT killed, and whichever ends      *)
(* after the first one; wait_and_join of example/dgl never exits with an error.  *)
(* For the driver the script has succeeded.                                      *)
RunSilently ==
  /\ Starts
  /\ idx \in Current.accepted \cap Current.silent /\ faults < MaxFaults[driver]
  /\ faults' = faults + 1
  /\ WriteLog(Log(FALSE, TRUE))
  /\ status' = [status EXCEPT ![idx] = TRUE]
  /\ idx' = idx + 1
  /\ UNCHANGED <<driver, sessions, outs, saved, session, pc, gi, shown>>

(* The results may have been printed before the script failed.                   *)
RunFails ==
  /\ Starts
  /\ \/ /\ idx \in Current.accepted /\ faults < MaxFaults[driver]
        /\ faults' = faults + 1
        /\ \E whole \in BOOLEAN : WriteLog(Log(whole, FALSE))
     \/ /\ idx \notin Current.accepted
        /\ faults' = faults
        /\ WriteLog(Log(FALSE, FALSE))
  /\ session' = [session EXCEPT !.clean = FALSE]
  /\ idx' = idx + 1
  /\ UNCHANGED <<driver, sessions, outs, saved, pc, gi, status, shown>>

(* A mock run prints the command and returns zero.                               *)
MockRun ==
  /\ ToRun /\ session.mock
  /\ status' = [status EXCEPT ![idx] = TRUE]
  /\ idx' = idx + 1
  /\ UNCHANGED <<driver, counters, disk, session, pc, gi, shown>>

(* The configurations up to the next one that is not Ok.                         *)
SkipOk ==
  /\ pc = "run" /\ idx <= Current.size /\ status[idx]
  /\ idx' \in idx + 1..Current.size + 1
  /\ \A n \in idx..idx' - 1 : status[n]
  /\ idx' <= Current.size => ~status[idx']
  /\ UNCHANGED <<driver, counters, disk, session, pc, gi, status, shown>>

(* Mutant: a mock session saves its statuses too.                                *)
WriteRunStatus_Mock ==
  /\ pc = "run" /\ idx > Current.size
  /\ saved' = With(saved, Folder, status)
  /\ pc' = "parse"
  /\ UNCHANGED <<driver, counters, outs, logs, session, gi, idx, status, shown>>

WriteRunStatus ==
  /\ pc = "run" /\ idx > Current.size
  /\ saved' = IF session.mock THEN saved ELSE With(saved, Folder, status)
  /\ pc' = "parse"
  /\ UNCHANGED <<driver, counters, outs, logs, session, gi, idx, status, shown>>

(* Every configuration has the name of its log by now, those skipped included;   *)
(* a log that is missing reads as an empty one unless the program is strict.     *)
Matched == UNION {Current.match[c] : c \in DOMAIN Current.match}

ParseLogs ==
  /\ pc = "parse"
  /\ IF /\ \A c \in DOMAIN Current.match : \E n \in 1..Current.size : Current.match[c] = {n}
        /\ Program[driver].strict => \A n \in Matched : LogAt(Folder, n) # NoLog
     THEN /\ shown' = Append(shown, [n \in Matched |-> LogAt(Folder, n)])
          /\ pc' = IF gi < Len(Groups) THEN "load" ELSE "done"
          /\ gi' = IF gi < Len(Groups) THEN gi + 1 ELSE gi
     ELSE /\ pc' = "aborted"
          /\ UNCHANGED <<gi, shown>>
  /\ UNCHANGED <<driver, counters, disk, session, idx, status>>

EndSession ==
  /\ pc \in {"done", "aborted"}
  /\ pc' = "idle"
  /\ UNCHANGED <<driver, counters, disk, session, gi, idx, status, shown>>

(* The session is killed, and the script with it if one was running; or while it *)
(* saves the statuses: open() has emptied the file that had the former ones.     *)
Kill ==
  /\ pc \in {"load", "run", "parse"} /\ faults < MaxFaults[driver]
  /\ faults' = faults + 1
  /\ pc' = "idle"
  /\ \/ UNCHANGED <<logs, saved>>
     \/ Starts /\ WriteLog(Log(FALSE, FALSE)) /\ UNCHANGED saved
     \/ /\ pc = "run" /\ idx > Current.size /\ ~session.mock
        /\ saved' = With(saved, Folder, << >>)
        /\ UNCHANGED logs
  /\ UNCHANGED <<driver, sessions, outs, session, gi, idx, status, shown>>

Next ==
  \/ \E mock, rerun \in BOOLEAN : StartSession(mock, rerun)
  \/ LoadRunStatus
  \/ RunSucceeds \/ RunSilently \/ RunFails \/ MockRun \/ SkipOk
  \/ WriteRunStatus
  \/ ParseLogs
  \/ EndSession
  \/ Kill

Spec == Init /\ [][Next]_vars

-------------------------------------------------------------------------------
LogType == [by : Nat \X Nat, whole : BOOLEAN, ok : BOOLEAN]

TypeOK ==
  /\ driver \in DOMAIN Program
  /\ sessions \in Nat /\ faults \in Nat /\ outs \in Nat
  /\ gi \in DOMAIN Groups /\ idx \in Nat \ {0}
  /\ session \in [out : 0..outs, mock : BOOLEAN, rerun : BOOLEAN, clean : BOOLEAN]
  /\ pc \in {"idle", "load", "run", "parse", "done", "aborted"}
  /\ \A n \in DOMAIN status : status[n] \in BOOLEAN
  /\ \A f \in DOMAIN logs : logs[f] \in Seq(LogType)
  /\ \A f \in DOMAIN saved : \A n \in DOMAIN saved[f] : saved[f][n] \in BOOLEAN

(* The script that wrote the log returned zero, and the log has all its results  *)
(* unless the script is one that may hide the failure of a worker.               *)
Hidden(l)   == ~l.whole /\ l.by[2] \in Groups[l.by[1]].silent
Truthful(l) == l.ok /\ (l.whole \/ Hidden(l))

(* A status that is saved as Ok, in whatever directory and after whatever        *)
(* failures, kills and mock sessions, stands beside the log of a script that     *)
(* returned zero.  So a later session skips no run that it saw fail, and the log *)
(* that it reads instead is complete, unless a script hid the failure of a       *)
(* worker: such a run is taken for done and never repeated.                      *)
StatusTellsTruth ==
  \A f \in DOMAIN saved : \A n \in DOMAIN saved[f] : saved[f][n] => Truthful(LogAt(f, n))

(* No session, rerun or mock, overwrites a log whose status is saved as Ok.      *)
SavedResultKept ==
  [][\A f \in DOMAIN saved : \A n \in DOMAIN saved[f] :
       saved[f][n] => LogAt(f, n)' = LogAt(f, n)]_vars

-------------------------------------------------------------------------------
CellsOf(n) == DOMAIN Groups[n].match

(* The log behind a cell, and whether the cell surely shows a number.            *)
CellLog(n, c) == LET m == CHOOSE x \in Groups[n].match[c] : TRUE IN shown[n][m]

Result(n, c) == Groups[n].cols[c[2]]

Printed(by) == Groups[by[1]].prints[by[2]]
Says(by)   == Groups[by[1]].says[by[2]]

MayHaveNumber(n, c) == LET l == CellLog(n, c) IN l # NoLog /\ Result(n, c) \in Printed(l.by)
HasNumber(n, c) == CellLog(n, c).whole /\ MayHaveNumber(n, c)

(* What the lists and tables of the programs must be like for the sessions to     *)
(* fill them: the groups of a program have folders of their own; a cell fits one *)
(* configuration, whose script prints the cell's result if it prints any; and a  *)
(* line speaks of the configurations in its row.                                 *)
FoldersApart(programs) ==
  \A d \in DOMAIN programs : \A m, n \in DOMAIN programs[d].groups :
    programs[d].groups[m].folder = programs[d].groups[n].folder => m = n

TablesFit(programs) ==
  \A d \in DOMAIN programs : \A n \in DOMAIN programs[d].groups :
    LET g == programs[d].groups[n]
    IN  \A c \in DOMAIN g.match : \E k \in 1..g.size :
          /\ g.match[c] = {k}
          /\ g.prints[k] # {} => g.cols[c[2]] \in g.prints[k]

LinesFit(programs) ==
  \A d \in DOMAIN programs : \A line \in programs[d].lines :
    LET g == programs[d].groups[line.group]
    IN  /\ line.group \in DOMAIN programs[d].groups
        /\ \A c \in DOMAIN g.match : \A k \in g.match[c] :
             c[1] = line.row /\ g.cols[c[2]] \in g.prints[k] =>
               \A key \in DOMAIN line.label :
                 key \in DOMAIN g.says[k] /\ g.says[k][key] = line.label[key]

(* A session that is not a mock and in which no script returns an error fills    *)
(* its tables, however the sessions before it ended: every cell is read from a   *)
(* log that the very configuration of the cell wrote and that its script left    *)
(* with exit status zero, and it shows a number, unless the script hid a         *)
(* failure, in this session or in one before.  The cells of runs that only check *)
(* their options stay empty.                                                     *)
CleanSessionFillsTables ==
  pc \in {"done", "aborted"} /\ ~session.mock /\ session.clean =>
    /\ pc = "done"
    /\ \A n \in DOMAIN Groups : \A c \in CellsOf(n) :
         LET l == CellLog(n, c)
         IN  /\ l.by[1] = n /\ l.by[2] \in Groups[n].match[c] /\ l.ok
             /\ Printed(l.by) # {} => HasNumber(n, c) \/ Hidden(l)

(* What a printed line says of a run (model, data set, number of GPUs and of      *)
(* samplers, caching, sampling) is what the run that its numbers come from was    *)
(* configured to do, also when the log of that run broke off after the number.   *)
LinesMatchRuns ==
  pc = "done" =>
    \A line \in Program[driver].lines : \A c \in CellsOf(line.group) :
      c[1] = line.row /\ MayHaveNumber(line.group, c) =>
        LET by == CellLog(line.group, c).by
        IN  \A key \in DOMAIN line.label :
              key \in DOMAIN Says(by) /\ Says(by)[key] = line.label[key]
===============================================================================
