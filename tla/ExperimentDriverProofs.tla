------------------------ MODULE ExperimentDriverProofs ------------------------
(* Proofs about ExperimentDriver, for every set of programs with any groups, and *)
(* any number of sessions, failures and kills.                                   *)
EXTENDS ExperimentDriver, TLAPS

(* While a group runs, a status is Ok only beside the log of a script that        *)
(* returned zero, unless the session is a mock.                                  *)
RunningTruth ==
  pc = "run" /\ ~session.mock =>
    \A n \in DOMAIN status : status[n] => Truthful(LogAt(Folder, n))

(* The statuses of a group that runs are those of its configurations, and what   *)
(* was saved as Ok is still Ok.                                                  *)
SavedIsLoaded ==
  pc = "run" =>
    /\ DOMAIN status = 1..Current.size
    /\ Folder \in DOMAIN saved =>
         \A n \in DOMAIN saved[Folder] \cap DOMAIN status : saved[Folder][n] => status[n]

IInv == TypeOK /\ StatusTellsTruth /\ RunningTruth /\ SavedIsLoaded

-------------------------------------------------------------------------------
(* The number of the current group, and that of its configurations.              *)
LEMMA SizeType == ASSUME TypeOK PROVE Current.size \in Nat /\ gi \in Nat
BY ProgramAssumption DEF TypeOK, Current, Groups

(* A log that the current configuration writes.                                  *)
LEMMA LogIsLog ==
  ASSUME TypeOK, NEW whole \in BOOLEAN, NEW ok \in BOOLEAN
  PROVE  /\ Log(whole, ok) \in LogType
         /\ Log(whole, ok).whole = whole /\ Log(whole, ok).ok = ok
<1>1. <<gi, idx>> \in Nat \X Nat
  BY SizeType DEF TypeOK
<1> QED
  BY <1>1 DEF Log, LogType

LEMMA LogAtType == ASSUME TypeOK, NEW f, NEW n PROVE LogAt(f, n) \in LogType
<1>1. NoLog \in LogType
  BY DEF NoLog, LogType
<1>2. CASE f \in DOMAIN logs /\ n \in DOMAIN logs[f]
  <2>1. logs[f] \in Seq(LogType)
    BY <1>2 DEF TypeOK
  <2>2. logs[f][n] \in LogType
    BY <1>2, <2>1
  <2> QED
    BY <1>2, <2>2 DEF LogAt
<1> QED
  BY <1>1, <1>2 DEF LogAt

(* A script that starts replaces its own log and no other.                       *)
LEMMA WriteLogEffect ==
  ASSUME TypeOK, NEW log \in LogType, WriteLog(log)
  PROVE  /\ Folder \in DOMAIN logs' /\ idx \in DOMAIN logs'[Folder]
         /\ logs'[Folder][idx] = log
         /\ \A f, n : f # Folder \/ n # idx => LogAt(f, n)' = LogAt(f, n)
         /\ \A f \in DOMAIN logs' : logs'[f] \in Seq(LogType)
<1> DEFINE last == IF Folder \in DOMAIN logs /\ idx < Len(logs[Folder])
                   THEN Len(logs[Folder]) ELSE idx
           list == [n \in 1..last |-> IF n = idx THEN log ELSE LogAt(Folder, n)]
<1>1. logs' = [x \in DOMAIN logs \cup {Folder} |-> IF x = Folder THEN list ELSE logs[x]]
  BY DEF WriteLog, With
<1>2. last \in Nat /\ idx \in 1..last
  BY DEF TypeOK
<1>3. list \in Seq(LogType)
  <2>1. \A n \in 1..last : list[n] \in LogType
    BY LogAtType
  <2> QED
    BY <1>2, <2>1
<1>4. Folder \in DOMAIN logs' /\ logs'[Folder] = list
  BY <1>1
<1>5. ASSUME NEW f, NEW n, f # Folder \/ n # idx
      PROVE  LogAt(f, n)' = LogAt(f, n)
  <2>1. CASE f # Folder
    BY <1>1, <2>1 DEF LogAt
  <2>2. CASE f = Folder /\ n \in 1..last
    BY <1>4, <1>5, <2>2 DEF LogAt
  <2>3. CASE f = Folder /\ n \notin 1..last
    <3>1. LogAt(f, n)' = NoLog
      BY <1>4, <2>3 DEF LogAt, NoLog
    <3>2. Folder \in DOMAIN logs => DOMAIN logs[Folder] = 1..Len(logs[Folder])
                                   /\ Len(logs[Folder]) \in Nat
      BY DEF TypeOK
    <3>3. Folder \in DOMAIN logs => Len(logs[Folder]) <= last
      BY <1>2, <3>2 DEF TypeOK
    <3>4. f \in DOMAIN logs => n \notin DOMAIN logs[f]
      BY <1>2, <2>3, <3>2, <3>3
    <3> QED
      BY <3>1, <3>4 DEF LogAt
  <2> QED
    BY <2>1, <2>2, <2>3
<1>6. \A f \in DOMAIN logs' : logs'[f] \in Seq(LogType)
  BY <1>1, <1>3 DEF TypeOK
<1> QED
  BY <1>2, <1>4, <1>5, <1>6

(* Whether a log is truthful depends on the program only.                         *)
LEMMA TruthStays ==
  ASSUME UNCHANGED driver, NEW f, NEW n, LogAt(f, n)' = LogAt(f, n), Truthful(LogAt(f, n))
  PROVE  Truthful(LogAt(f, n))'
BY DEF Truthful, Hidden, Groups

LEMMA TruthKept ==
  ASSUME StatusTellsTruth, UNCHANGED <<driver, logs, saved>>
  PROVE  StatusTellsTruth'
<1> SUFFICES ASSUME NEW f \in DOMAIN saved, NEW n \in DOMAIN saved[f], saved[f][n]
             PROVE  Truthful(LogAt(f, n))'
  BY DEF StatusTellsTruth
<1>1. LogAt(f, n)' = LogAt(f, n)
  BY DEF LogAt, NoLog
<1> QED
  BY <1>1, TruthStays DEF StatusTellsTruth

(* A script that starts leaves alone every log whose status is saved as Ok.       *)
LEMMA RunKeepsResults ==
  ASSUME IInv, ToRun, NEW log \in LogType, WriteLog(log),
         NEW f \in DOMAIN saved, NEW n \in DOMAIN saved[f], saved[f][n]
  PROVE  LogAt(f, n)' = LogAt(f, n)
<1>1. idx \in DOMAIN status /\ ~status[idx]
  BY SizeType DEF IInv, ToRun, SavedIsLoaded, TypeOK
<1>2. f # Folder \/ n # idx
  BY <1>1 DEF IInv, SavedIsLoaded, ToRun
<1> QED
  BY <1>2, WriteLogEffect DEF IInv

LEMMA RunKeepsTruth ==
  ASSUME IInv, ToRun, NEW log \in LogType, WriteLog(log), UNCHANGED <<driver, saved>>
  PROVE  StatusTellsTruth'
<1> SUFFICES ASSUME NEW f \in DOMAIN saved, NEW n \in DOMAIN saved[f], saved[f][n]
             PROVE  Truthful(LogAt(f, n))'
  BY DEF StatusTellsTruth
<1>1. LogAt(f, n)' = LogAt(f, n)
  BY RunKeepsResults
<1> QED
  BY <1>1, TruthStays DEF IInv, StatusTellsTruth

-------------------------------------------------------------------------------
LEMMA InitIInv == Init => IInv
<1> SUFFICES ASSUME Init PROVE IInv
  OBVIOUS
<1>1. TypeOK
  BY ProgramAssumption DEF Init, TypeOK, Groups
<1> QED
  BY <1>1 DEF Init, IInv, StatusTellsTruth, RunningTruth, SavedIsLoaded

(* Every action keeps the invariant.                                              *)
LEMMA StartSessionStep ==
  ASSUME IInv, NEW mock \in BOOLEAN, NEW rerun \in BOOLEAN, StartSession(mock, rerun)
  PROVE  IInv'
<1>1. TypeOK'
  <2>1. PICK out \in IF rerun /\ OldOuts # {} THEN OldOuts ELSE {outs + 1} :
          /\ session' = [out |-> out, mock |-> mock, rerun |-> rerun, clean |-> TRUE]
          /\ outs' = IF out > outs THEN out ELSE outs
    BY DEF StartSession
  <2>2. out \in 0..outs' /\ outs' \in Nat
    BY <2>1 DEF OldOuts, IInv, TypeOK
  <2>3. 1 \in DOMAIN Groups
    BY ProgramAssumption DEF IInv, TypeOK, Groups
  <2> QED
    BY <2>1, <2>2, <2>3 DEF StartSession, IInv, TypeOK, Groups
<1>2. StatusTellsTruth'
  BY TruthKept DEF StartSession, IInv
<1>3. RunningTruth' /\ SavedIsLoaded'
  BY DEF StartSession, RunningTruth, SavedIsLoaded
<1> QED
  BY <1>1, <1>2, <1>3 DEF IInv

LEMMA LoadRunStatusStep == ASSUME IInv, LoadRunStatus PROVE IInv'
<1> USE DEF LoadRunStatus
<1>1. Folder' = Folder /\ Current' = Current
  BY DEF disk, Folder, Current, Groups
<1>2. TypeOK'
  <2>1. ASSUME NEW n \in DOMAIN status' PROVE status'[n] \in BOOLEAN
    BY Zenon
  <2>2. idx' \in Nat \ {0} /\ pc' = "run"
    OBVIOUS
  <2>3. DOMAIN Groups' = DOMAIN Groups
    BY DEF Groups
  <2> QED
    BY <2>1, <2>2, <2>3 DEF IInv, TypeOK, disk, counters
<1>3. StatusTellsTruth'
  BY TruthKept DEF IInv, disk
<1>4. RunningTruth'
  <2> SUFFICES ASSUME NEW n \in DOMAIN status', status'[n]
               PROVE  Truthful(LogAt(Folder, n))'
    BY DEF RunningTruth
  <2>1. Truthful(LogAt(Folder, n))
    BY DEF IInv, StatusTellsTruth
  <2>2. LogAt(Folder, n)' = LogAt(Folder, n)
    BY <1>1 DEF LogAt, NoLog, disk
  <2> QED
    BY <2>1, <2>2 DEF Truthful, Hidden, Groups
<1>5. SavedIsLoaded'
  BY <1>1 DEF SavedIsLoaded, disk
<1> QED
  BY <1>2, <1>3, <1>4, <1>5 DEF IInv

(* What the actions of a running group keep.                                      *)
LEMMA SameGroup ==
  ASSUME UNCHANGED <<driver, gi>>, session'.out = session.out
  PROVE  Folder' = Folder /\ Current' = Current /\ Groups' = Groups
BY DEF Folder, Current, Groups

LEMMA RunningStays ==
  ASSUME RunningTruth, UNCHANGED <<driver, gi, session, pc, status, logs>>
  PROVE  RunningTruth'
<1>1. Folder' = Folder /\ Groups' = Groups
  BY DEF Folder, Current, Groups
<1> SUFFICES ASSUME pc = "run", ~session.mock, NEW n \in DOMAIN status, status[n]
             PROVE  Truthful(LogAt(Folder, n))'
  BY <1>1 DEF RunningTruth
<1>2. LogAt(Folder, n)' = LogAt(Folder, n)
  BY <1>1 DEF LogAt, NoLog
<1> QED
  BY <1>1, <1>2 DEF RunningTruth, Truthful, Hidden

(* The driver takes a script for done whose log is truthful.                      *)
LEMMA RunOkStep ==
  ASSUME IInv, Starts, NEW log \in LogType, Truthful(log), WriteLog(log),
         status' = [status EXCEPT ![idx] = TRUE], idx' = idx + 1, faults' \in Nat,
         UNCHANGED <<driver, sessions, outs, saved, session, pc, gi>>
  PROVE  IInv'
<1>1. ToRun /\ pc = "run" /\ pc' = "run"
  BY DEF Starts, ToRun
<1>2. Folder' = Folder /\ Current' = Current /\ Groups' = Groups
  BY SameGroup
<1>3. TypeOK'
  <2>1. \A f \in DOMAIN logs' : logs'[f] \in Seq(LogType)
    BY WriteLogEffect DEF IInv
  <2>2. ASSUME NEW n \in DOMAIN status' PROVE status'[n] \in BOOLEAN
    BY DEF IInv, TypeOK
  <2>3. gi' \in DOMAIN Groups' /\ idx' \in Nat \ {0} /\ driver' \in DOMAIN Program
    BY <1>2 DEF IInv, TypeOK
  <2>4. sessions' \in Nat /\ faults' \in Nat /\ outs' \in Nat
    BY DEF IInv, TypeOK
  <2>5. /\ session' \in [out : 0..outs', mock : BOOLEAN, rerun : BOOLEAN, clean : BOOLEAN]
        /\ \A f \in DOMAIN saved' : \A n \in DOMAIN saved'[f] : saved'[f][n] \in BOOLEAN
    BY DEF IInv, TypeOK
  <2> QED
    BY <1>1, <2>1, <2>2, <2>3, <2>4, <2>5 DEF TypeOK
<1>4. StatusTellsTruth'
  BY <1>1, RunKeepsTruth
<1>5. RunningTruth'
  <2> SUFFICES ASSUME ~session.mock, NEW n \in DOMAIN status, status'[n]
               PROVE  Truthful(LogAt(Folder, n))'
    BY <1>1, <1>2 DEF RunningTruth
  <2>1. CASE n = idx
    <3>1. LogAt(Folder, n)' = log
      BY <1>2, <2>1, WriteLogEffect DEF IInv, LogAt
    <3> QED
      BY <1>2, <3>1 DEF Truthful, Hidden
  <2>2. CASE n # idx
    <3>1. LogAt(Folder, n)' = LogAt(Folder, n)
      BY <1>2, <2>2, WriteLogEffect DEF IInv, LogAt
    <3>2. Truthful(LogAt(Folder, n))
      BY <1>1, <2>2 DEF IInv, RunningTruth
    <3> QED
      BY <1>2, <3>1, <3>2 DEF Truthful, Hidden
  <2> QED
    BY <2>1, <2>2
<1>6. SavedIsLoaded'
  BY <1>1, <1>2 DEF IInv, SavedIsLoaded
<1> QED
  BY <1>3, <1>4, <1>5, <1>6 DEF IInv

LEMMA RunSucceedsStep == ASSUME IInv, RunSucceeds PROVE IInv'
<1>1. Log(TRUE, TRUE) \in LogType /\ Truthful(Log(TRUE, TRUE))
  BY LogIsLog DEF IInv, Truthful
<1>2. faults' \in Nat
  BY DEF RunSucceeds, counters, IInv, TypeOK
<1> QED
  BY <1>1, <1>2, RunOkStep DEF RunSucceeds, counters

LEMMA HiddenTrue ==
  ASSUME NEW l, l.ok, ~l.whole, l.by = <<gi, idx>>, idx \in Groups[gi].silent
  PROVE  Truthful(l)
BY DEF Truthful, Hidden

LEMMA RunSilentlyStep == ASSUME IInv, RunSilently PROVE IInv'
<1>1. Log(FALSE, TRUE) \in LogType /\ Truthful(Log(FALSE, TRUE))
  <2>1. Log(FALSE, TRUE).by = <<gi, idx>>
    BY DEF Log
  <2>2. idx \in Groups[gi].silent
    BY DEF RunSilently, Current
  <2>3. Log(FALSE, TRUE) \in LogType /\ ~Log(FALSE, TRUE).whole /\ Log(FALSE, TRUE).ok
    BY LogIsLog DEF IInv
  <2> QED
    BY <2>1, <2>2, <2>3, HiddenTrue
<1>2. faults' \in Nat
  BY DEF RunSilently, IInv, TypeOK
<1> QED
  BY <1>1, <1>2, RunOkStep DEF RunSilently

LEMMA RunFailsStep == ASSUME IInv, RunFails PROVE IInv'
<1> USE DEF RunFails, Starts, ToRun
<1>1. PICK whole \in BOOLEAN : WriteLog(Log(whole, FALSE))
  OBVIOUS
<1> DEFINE log == Log(whole, FALSE)
<1>2. log \in LogType
  BY LogIsLog DEF IInv
<1>3. session' \in [out : {session.out}, mock : {session.mock}, rerun : BOOLEAN, clean : BOOLEAN]
  BY DEF IInv, TypeOK
<1>4. Folder' = Folder /\ Current' = Current /\ Groups' = Groups
  BY <1>3, SameGroup
<1>5. TypeOK'
  <2>1. \A f \in DOMAIN logs' : logs'[f] \in Seq(LogType)
    BY <1>1, <1>2, WriteLogEffect DEF IInv
  <2>2. session' \in [out : 0..outs, mock : BOOLEAN, rerun : BOOLEAN, clean : BOOLEAN]
    BY DEF IInv, TypeOK
  <2>3. faults' = faults \/ faults' = faults + 1
    BY Zenon
  <2>4. DOMAIN Groups' = DOMAIN Groups /\ idx' = idx + 1
    BY <1>4
  <2>5. UNCHANGED <<driver, sessions, outs, saved, pc, gi, status>>
    OBVIOUS
  <2> HIDE DEF RunFails, Starts, ToRun
  <2> QED
    BY <2>1, <2>2, <2>3, <2>4, <2>5 DEF IInv, TypeOK
<1>6. StatusTellsTruth'
  BY <1>1, <1>2, RunKeepsTruth
<1>7. RunningTruth'
  <2> SUFFICES ASSUME ~session.mock, NEW n \in DOMAIN status, status[n]
               PROVE  Truthful(LogAt(Folder, n))'
    BY <1>3, <1>4 DEF RunningTruth
  <2>1. LogAt(Folder, n)' = LogAt(Folder, n)
    BY <1>1, <1>2, <1>4, WriteLogEffect DEF IInv, LogAt
  <2>2. Truthful(LogAt(Folder, n))
    BY DEF IInv, RunningTruth
  <2> QED
    BY <1>4, <2>1, <2>2 DEF Truthful, Hidden
<1>8. SavedIsLoaded'
  BY <1>4 DEF IInv, SavedIsLoaded
<1> QED
  BY <1>5, <1>6, <1>7, <1>8 DEF IInv

LEMMA MockRunStep == ASSUME IInv, MockRun PROVE IInv'
<1> USE DEF MockRun, ToRun
<1>1. Folder' = Folder /\ Current' = Current /\ Groups' = Groups
  BY SameGroup DEF disk
<1>2. TypeOK'
  <2>1. ASSUME NEW n \in DOMAIN status' PROVE status'[n] \in BOOLEAN
    BY DEF IInv, TypeOK
  <2>2. UNCHANGED <<driver, counters, disk, session, pc, gi>> /\ idx' = idx + 1
    OBVIOUS
  <2> HIDE DEF MockRun, ToRun
  <2> QED
    BY <1>1, <2>1, <2>2 DEF IInv, TypeOK, counters, disk
<1>3. StatusTellsTruth'
  BY TruthKept DEF IInv, disk
<1>4. RunningTruth'
  BY DEF RunningTruth
<1>5. SavedIsLoaded'
  BY <1>1 DEF IInv, SavedIsLoaded, disk
<1> QED
  BY <1>2, <1>3, <1>4, <1>5 DEF IInv

LEMMA SkipOkStep == ASSUME IInv, SkipOk PROVE IInv'
<1> USE DEF SkipOk
<1>1. Folder' = Folder /\ Current' = Current /\ Groups' = Groups
  BY SameGroup DEF disk
<1>2. idx' \in Nat \ {0}
  BY SizeType DEF IInv, TypeOK
<1>3. TypeOK'
  BY <1>1, <1>2 DEF IInv, TypeOK, counters, disk
<1>4. StatusTellsTruth'
  BY TruthKept DEF IInv, disk
<1>5. RunningTruth'
  BY <1>1, RunningStays DEF IInv, disk
<1>6. SavedIsLoaded'
  BY <1>1 DEF IInv, SavedIsLoaded, disk
<1> QED
  BY <1>3, <1>4, <1>5, <1>6 DEF IInv

(* What a session that is no mock saves is true.                                  *)
LEMMA WriteRunStatusStep == ASSUME IInv, WriteRunStatus PROVE IInv'
<1> USE DEF WriteRunStatus
<1>1. CASE session.mock
  <2>1. StatusTellsTruth'
    BY <1>1, TruthKept DEF IInv
  <2> QED
    BY <1>1, <2>1 DEF IInv, TypeOK, RunningTruth, SavedIsLoaded, Groups, counters
<1>2. CASE ~session.mock
  <2>1. saved' = [x \in DOMAIN saved \cup {Folder} |-> IF x = Folder THEN status ELSE saved[x]]
    BY <1>2 DEF With
  <2>2. \A f \in DOMAIN saved' : \A n \in DOMAIN saved'[f] : saved'[f][n] \in BOOLEAN
    BY <2>1 DEF IInv, TypeOK
  <2>3. TypeOK'
    BY <2>2 DEF IInv, TypeOK, Groups, counters
  <2>4. StatusTellsTruth'
    <3> SUFFICES ASSUME NEW f \in DOMAIN saved', NEW n \in DOMAIN saved'[f], saved'[f][n]
                 PROVE  Truthful(LogAt(f, n))'
      BY DEF StatusTellsTruth
    <3>1. Truthful(LogAt(f, n))
      <4>1. CASE f = Folder
        BY <1>2, <2>1, <4>1 DEF IInv, RunningTruth
      <4>2. CASE f # Folder
        BY <2>1, <4>2 DEF IInv, StatusTellsTruth
      <4> QED
        BY <4>1, <4>2
    <3>2. LogAt(f, n)' = LogAt(f, n)
      BY DEF LogAt, NoLog
    <3> QED
      BY <3>1, <3>2, TruthStays
  <2> QED
    BY <2>3, <2>4 DEF IInv, RunningTruth, SavedIsLoaded
<1> QED
  BY <1>1, <1>2

LEMMA ParseLogsStep == ASSUME IInv, ParseLogs PROVE IInv'
<1> USE DEF ParseLogs
<1>1. /\ gi' = gi \/ (gi < Len(Groups) /\ gi' = gi + 1)
      /\ pc' \in {"load", "done", "aborted"}
  BY Zenon
<1>2. gi' \in DOMAIN Groups' /\ driver' = driver
  BY <1>1, ProgramAssumption DEF IInv, TypeOK, Groups
<1>3. UNCHANGED <<driver, counters, disk, session, idx, status>>
  OBVIOUS
<1> HIDE DEF ParseLogs
<1>4. TypeOK'
  BY <1>1, <1>2, <1>3 DEF IInv, TypeOK, counters, disk
<1>5. StatusTellsTruth'
  BY <1>3, TruthKept DEF IInv, disk
<1>6. RunningTruth' /\ SavedIsLoaded'
  BY <1>1 DEF RunningTruth, SavedIsLoaded
<1> QED
  BY <1>4, <1>5, <1>6 DEF IInv

LEMMA EndSessionStep == ASSUME IInv, EndSession PROVE IInv'
<1>1. StatusTellsTruth'
  BY TruthKept DEF EndSession, IInv, disk
<1> QED
  BY <1>1 DEF EndSession, IInv, TypeOK, RunningTruth, SavedIsLoaded, Groups, counters, disk

(* A file of statuses that is emptied says nothing untrue.                        *)
LEMMA KillStep == ASSUME IInv, Kill PROVE IInv'
<1>1. /\ UNCHANGED <<driver, sessions, outs, session, gi, idx, status, shown>>
      /\ pc' = "idle" /\ faults' = faults + 1
  BY DEF Kill
<1>2. RunningTruth' /\ SavedIsLoaded'
  BY <1>1 DEF RunningTruth, SavedIsLoaded
<1>3. CASE UNCHANGED <<logs, saved>>
  <2>1. StatusTellsTruth'
    BY <1>1, <1>3, TruthKept DEF IInv
  <2> QED
    BY <1>1, <1>2, <1>3, <2>1 DEF IInv, TypeOK, Groups
<1>4. CASE Starts /\ WriteLog(Log(FALSE, FALSE)) /\ UNCHANGED saved
  <2>1. Log(FALSE, FALSE) \in LogType
    BY LogIsLog DEF IInv
  <2>2. StatusTellsTruth'
    BY <1>1, <1>4, <2>1, RunKeepsTruth DEF Starts
  <2>3. \A f \in DOMAIN logs' : logs'[f] \in Seq(LogType)
    BY <1>4, <2>1, WriteLogEffect DEF IInv
  <2>4. TypeOK'
    BY <1>1, <1>4, <2>3 DEF IInv, TypeOK, Groups
  <2> QED
    BY <1>2, <2>2, <2>4 DEF IInv
<1>5. CASE saved' = With(saved, Folder, << >>) /\ UNCHANGED logs
  <2>1. ASSUME NEW f \in DOMAIN saved', NEW n \in DOMAIN saved'[f]
        PROVE  f \in DOMAIN saved /\ n \in DOMAIN saved[f] /\ saved'[f][n] = saved[f][n]
    BY <1>5 DEF With
  <2>2. TypeOK'
    BY <1>1, <1>5, <2>1 DEF IInv, TypeOK, Groups
  <2>3. StatusTellsTruth'
    <3> SUFFICES ASSUME NEW f \in DOMAIN saved', NEW n \in DOMAIN saved'[f], saved'[f][n]
                 PROVE  Truthful(LogAt(f, n))'
      BY DEF StatusTellsTruth
    <3>1. Truthful(LogAt(f, n))
      BY <2>1 DEF IInv, StatusTellsTruth
    <3>2. LogAt(f, n)' = LogAt(f, n)
      BY <1>5 DEF LogAt, NoLog
    <3> QED
      BY <1>1, <3>1, <3>2, TruthStays
  <2> QED
    BY <1>2, <2>2, <2>3 DEF IInv
<1> QED
  BY <1>3, <1>4, <1>5 DEF Kill

LEMMA NextIInv == IInv /\ [Next]_vars => IInv'
<1> SUFFICES ASSUME IInv, [Next]_vars PROVE IInv'
  OBVIOUS
<1>1. CASE UNCHANGED vars
  <2>1. StatusTellsTruth' /\ RunningTruth'
    BY <1>1, TruthKept, RunningStays DEF IInv, vars, disk
  <2> QED
    BY <1>1, <2>1 DEF vars, counters, disk, IInv, TypeOK, SavedIsLoaded, Folder, Current, Groups
<1>2. CASE Next
  BY <1>2, StartSessionStep, LoadRunStatusStep, RunSucceedsStep, RunSilentlyStep, RunFailsStep,
     MockRunStep, SkipOkStep, WriteRunStatusStep, ParseLogsStep, EndSessionStep, KillStep DEF Next
<1> QED
  BY <1>1, <1>2

-------------------------------------------------------------------------------
(* The inductive invariant.                                                       *)
THEOREM Invariance == Spec => []IInv
BY InitIInv, NextIInv, PTL DEF Spec

(* Type correctness; in particular no log list has a gap.                         *)
THEOREM TypeCorrect == Spec => []TypeOK
BY Invariance, PTL DEF IInv

(* For any programs, sessions, failures and kills: what run_status.txt calls Ok   *)
(* has beside it the log of a script that returned zero, and that log is complete *)
(* unless the script is one that may hide the failure of a worker.                *)
THEOREM SavedStatusTrue == Spec => []StatusTellsTruth
BY Invariance, PTL DEF IInv

(* For any programs, sessions, failures and kills: no log whose status is saved as *)
(* Ok is ever written again.                                                      *)
THEOREM ResultsKept == Spec => SavedResultKept
<1>1. ASSUME IInv, [Next]_vars
      PROVE  [\A f \in DOMAIN saved : \A n \in DOMAIN saved[f] :
                saved[f][n] => LogAt(f, n)' = LogAt(f, n)]_vars
  <2> SUFFICES ASSUME NEW f \in DOMAIN saved, NEW n \in DOMAIN saved[f], saved[f][n]
               PROVE  LogAt(f, n)' = LogAt(f, n)
    OBVIOUS
  <2>1. CASE UNCHANGED logs
    BY <2>1 DEF LogAt
  <2>2. CASE RunSucceeds \/ RunSilently \/ RunFails \/ (Kill /\ ~UNCHANGED logs)
    <3>1. PICK whole \in BOOLEAN, ok \in BOOLEAN : WriteLog(Log(whole, ok))
      BY <2>2 DEF RunSucceeds, RunSilently, RunFails, Kill
    <3>2. ToRun
      BY <2>2 DEF RunSucceeds, RunSilently, RunFails, Kill, Starts
    <3> QED
      BY <1>1, <3>1, <3>2, LogIsLog, RunKeepsResults DEF IInv
  <2>3. RunSucceeds \/ RunSilently \/ RunFails \/ Kill \/ UNCHANGED logs
    BY <1>1 DEF Next, vars, disk, StartSession, LoadRunStatus, MockRun, SkipOk,
                WriteRunStatus, ParseLogs, EndSession
  <2> QED
    BY <2>1, <2>2, <2>3
<1> QED
  BY <1>1, Invariance, PTL DEF Spec, SavedResultKept

-------------------------------------------------------------------------------
(* The tables.  A log that is there was written by the configuration whose name   *)
(* it has, so a table shows whose numbers it says it shows; and a session that    *)
(* sees no failure has a truthful log for each of its configurations, be it of    *)
(* its own or of the session before.                                              *)
LogsNamed ==
  \A out \in Nat, g \in DOMAIN Groups, n \in Nat :
    LET l == LogAt(<<out, Groups[g].folder>>, n) IN l = NoLog \/ l.by = <<g, n>>

ShownType == UNION {[M -> LogType] : M \in SUBSET Nat}

(* What the table of group n shows in cell c. *)
ShownRight(n, c) ==
  \E k \in 1..Groups[n].size :
    /\ Groups[n].match[c] = {k} /\ k \in DOMAIN shown[n]
    /\ shown[n][k] = NoLog \/ shown[n][k].by = <<n, k>>
    /\ ~session.mock /\ session.clean => Truthful(shown[n][k])

ShownInv ==
  /\ shown \in Seq(ShownType)
  /\ pc \in {"load", "run", "parse"} => Len(shown) = gi - 1
  /\ pc = "done" => Len(shown) = Len(Groups)
  /\ \A n \in 1..Len(shown) : \A c \in DOMAIN Groups[n].match : ShownRight(n, c)

CleanInv ==
  ~session.mock /\ session.clean =>
    /\ pc = "run" => \A n \in 1..Current.size : n < idx => status[n]
    /\ pc = "parse" => \A n \in 1..Current.size : Truthful(LogAt(Folder, n))
    /\ TablesFit(Program) => pc # "aborted"

TableInv == IInv /\ LogsNamed /\ ShownInv /\ CleanInv

LEMMA TableInit == Init => TableInv
<1> SUFFICES ASSUME Init PROVE TableInv
  OBVIOUS
<1>1. IInv
  BY InitIInv
<1>2. LogsNamed
  BY DEF Init, LogsNamed, LogAt
<1>3. ShownInv
  BY DEF Init, ShownInv
<1>4. CleanInv
  BY DEF Init, CleanInv
<1> QED
  BY <1>1, <1>2, <1>3, <1>4 DEF TableInv

(* A script writes under the name of its configuration.                           *)
LEMMA WriteNamed ==
  ASSUME FoldersApart(Program), TypeOK, LogsNamed, UNCHANGED driver,
         NEW whole \in BOOLEAN, NEW ok \in BOOLEAN, WriteLog(Log(whole, ok))
  PROVE  LogsNamed'
<1> DEFINE log == Log(whole, ok)
<1>1. log \in LogType /\ log.by = <<gi, idx>>
  BY LogIsLog DEF Log
<1>2. Groups' = Groups
  BY DEF Groups
<1> SUFFICES ASSUME NEW out \in Nat, NEW g \in DOMAIN Groups, NEW n \in Nat
             PROVE  LET l == LogAt(<<out, Groups[g].folder>>, n)'
                    IN  l = NoLog \/ l.by = <<g, n>>
  BY <1>2 DEF LogsNamed, NoLog
<1> HIDE DEF log
<1> DEFINE f == <<out, Groups[g].folder>>
<1>3. f' = f
  BY <1>2
<1>4. CASE f = Folder /\ n = idx
  <2>1. g = gi
    BY <1>4 DEF Folder, Current, Groups, FoldersApart, TypeOK
  <2>2. LogAt(f, n)' = log
    BY <1>1, <1>3, <1>4, WriteLogEffect DEF LogAt, log
  <2> QED
    BY <1>1, <1>4, <2>1, <2>2
<1>5. CASE ~ (f = Folder /\ n = idx)
  <2>1. LogAt(f, n)' = LogAt(f, n)
    BY <1>1, <1>3, <1>5, WriteLogEffect DEF LogAt, log
  <2> QED
    BY <2>1 DEF LogsNamed
<1> QED
  BY <1>4, <1>5

(* Steps that read no log.                                                        *)
LEMMA ShownStays ==
  ASSUME ShownInv, UNCHANGED <<driver, shown>>,
         session'.mock = session.mock, session'.clean => session.clean,
         pc' \in {"load", "run", "parse"} => pc \in {"load", "run", "parse"} /\ gi' = gi,
         pc' = "done" => pc = "done"
  PROVE  ShownInv'
<1>1. Groups' = Groups
  BY DEF Groups
<1>2. ASSUME NEW n \in 1..Len(shown), NEW c \in DOMAIN Groups[n].match
      PROVE  ShownRight(n, c)'
  <2>1. PICK k \in 1..Groups[n].size :
          /\ Groups[n].match[c] = {k} /\ k \in DOMAIN shown[n]
          /\ shown[n][k] = NoLog \/ shown[n][k].by = <<n, k>>
          /\ ~session.mock /\ session.clean => Truthful(shown[n][k])
    BY DEF ShownInv, ShownRight
  <2>2. Truthful(shown[n][k])' <=> Truthful(shown[n][k])
    BY <1>1 DEF Truthful, Hidden
  <2>3. (~session.mock /\ session.clean => Truthful(shown[n][k]))'
    BY <2>1, <2>2
  <2> HIDE DEF Truthful
  <2> QED
    BY <1>1, <2>1, <2>3 DEF ShownRight, NoLog
<1> QED
  BY <1>1, <1>2 DEF ShownInv


LEMMA LogsStay ==
  ASSUME LogsNamed, UNCHANGED <<driver, logs>>
  PROVE  LogsNamed'
BY DEF LogsNamed, LogAt, NoLog, Groups

LEMMA TableStart ==
  ASSUME TableInv, NEW mock \in BOOLEAN, NEW rerun \in BOOLEAN, StartSession(mock, rerun)
  PROVE  LogsNamed' /\ ShownInv' /\ CleanInv'
<1>1. LogsNamed'
  BY LogsStay DEF StartSession, TableInv
<1>2. shown' = << >> /\ gi' = 1 /\ pc' = "load"
  BY DEF StartSession
<1>3. ShownInv'
  BY <1>2 DEF ShownInv
<1>4. CleanInv'
  BY <1>2 DEF CleanInv
<1> QED
  BY <1>1, <1>3, <1>4

LEMMA TableLoad ==
  ASSUME TableInv, LoadRunStatus
  PROVE  LogsNamed' /\ ShownInv' /\ CleanInv'
<1>1. UNCHANGED <<driver, logs, session, gi, shown>> /\ pc = "load" /\ pc' = "run" /\ idx' = 1
  BY DEF LoadRunStatus, disk
<1>2. LogsNamed'
  BY <1>1, LogsStay DEF TableInv
<1>3. ShownInv'
  BY <1>1, ShownStays DEF TableInv
<1>4. CleanInv'
  <2>1. Current' = Current
    BY <1>1 DEF Current, Groups
  <2> QED
    BY <1>1, <2>1 DEF CleanInv
<1> QED
  BY <1>2, <1>3, <1>4

(* The statuses before the next configuration are Ok when its script has returned  *)
(* zero.                                                                          *)
LEMMA TableOk ==
  ASSUME FoldersApart(Program), TableInv, RunSucceeds \/ RunSilently
  PROVE  LogsNamed' /\ ShownInv' /\ CleanInv'
<1>1. PICK whole \in BOOLEAN :
        /\ UNCHANGED <<driver, session, gi, shown, pc>> /\ pc = "run" /\ idx' = idx + 1
        /\ status' = [status EXCEPT ![idx] = TRUE] /\ WriteLog(Log(whole, TRUE))
  BY DEF RunSucceeds, RunSilently, Starts, ToRun
<1>2. LogsNamed'
  BY <1>1, WriteNamed DEF TableInv, IInv
<1>3. ShownInv'
  BY <1>1, ShownStays DEF TableInv
<1>4. CleanInv'
  <2>1. Current' = Current
    BY <1>1 DEF Current, Groups
  <2>2. DOMAIN status = 1..Current.size /\ idx \in Nat
    BY <1>1 DEF TableInv, IInv, SavedIsLoaded, TypeOK
  <2>3. ASSUME ~session.mock, session.clean, NEW n \in 1..Current.size, n < idx + 1
        PROVE  status'[n]
    <3>1. CASE n = idx
      BY <1>1, <2>2, <3>1
    <3>2. CASE n # idx
      <4>1. n < idx
        BY <2>2, <2>3, <3>2
      <4>2. status[n]
        BY <1>1, <2>3, <4>1 DEF TableInv, CleanInv
      <4> QED
        BY <1>1, <3>2, <4>2
    <3> QED
      BY <3>1, <3>2
  <2> QED
    BY <1>1, <2>1, <2>3 DEF CleanInv
<1> QED
  BY <1>2, <1>3, <1>4

LEMMA TableFails ==
  ASSUME FoldersApart(Program), TableInv, RunFails
  PROVE  LogsNamed' /\ ShownInv' /\ CleanInv'
<1>1. UNCHANGED <<driver, gi, shown, pc>> /\ pc = "run"
  BY DEF RunFails, Starts, ToRun
<1>2. PICK whole \in BOOLEAN : WriteLog(Log(whole, FALSE))
  BY DEF RunFails
<1>3. session'.mock = session.mock /\ ~session'.clean
  BY DEF RunFails, TableInv, IInv, TypeOK
<1>4. LogsNamed'
  BY <1>1, <1>2, WriteNamed DEF TableInv, IInv
<1>5. ShownInv'
  BY <1>1, <1>3, ShownStays DEF TableInv
<1>6. CleanInv'
  BY <1>3 DEF CleanInv
<1> QED
  BY <1>4, <1>5, <1>6

LEMMA TableMock ==
  ASSUME TableInv, MockRun
  PROVE  LogsNamed' /\ ShownInv' /\ CleanInv'
<1>1. UNCHANGED <<driver, logs, session, gi, shown, pc>> /\ pc = "run" /\ session.mock
  BY DEF MockRun, ToRun, disk
<1>2. LogsNamed'
  BY <1>1, LogsStay DEF TableInv
<1>3. ShownInv'
  BY <1>1, ShownStays DEF TableInv
<1>4. CleanInv'
  BY <1>1 DEF CleanInv
<1> QED
  BY <1>2, <1>3, <1>4

LEMMA TableSkip ==
  ASSUME TableInv, SkipOk
  PROVE  LogsNamed' /\ ShownInv' /\ CleanInv'
<1>1. /\ UNCHANGED <<driver, logs, session, gi, shown, pc, status>> /\ pc = "run"
      /\ idx \in Nat /\ idx' \in idx + 1..Current.size + 1 /\ Current.size \in Nat
      /\ \A n \in idx..idx' - 1 : status[n]
  BY SizeType DEF SkipOk, disk, TableInv, IInv, TypeOK
<1>2. LogsNamed'
  BY <1>1, LogsStay DEF TableInv
<1>3. ShownInv'
  BY <1>1, ShownStays DEF TableInv
<1>4. CleanInv'
  <2>1. Current' = Current
    BY <1>1 DEF Current, Groups
  <2>2. ASSUME ~session.mock, session.clean, NEW n \in 1..Current.size, n < idx'
        PROVE  status[n]
    <3>1. CASE n < idx
      BY <1>1, <2>2, <3>1 DEF TableInv, CleanInv
    <3>2. CASE n >= idx
      <4>1. PICK j \in idx + 1..Current.size + 1 : idx' = j
        BY <1>1
      <4>2. j \in Nat /\ n \in Nat /\ n < j
        BY <1>1, <2>2, <4>1
      <4>3. n \in idx..j - 1
        BY <1>1, <3>2, <4>2
      <4> QED
        BY <1>1, <4>1, <4>3
    <3> QED
      BY <1>1, <3>1, <3>2
  <2> QED
    BY <1>1, <2>1, <2>2 DEF CleanInv
<1> QED
  BY <1>2, <1>3, <1>4

(* Every configuration of an undisturbed session is Ok in the end, so its log is  *)
(* complete: it ran now, or the status that says so is true.                      *)
LEMMA TableWrite ==
  ASSUME TableInv, WriteRunStatus
  PROVE  LogsNamed' /\ ShownInv' /\ CleanInv'
<1>1. /\ UNCHANGED <<driver, logs, session, gi, shown, status>>
      /\ pc = "run" /\ pc' = "parse" /\ idx > Current.size
      /\ idx \in Nat /\ Current.size \in Nat
  BY SizeType DEF WriteRunStatus, counters, TableInv, IInv, TypeOK
<1>2. LogsNamed'
  BY <1>1, LogsStay DEF TableInv
<1>3. ShownInv'
  BY <1>1, ShownStays DEF TableInv
<1>4. CleanInv'
  <2>1. Current' = Current /\ Folder' = Folder
    BY <1>1 DEF Current, Folder, Groups
  <2>2. ASSUME ~session.mock, session.clean, NEW n \in 1..Current.size
        PROVE  Truthful(LogAt(Folder, n))
    <3>1. status[n] /\ n \in DOMAIN status
      <4>1. n < idx
        BY <1>1
      <4> QED
        BY <1>1, <2>2, <4>1 DEF TableInv, CleanInv, IInv, SavedIsLoaded
    <3> QED
      BY <1>1, <2>2, <3>1 DEF TableInv, IInv, RunningTruth
  <2>3. \A n : Truthful(LogAt(Folder, n))' <=> Truthful(LogAt(Folder, n))
    BY <1>1, <2>1 DEF LogAt, NoLog, Truthful, Hidden, Groups
  <2> QED
    BY <1>1, <2>1, <2>2, <2>3 DEF CleanInv
<1> QED
  BY <1>2, <1>3, <1>4

LEMMA TableEnd ==
  ASSUME TableInv, EndSession
  PROVE  LogsNamed' /\ ShownInv' /\ CleanInv'
<1>1. UNCHANGED <<driver, logs, session, shown>> /\ pc' = "idle"
  BY DEF EndSession, disk
<1>2. LogsNamed'
  BY <1>1, LogsStay DEF TableInv
<1>3. ShownInv'
  BY <1>1, ShownStays DEF TableInv
<1>4. CleanInv'
  BY <1>1 DEF CleanInv
<1> QED
  BY <1>2, <1>3, <1>4

LEMMA TableKill ==
  ASSUME FoldersApart(Program), TableInv, Kill
  PROVE  LogsNamed' /\ ShownInv' /\ CleanInv'
<1>1. UNCHANGED <<driver, session, shown>> /\ pc' = "idle"
  BY DEF Kill
<1>2. LogsNamed'
  <2>1. CASE UNCHANGED logs
    BY <1>1, <2>1, LogsStay DEF TableInv
  <2>2. CASE WriteLog(Log(FALSE, FALSE))
    BY <1>1, <2>2, WriteNamed DEF TableInv, IInv
  <2> QED
    BY <2>1, <2>2 DEF Kill
<1>3. ShownInv'
  BY <1>1, ShownStays DEF TableInv
<1>4. CleanInv'
  BY <1>1 DEF CleanInv
<1> QED
  BY <1>2, <1>3, <1>4

(* A table that is read shows each cell from the log of its configuration.        *)
LEMMA TableParse ==
  ASSUME TableInv, ParseLogs
  PROVE  LogsNamed' /\ ShownInv' /\ CleanInv'
<1>1. UNCHANGED <<driver, logs, session, status>> /\ pc = "parse"
      /\ pc' \in {"load", "done", "aborted"}
  BY DEF ParseLogs, disk
<1>2. TypeOK /\ gi \in DOMAIN Groups /\ DOMAIN Groups = 1..Len(Groups) /\ Len(Groups) \in Nat \ {0}
      /\ Groups' = Groups /\ gi \in Nat
  BY <1>1, ProgramAssumption DEF TableInv, IInv, TypeOK, Groups
<1>3. LogsNamed'
  BY <1>1, LogsStay DEF TableInv
<1>4. /\ shown \in Seq(ShownType) /\ Len(shown) = gi - 1
      /\ \A n \in 1..Len(shown) : \A c \in DOMAIN Groups[n].match : ShownRight(n, c)
  BY <1>1 DEF TableInv, ShownInv
<1>5. ~session.mock /\ session.clean => \A n \in 1..Current.size : Truthful(LogAt(Folder, n))
  BY <1>1 DEF TableInv, CleanInv
<1> DEFINE table == [n \in Matched |-> LogAt(Folder, n)]
           fits == \A c \in DOMAIN Current.match : \E n \in 1..Current.size :
                        Current.match[c] = {n}
<1>6. CASE /\ fits /\ shown' = Append(shown, table)
           /\ pc' = IF gi < Len(Groups) THEN "load" ELSE "done"
           /\ gi' = IF gi < Len(Groups) THEN gi + 1 ELSE gi
  <2>1. Matched \in SUBSET Nat
    BY <1>6 DEF Matched
  <2>2. table \in ShownType
    <3>1. \A n \in Matched : LogAt(Folder, n) \in LogType
      BY <1>2, LogAtType
    <3>2. table \in [Matched -> LogType]
      BY <3>1
    <3> QED
      BY <2>1, <3>2 DEF ShownType
  <2> HIDE DEF table
  <2>3. /\ shown' \in Seq(ShownType) /\ Len(shown') = gi
        /\ shown'[gi] = table /\ \A n \in 1..Len(shown) : shown'[n] = shown[n]
    BY <1>2, <1>4, <1>6, <2>2
  <2>4. ASSUME NEW c \in DOMAIN Current.match
        PROVE  \E k \in 1..Current.size :
                 /\ Current.match[c] = {k} /\ k \in DOMAIN table
                 /\ table[k] = NoLog \/ table[k].by = <<gi, k>>
                 /\ ~session.mock /\ session.clean => Truthful(table[k])
    <3>1. PICK k \in 1..Current.size : Current.match[c] = {k}
      BY <1>6
    <3>2. k \in Matched
      BY <3>1 DEF Matched
    <3>3. DOMAIN table = Matched /\ table[k] = LogAt(Folder, k)
      BY <3>2 DEF table
    <3>4. LogAt(Folder, k) = NoLog \/ LogAt(Folder, k).by = <<gi, k>>
      <4>1. session.out \in Nat /\ k \in Nat
        BY <1>2 DEF TypeOK
      <4> QED
        BY <1>2, <4>1 DEF TableInv, LogsNamed, Folder, Current
    <3>5. ~session.mock /\ session.clean => Truthful(table[k])
      BY <1>5, <3>3, Zenon
    <3> QED
      BY <3>1, <3>2, <3>3, <3>4, <3>5
  <2>5. ASSUME NEW n \in 1..gi, NEW c \in DOMAIN Groups[n].match
        PROVE  ShownRight(n, c)'
    <3>1. CASE n = gi
      <4>1. PICK k \in 1..Groups[n].size :
              /\ Groups[n].match[c] = {k} /\ k \in DOMAIN table
              /\ table[k] = NoLog \/ table[k].by = <<n, k>>
              /\ ~session.mock /\ session.clean => Truthful(table[k])
        BY <2>4, <3>1 DEF Current
      <4>2. shown'[n][k] = table[k]
        BY <2>3, <3>1
      <4>3. (~session.mock /\ session.clean => Truthful(shown[n][k]))'
        BY <1>1, <1>2, <4>1, <4>2 DEF Truthful, Hidden
      <4> QED
        BY <1>1, <1>2, <2>3, <3>1, <4>1, <4>3 DEF ShownRight, NoLog
    <3>2. CASE n # gi
      <4>1. n \in 1..Len(shown)
        BY <1>2, <1>4, <3>2
      <4>2. PICK k \in 1..Groups[n].size :
              /\ Groups[n].match[c] = {k} /\ k \in DOMAIN shown[n]
              /\ shown[n][k] = NoLog \/ shown[n][k].by = <<n, k>>
              /\ ~session.mock /\ session.clean => Truthful(shown[n][k])
        BY <1>4, <4>1 DEF ShownRight
      <4>3. shown'[n] = shown[n]
        BY <2>3, <4>1
      <4>4. (~session.mock /\ session.clean => Truthful(shown[n][k]))'
        BY <1>1, <1>2, <4>2, <4>3 DEF Truthful, Hidden
      <4> QED
        BY <1>1, <1>2, <4>2, <4>3, <4>4 DEF ShownRight, NoLog
    <3> QED
      BY <3>1, <3>2
  <2>6. ShownInv'
    BY <1>2, <1>6, <2>3, <2>5 DEF ShownInv
  <2>7. CleanInv'
    BY <1>6 DEF CleanInv
  <2> QED
    BY <1>3, <2>6, <2>7
<1>7. CASE /\ ~ (/\ fits
                 /\ Program[driver].strict => \A n \in Matched : LogAt(Folder, n) # NoLog)
           /\ pc' = "aborted" /\ UNCHANGED <<gi, shown>>
  <2>1. ShownInv'
    BY <1>1, <1>7, ShownStays DEF TableInv
  <2>2. ASSUME ~session.mock, session.clean, TablesFit(Program) PROVE FALSE
    <3>1. fits
      BY <1>2, <2>2 DEF TablesFit, TypeOK, Current, Groups
    <3>2. ASSUME NEW n \in Matched PROVE LogAt(Folder, n) # NoLog
      <4>1. n \in 1..Current.size
        BY <3>1 DEF Matched
      <4>2. Truthful(LogAt(Folder, n))
        BY <1>5, <2>2, <4>1
      <4> QED
        BY <4>2 DEF NoLog, Truthful
    <3> QED
      BY <1>7, <3>1, <3>2
  <2>3. TablesFit(Program)' <=> TablesFit(Program)
    BY DEF TablesFit
  <2>4. CleanInv'
    BY <1>1, <1>7, <2>2, <2>3 DEF CleanInv
  <2> QED
    BY <1>3, <2>1, <2>4
<1> QED
  BY <1>6, <1>7 DEF ParseLogs

LEMMA TableStep == ASSUME FoldersApart(Program) PROVE TableInv /\ [Next]_vars => TableInv'
<1> SUFFICES ASSUME TableInv, [Next]_vars PROVE TableInv'
  OBVIOUS
<1>1. IInv'
  BY NextIInv DEF TableInv
<1>2. CASE UNCHANGED vars
  <2>1. UNCHANGED <<driver, logs, session, pc, gi, idx, status, shown>>
    BY <1>2 DEF vars, disk
  <2>2. LogsNamed'
    BY <2>1, LogsStay DEF TableInv
  <2>3. ShownInv'
    BY <2>1, ShownStays DEF TableInv
  <2>4. /\ Current' = Current /\ (TablesFit(Program)' <=> TablesFit(Program))
        /\ \A n : Truthful(LogAt(Folder, n))' <=> Truthful(LogAt(Folder, n))
    BY <2>1 DEF Current, Groups, Folder, LogAt, NoLog, TablesFit, Truthful, Hidden
  <2>5. CleanInv'
    BY <2>1, <2>4 DEF TableInv, CleanInv
  <2> QED
    BY <1>1, <2>2, <2>3, <2>5 DEF TableInv
<1>3. CASE Next
  <2>1. LogsNamed' /\ ShownInv' /\ CleanInv'
    BY <1>3, TableStart, TableLoad, TableOk, TableFails, TableMock, TableSkip, TableWrite,
       TableParse, TableEnd, TableKill DEF Next
  <2> QED
    BY <1>1, <2>1 DEF TableInv
<1> QED
  BY <1>2, <1>3

(* A session in which no script returns an error fills the tables, for any        *)
(* programs whose tables fit their lists, whatever the sessions before it left:   *)
(* each cell is read from the log of the configuration it names, a script that    *)
(* returned zero wrote that log, and the cell gets its number unless that script  *)
(* hid the failure of a worker.                                                   *)
THEOREM TablesFilled ==
  ASSUME FoldersApart(Program), TablesFit(Program)
  PROVE  Spec => []CleanSessionFillsTables
<1>1. TableInv => CleanSessionFillsTables
  <2> SUFFICES ASSUME TableInv, pc \in {"done", "aborted"}, ~session.mock, session.clean
               PROVE  /\ pc = "done"
                      /\ \A n \in DOMAIN Groups : \A c \in CellsOf(n) :
                           LET l == CellLog(n, c)
                           IN  /\ l.by[1] = n /\ l.by[2] \in Groups[n].match[c] /\ l.ok
                               /\ Printed(l.by) # {} => HasNumber(n, c) \/ Hidden(l)
    BY DEF CleanSessionFillsTables
  <2>1. pc = "done"
    BY DEF TableInv, CleanInv
  <2>2. DOMAIN Groups = 1..Len(shown) /\ driver \in DOMAIN Program
    BY <2>1, ProgramAssumption DEF TableInv, ShownInv, IInv, TypeOK, Groups
  <2>3. ASSUME NEW n \in DOMAIN Groups, NEW c \in DOMAIN Groups[n].match
        PROVE  LET l == CellLog(n, c)
               IN  /\ l.by[1] = n /\ l.by[2] \in Groups[n].match[c] /\ l.ok
                   /\ Printed(l.by) # {} => HasNumber(n, c) \/ Hidden(l)
    <3>1. PICK k \in 1..Groups[n].size :
            /\ Groups[n].match[c] = {k} /\ k \in DOMAIN shown[n]
            /\ shown[n][k] = NoLog \/ shown[n][k].by = <<n, k>>
            /\ ~session.mock /\ session.clean => Truthful(shown[n][k])
      <4>1. ShownRight(n, c)
        BY <2>2 DEF TableInv, ShownInv
      <4> QED
        BY <4>1 DEF ShownRight
    <3>2. Truthful(shown[n][k])
      BY <3>1
    <3>3. CellLog(n, c) = shown[n][k]
      BY <3>1 DEF CellLog
    <3>4. shown[n][k].by = <<n, k>> /\ shown[n][k] # NoLog
      BY <3>1, <3>2 DEF NoLog, Truthful
    <3>5. Groups[n].prints[k] # {} => Result(n, c) \in Groups[n].prints[k]
      <4>1. PICK j \in 1..Groups[n].size :
              /\ Groups[n].match[c] = {j}
              /\ Groups[n].prints[j] # {} => Groups[n].cols[c[2]] \in Groups[n].prints[j]
        BY <2>2 DEF TablesFit, Groups
      <4> QED
        BY <3>1, <4>1 DEF Result
    <3>6. Printed(<<n, k>>) = Groups[n].prints[k]
      BY DEF Printed
    <3>7. shown[n][k].ok /\ (shown[n][k].whole \/ Hidden(shown[n][k]))
      BY <3>2, Zenon DEF Truthful
    <3>8. Printed(shown[n][k].by) # {} => MayHaveNumber(n, c)
      BY <3>3, <3>4, <3>5, <3>6 DEF MayHaveNumber
    <3>9. Printed(shown[n][k].by) # {} => HasNumber(n, c) \/ Hidden(shown[n][k])
      BY <3>3, <3>7, <3>8, Zenon DEF HasNumber
    <3> QED
      BY <3>1, <3>3, <3>4, <3>7, <3>9
  <2> QED
    BY <2>1, <2>3 DEF CellsOf
<1> QED
  BY <1>1, TableInit, TableStep, PTL DEF Spec

(* What a line says of a number is true of the run that the number comes from, in *)
(* any session and from any log, complete or not, when the line speaks of the     *)
(* configurations of its row.                                                     *)
THEOREM LinesTrue ==
  ASSUME FoldersApart(Program), LinesFit(Program)
  PROVE  Spec => []LinesMatchRuns
<1>1. TableInv => LinesMatchRuns
  <2> SUFFICES ASSUME TableInv, pc = "done",
                      NEW line \in Program[driver].lines, NEW c \in CellsOf(line.group),
                      c[1] = line.row, MayHaveNumber(line.group, c)
               PROVE  LET by == CellLog(line.group, c).by
                      IN  \A key \in DOMAIN line.label :
                            key \in DOMAIN Says(by) /\ Says(by)[key] = line.label[key]
    BY DEF LinesMatchRuns
  <2> DEFINE n == line.group
  <2>1. DOMAIN Groups = 1..Len(shown) /\ driver \in DOMAIN Program
    BY ProgramAssumption DEF TableInv, ShownInv, IInv, TypeOK, Groups
  <2>2. n \in DOMAIN Groups /\ c \in DOMAIN Groups[n].match
    BY <2>1 DEF LinesFit, Groups, CellsOf
  <2>3. PICK k \in 1..Groups[n].size :
          /\ Groups[n].match[c] = {k} /\ k \in DOMAIN shown[n]
          /\ shown[n][k] = NoLog \/ shown[n][k].by = <<n, k>>
          /\ ~session.mock /\ session.clean => Truthful(shown[n][k])
    <3>1. ShownRight(n, c)
      BY <2>1, <2>2 DEF TableInv, ShownInv
    <3> QED
      BY <3>1 DEF ShownRight
  <2>4. CellLog(n, c) = shown[n][k]
    BY <2>3 DEF CellLog
  <2>5. shown[n][k] # NoLog /\ Result(n, c) \in Printed(shown[n][k].by)
    BY <2>4 DEF MayHaveNumber
  <2>6. shown[n][k].by = <<n, k>>
    BY <2>3, <2>5 DEF NoLog
  <2>7. Groups[n].cols[c[2]] \in Groups[n].prints[k]
    BY <2>5, <2>6 DEF Printed, Result
  <2>8. \A key \in DOMAIN line.label :
          key \in DOMAIN Groups[n].says[k] /\ Groups[n].says[k][key] = line.label[key]
    BY <2>1, <2>2, <2>3, <2>7 DEF LinesFit, Groups
  <2> QED
    BY <2>4, <2>6, <2>8 DEF Says
<1> QED
  BY <1>1, TableInit, TableStep, PTL DEF Spec
===============================================================================
