-------------------------- MODULE MCExperimentDriver --------------------------
(* The programs of exp/ and the experiments of example/auto_runner as programs  *)
(* of ExperimentDriver.                                                         *)
EXTENDS ExperimentDriver, ScriptInterface, ExpTables, AutoRunnerTables

(* What the lines of an output may say of a run.                                *)
Gpus(cfg) ==
  CASE "devices" \in DOMAIN cfg           -> cfg.devices
    [] "num_worker" \in DOMAIN cfg        -> cfg.num_worker
    [] "num_sample_worker" \in DOMAIN cfg -> cfg.num_sample_worker + cfg.num_train_worker
    [] OTHER                              -> 1

Facts(cfg) ==
  cfg @@ [gpus |-> Gpus(cfg),
          gpu_sampling |-> Has(cfg, "arch", {"arch2"})
                             \/ Has(cfg, "BOOL_use_gpu_sampling", {"use_gpu_sampling"}),
          gpu_caching  |-> "cache_percentage" \in DOMAIN cfg /\ cfg.cache_percentage > 0]

MCGroup(gr, n) ==
  [size     |-> Len(gr.list),
   folder   |-> n,
   accepted |-> {k \in DOMAIN gr.list : Accepts(gr.dir, gr.list[k])},
   silent   |-> {k \in DOMAIN gr.list : HidesFailures(gr.dir, gr.list[k])},
   prints   |-> [k \in DOMAIN gr.list |->
                   IF gr.list[k].app \in DOMAIN Scripts[gr.dir]
                   THEN Prints(gr.dir, gr.list[k]) ELSE {}],
   says     |-> [k \in DOMAIN gr.list |-> Facts(gr.list[k])],
   cols     |-> gr.table.cols,
   match    |-> [c \in Cells(gr.table) |-> CellMatch(gr.list, gr.table, c)]]

ExpPrograms ==
  [d \in DOMAIN ExpDrivers |->
     [groups |-> [n \in DOMAIN ExpDrivers[d].groups |-> MCGroup(ExpDrivers[d].groups[n], n)],
      lines  |-> ExpDrivers[d].lines, strict |-> FALSE, anyOut |-> FALSE,
      parseOnly |-> FALSE]]

(* The tests of run_dgl.py and run_sgnn_dgl.py whose log_folder sets mock.       *)
ParseOnly == {"DglMotivation", "DglBreakdown", "DglOverall", "DglCpuOverall",
              "SgnnDglBreakdown"}

(* One test of example/auto_runner a session, as its main sections are written. *)
AutoGroups ==
  [FgnnBreakdown |-> FgnnBreakdown, FgnnOverall |-> FgnnOverall,
   FgnnGcnScalability |-> FgnnGcnScalability, FgnnGcnTwitter |-> FgnnGcnTwitter,
   FgnnPinsageScalability |-> FgnnPinsageScalability,
   SgnnMotivation |-> SgnnMotivation, SgnnOverallPipeline |-> SgnnOverallPipeline,
   SgnnOverallNoPipeline |-> SgnnOverallNoPipeline, SgnnBreakdown |-> SgnnBreakdown,
   SgnnGcnTwitter |-> SgnnGcnTwitter,
   SgnnDglBreakdown |-> SgnnDglBreakdown, SgnnDglOverall |-> SgnnDglOverall,
   SgnnDglScalability |-> SgnnDglScalability, SgnnDglOneGpu |-> SgnnDglOneGpu,
   DglMotivation |-> DglMotivation, DglBreakdown |-> DglBreakdown,
   DglPinsageBreakdown |-> DglPinsageBreakdown, DglScalability |-> DglScalability,
   DglScalabilityTwitter |-> DglScalabilityTwitter, DglOverall |-> DglOverall,
   DglPinsageOverall |-> DglPinsageOverall, DglCpuOverall |-> DglCpuOverall,
   DglMotivation2 |-> DglMotivation2, PygOverall |-> PygOverall,
   PygBreakdown |-> PygBreakdown]

AutoPrograms ==
  [d \in DOMAIN AutoGroups |->
     [groups |-> << MCGroup(AutoGroups[d], 1) >>, lines |-> {},
      strict |-> TRUE, anyOut |-> TRUE, parseOnly |-> d \in ParseOnly]]

(* TLC makes the choice of one once, and does not put the functions together     *)
(* again at every use.                                                           *)
MCProgram ==
  LET programs == ExpPrograms @@ AutoPrograms
  IN  CHOOSE f \in {programs} : TRUE

(* The short programs get more sessions and faults than the long ones: a long    *)
(* one has the same actions, and its tables need one session only.               *)
Short  == {"DglMotivation", "DglMotivation2", "SgnnDglOverall", "table1"}
Middle == {"SgnnMotivation", "fig14a", "fig15", "SgnnDglBreakdown", "SgnnDglOneGpu", "PygOverall"}
MCMaxSessions ==
  [d \in DOMAIN MCProgram |-> IF d \in Short THEN 3 ELSE IF d \in Middle THEN 2 ELSE 1]
MCMaxFaults ==
  [d \in DOMAIN MCProgram |-> IF d \in Short THEN 2 ELSE IF d \in Middle THEN 1 ELSE 0]

(* What the proof about the tables asks of the programs is true of the real ones. *)
ASSUME TablesAssumption == FoldersApart(MCProgram) /\ TablesFit(MCProgram)
===============================================================================
