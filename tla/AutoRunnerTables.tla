--------------------------- MODULE AutoRunnerTables ---------------------------
(* The experiments of example/auto_runner: the configurations each test runs, *)
(* and the table its logs fill.  A group runs the scripts of the directory   *)
(* "dir" (below example/) and keeps its logs in a directory of its own.      *)
EXTENDS ConfigList

AutoStart == InitialList(<<"products", "papers100M", "uk-2006-05", "twitter">>)

(* The order in which most tables show the data sets.                        *)
TableOrder == <<"products", "twitter", "papers100M", "uk-2006-05">>

(* The three data sets that DGL can sample on the GPU.                       *)
SmallSets == <<"products", "papers100M", "twitter">>

AutoEpochs == Override("num_epoch", <<10>>)

DataRows(datasets) == Each("dataset", datasets)

-------------------------------------------------------------------------------
(* run_samgraph.py: FGNN, some GPUs sample and the others train.             *)
FgnnAll(switch) ==
  << Select("app", Range(Models)) >> \o SampleTypes \o
  << AutoEpochs, Override("omp-thread-num", <<40>>) >> \o Fanouts \o
  << Override("BOOL_pipeline", <<switch>>) >>

FgnnBreakdownTable ==
  UniformTable(<<"epoch_time:sample_total", "sample_time", "get_cache_miss_index_time",
                 "enqueue_samples_time", "epoch_time:copy_time", "epoch_time:train_total",
                 "train_time", "convert_time", "cache_percentage", "cache_hit_rate">>,
               Grid(Models, TableOrder))

FgnnBreakdown == Group("samgraph/multi_gpu", Chain(AutoStart,
  FgnnAll("no_pipeline")
  \o CacheRatios("gcn",       <<100, 21, 25, 14>>)
  \o CacheRatios("graphsage", <<100, 25, 32, 18>>)
  \o CacheRatios("pinsage",   <<100, 22, 26, 13>>)), FgnnBreakdownTable)

FgnnOverallTable ==
  LET samplers == <<2, 2, 1>>   \* named for GraphSAGE on all but products
      grid     == Grid(Models, TableOrder)
  IN  UniformTable(<<"pipeline_train_epoch_time", "cache_percentage">>,
        [i \in DOMAIN grid |-> IF i \in 6..8
                               THEN ("num_sample_worker" :> samplers[i - 5]) @@ grid[i]
                               ELSE grid[i]])

FgnnOverall == Group("samgraph/multi_gpu", Chain(AutoStart,
  FgnnAll("pipeline")
  \o Splits("gcn",       << <<100, 3, 5>>, <<20, 2, 6>>, <<18, 2, 6>>, <<11, 2, 6>> >>)
  \o Splits("graphsage", << <<100, 4, 4>>, <<24, 2, 6>>, <<31, 2, 6>>, <<16, 1, 7>> >>)
  \o Splits("pinsage",   << <<100, 1, 7>>, <<21, 1, 7>>, <<23, 1, 7>>, << 9, 1, 7>> >>)),
  FgnnOverallTable)

(* One model on one data set, for every split of the GPUs that WorkerGrid lists. *)
FgnnScaling(app, dataset, sampleType, fanouts, combos) ==
  << Select("app", {app}), Select("dataset", {dataset}),
     Override("sample_type", <<sampleType>>), AutoEpochs, Override("omp-thread-num", <<40>>) >>
  \o fanouts
  \o << MultiComboMultiOverrideList("and", [app |-> {app}], combos) >>

FgnnStages == <<"epoch_time:sample_total", "epoch_time:copy_time", "epoch_time:train_total",
                "pipeline_train_epoch_time">>

GcnFanout == << Combo("app", {"gcn"}, "fanout", <<"5 10 15">>) >>

FgnnGcnScalabilityTable ==
  SplitTable(FgnnStages, WorkerGrid, "BOOL_pipeline", "no_pipeline", "pipeline")

FgnnGcnScalability == Group("samgraph/multi_gpu", Chain(AutoStart,
  FgnnScaling("gcn", "papers100M", "khop2", GcnFanout,
              Scaled("pipeline", Papers100MRatio) \o Scaled("no_pipeline", Papers100MRatio))),
  FgnnGcnScalabilityTable)

FgnnGcnTwitterTable == UniformTable(<<"pipeline_train_epoch_time">>, WorkerGrid)

FgnnGcnTwitter == Group("samgraph/multi_gpu", Chain(AutoStart,
  FgnnScaling("gcn", "twitter", "khop2", GcnFanout, Scaled("pipeline", TwitterRatio))),
  FgnnGcnTwitterTable)

FgnnPinsageScalabilityTable ==
  SplitTable(FgnnStages, WorkerGrid, "BOOL_pipeline", "no_pipeline", "pipeline")

PinsageRatio(s, t) == 21

FgnnPinsageScalability == Group("samgraph/multi_gpu", Chain(AutoStart,
  FgnnScaling("pinsage", "papers100M", "random_walk", << >>,
              Scaled("pipeline", PinsageRatio) \o Scaled("no_pipeline", PinsageRatio))),
  FgnnPinsageScalabilityTable)

-------------------------------------------------------------------------------
(* run_sgnn.py: SGNN, every GPU samples and trains.                          *)
SgnnRatios ==
  LET One(app, ratios) ==
        [d \in DOMAIN ratios |->
           MultiComboMultiOverride("and", Of(app, d), [cache_percentage |-> ratios[d]])]
  IN  One("gcn", <<100, 4, 1, 0>>) \o One("graphsage", <<100, 11, 15, 0>>)
        \o One("pinsage", <<100, 6, 4, 0>>)

SgnnMotivationTable ==
  UniformTable(<<"epoch_time:sample_time", "epoch_time:copy_time", "epoch_time:train_total",
                 "epoch_time:total", "cache_percentage", "cache_hit_rate">>,
    << [arch |-> "arch0", cache_percentage |-> 0], [arch |-> "arch0", cache_percentage |-> 21],
       [arch |-> "arch2", cache_percentage |-> 0], [arch |-> "arch2", cache_percentage |-> 7] >>)

SgnnMotivation == Group("samgraph", Chain(AutoStart,
  << Select("app", {"gcn"}), Select("dataset", {"papers100M"}), AutoEpochs,
     Override("fanout", <<"5 10 15">>), Override("BOOL_pipeline", <<"no_pipeline">>),
     Override("arch", <<"arch0", "arch2">>), Override("cache_policy", <<"degree">>),
     Combo("arch", {"arch2"}, "cache_percentage", <<7, 0>>),
     Combo("arch", {"arch0"}, "cache_percentage", <<21, 0>>) >>), SgnnMotivationTable)

SgnnOverallConversions(switch) ==
  << Select("app", Range(Models)) >> \o SampleTypes \o
  << AutoEpochs, Override("omp-thread-num", <<40>>), Override("cache-policy", <<"degree">>) >>
  \o Fanouts \o
  << Override("BOOL_pipeline", <<switch>>), Override("num_worker", <<8>>) >> \o SgnnRatios

SgnnOverallTable ==
  UniformTable(<<"epoch_time:total", "cache_percentage">>, Grid(Models, TableOrder))

SgnnOverallPipeline ==
  Group("samgraph/sgnn", Chain(AutoStart, SgnnOverallConversions("pipeline")), SgnnOverallTable)

SgnnOverallNoPipelineTable ==
  UniformTable(<<"epoch_time:total", "cache_percentage">>, Grid(Models, TableOrder))

SgnnOverallNoPipeline ==
  Group("samgraph/sgnn", Chain(AutoStart, SgnnOverallConversions("no_pipeline")),
        SgnnOverallNoPipelineTable)

SgnnBreakdownTable ==
  UniformTable(<<"epoch_time:sample_total", "sample_time", "get_cache_miss_index_time",
                 "epoch_time:copy_time", "cache_percentage", "cache_hit_rate",
                 "epoch_time:train_total", "epoch_time:total">>, Grid(Models, TableOrder))

SgnnBreakdown == Group("samgraph/sgnn", Chain(AutoStart,
  << Select("app", Range(Models)) >> \o SampleTypes \o
  << AutoEpochs, Override("cache_policy", <<"degree">>), Override("num_worker", <<1>>),
     Override("BOOL_pipeline", <<"no_pipeline">>) >> \o SgnnRatios), SgnnBreakdownTable)

SgnnScaling(app, dataset, ratio) == Group("samgraph/sgnn", Chain(AutoStart,
  << Select("app", {app}), Select("dataset", {dataset}), AutoEpochs,
     Override("cache_policy", <<"degree">>), Override("cache_percentage", <<ratio>>),
     Override("num_worker", UpTo8), Override("BOOL_pipeline", <<"no_pipeline">>) >>),
  IF dataset = "twitter"
  THEN UniformTable(<<"epoch_time:total">>, Each("num_worker", UpTo8))
  ELSE UniformTable(<<"epoch_time:sample_time", "epoch_time:copy_time",
                      "epoch_time:train_total", "epoch_time:total">>,
                    Each("num_worker", UpTo8)))

SgnnGcnScalability     == SgnnScaling("gcn", "papers100M", 3)
SgnnGcnTwitter         == SgnnScaling("gcn", "twitter", 1)
SgnnPinsageScalability == SgnnScaling("pinsage", "papers100M", 6)

-------------------------------------------------------------------------------
(* run_sgnn_dgl.py: PinSAGE, SGNN samples and DGL extracts.                  *)
SgnnDglRuns(datasets, workers, switches) ==
  << Select("app", {"pinsage"}), Select("dataset", datasets), AutoEpochs >>
  \o << Override("num_worker", workers), Override("BOOL_pipeline", switches) >>

SgnnDglBreakdown ==
  Group("samgraph/sgnn_dgl", Chain(AutoStart, SgnnDglRuns(Range(SmallSets), <<1>>, <<"no_pipeline">>)),
    UniformTable(<<"epoch_time:sample_time", "epoch_time:copy_time", "epoch_time:train_total">>,
                 DataRows(SmallSets)))

SgnnDglOverall ==
  Group("samgraph/sgnn_dgl", Chain(AutoStart, SgnnDglRuns(Range(SmallSets), <<8>>, <<"pipeline">>)),
    UniformTable(<<"epoch_time:total">>, DataRows(SmallSets)))

SgnnDglScalability ==
  Group("samgraph/sgnn_dgl",
    Chain(AutoStart, SgnnDglRuns({"papers100M"}, UpTo8, <<"pipeline", "no_pipeline">>)),
    SplitTable(<<"epoch_time:sample_time", "epoch_time:copy_time", "epoch_time:train_total",
                 "epoch_time:total">>, Each("num_worker", UpTo8),
               "BOOL_pipeline", "no_pipeline", "pipeline"))

SgnnDglOneGpu ==
  Group("samgraph/sgnn_dgl", Chain(AutoStart, SgnnDglRuns(Range(SmallSets), <<1>>, <<"pipeline">>)),
    UniformTable(<<"epoch_time:total">>,
      [d \in 1..3 |-> [num_worker |-> 1, dataset |-> TableOrder[d]]]))

-------------------------------------------------------------------------------
(* run_dgl.py and run_pyg.py: the baselines.                                 *)
DglMotivation == Group("dgl/multi_gpu", Chain(AutoStart,
  << Select("app", {"gcn"}), Select("dataset", {"papers100M"}), AutoEpochs,
     Override("num_sampling_worker", <<24>>),
     Override("BOOL_use_gpu_sampling", <<"use_gpu_sampling", "no_use_gpu_sampling">>),
     Override("BOOL_pipelining", <<"no_pipelining">>), Override("devices", <<1>>) >>),
  UniformTable(BaselineTimes, << [BOOL_use_gpu_sampling |-> "use_gpu_sampling"],
                            [BOOL_use_gpu_sampling |-> "no_use_gpu_sampling"] >>))

(* UK-2006-05 and PinSAGE only check their options here, and print no number. *)
DglBreakdownTable ==
  UniformTable(<<"sample_time", "copy_time", "train_time">>, Grid(Models, ChainOrder))

DglBreakdown == Group("dgl/multi_gpu", Chain(AutoStart,
  << Select("app", Range(Models)), AutoEpochs,
     Combo("app", {"pinsage"}, "num_sampling_worker", <<40>>) >> \o Fanouts \o
  << Combo("app", {"gcn", "graphsage"}, "BOOL_use_gpu_sampling", <<"use_gpu_sampling">>),
     Override("BOOL_pipelining", <<"no_pipelining">>), Override("devices", <<1>>),
     Combo("dataset", {"uk-2006-05"}, "BOOL_validate_configs", <<"validate_configs">>),
     Combo("app", {"pinsage"}, "BOOL_validate_configs", <<"validate_configs">>) >>),
  DglBreakdownTable)

DglPinsageBreakdown == Group("dgl/multi_gpu", Chain(AutoStart,
  << Select("app", {"pinsage"}), AutoEpochs,
     Override("BOOL_use_gpu_sampling", <<"use_gpu_sampling">>),
     Override("BOOL_pipelining", <<"no_pipelining">>), Override("devices", <<1>>) >>),
  UniformTable(<<"sample_time", "copy_time", "train_time">>, Grid(<<"pinsage">>, TableOrder)))

DglScaling(dataset, switches) ==
  << Select("app", {"gcn"}), Select("dataset", {dataset}), Override("fanout", <<"5 10 15">>),
     AutoEpochs, Override("devices", UpTo8), Override("BOOL_pipelining", switches),
     Override("BOOL_use_gpu_sampling", <<"use_gpu_sampling">>) >>

DglScalabilityTable ==
  SplitTable(BaselineTimes, Each("devices", UpTo8),
             "BOOL_pipelining", "no_pipelining", "pipelining")

DglScalability == Group("dgl/multi_gpu",
  Chain(AutoStart, DglScaling("papers100M", <<"pipelining", "no_pipelining">>)), DglScalabilityTable)

DglScalabilityTwitter == Group("dgl/multi_gpu",
  Chain(AutoStart, DglScaling("twitter", <<"pipelining">>)),
  UniformTable(<<"epoch_time">>, Each("devices", UpTo8)))

AllGpus(conversions) == << AutoEpochs >> \o conversions \o << Override("devices", <<8>>) >>

DglOverall == Group("dgl/multi_gpu", Chain(AutoStart,
  << Select("app", {"gcn", "graphsage"}), Select("dataset", Range(SmallSets)) >>
  \o AllGpus(<< Override("BOOL_use_gpu_sampling", <<"use_gpu_sampling">>),
                Override("BOOL_pipelining", <<"pipelining">>) >>)),
  UniformTable(<<"epoch_time">>, Grid(<<"gcn", "graphsage">>, SmallSets)))

DglPinsageOverall == Group("dgl/multi_gpu", Chain(AutoStart,
  << Select("app", {"pinsage"}) >>
  \o AllGpus(<< Override("BOOL_use_gpu_sampling", <<"use_gpu_sampling">>),
                Override("BOOL_pipelining", <<"pipelining">>) >>)),
  UniformTable(<<"epoch_time">>, Grid(<<"pinsage">>, TableOrder)))

(* All twelve configurations run, the table shows six of them.               *)
DglCpuOverall == Group("dgl/multi_gpu", Chain(AutoStart,
  AllGpus(<< Combo("app", {"pinsage"}, "num_epoch", <<1>>) >>) \o
  << Override("num_sampling_worker", <<24>>), Override("BOOL_pipelining", <<"pipelining">>),
     Combo("app", {"gcn", "graphsage"}, "BOOL_use_gpu_sampling", <<"no_use_gpu_sampling">>) >>),
  UniformTable(<<"epoch_time">>, Grid(<<"gcn", "graphsage">>, SmallSets)))

DglMotivation2 == Group("dgl/multi_gpu", Chain(AutoStart,
  << Select("app", {"gcn"}), Select("dataset", {"papers100M"}), Override("num_epoch", <<3>>),
     Override("devices", <<8>>), Override("num_sampling_worker", <<40>>),
     Override("BOOL_pipelining", <<"no_pipelining">>),
     Override("BOOL_use_gpu_sampling", <<"no_use_gpu_sampling">>) >>),
  UniformTable(BaselineTimes, << [app |-> "gcn"] >>))

PygRuns(switches, devices) ==
  << Select("app", {"gcn", "graphsage"}), AutoEpochs, Override("BOOL_pipelining", switches),
     Override("num_sampling_worker", <<40>>), Override("devices", <<devices>>) >>

PygOverallTable ==
  SplitTable(<<"sample_time", "copy_time", "train_time", "epoch_time">>,
             Grid(<<"gcn", "graphsage">>, TableOrder),
             "BOOL_pipelining", "no_pipelining", "pipelining")

PygOverall == Group("pyg/multi_gpu",
  Chain(AutoStart, PygRuns(<<"pipelining", "no_pipelining">>, 8)), PygOverallTable)

PygBreakdown == Group("pyg/multi_gpu", Chain(AutoStart, PygRuns(<<"no_pipelining">>, 1)),
  SplitTable(BaselineTimes, Grid(<<"gcn", "graphsage">>, TableOrder),
             "BOOL_pipelining", "no_pipelining", "no_pipelining"))
===============================================================================
