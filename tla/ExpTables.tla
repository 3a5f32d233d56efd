------------------------------- MODULE ExpTables -------------------------------
(* The experiments of exp/table1, table4, table5, fig14a, fig14b and fig15: the *)
(* configurations each group runs, the table its logs fill, and the lines the   *)
(* driver prints from the tables.  A group runs the scripts of the directory    *)
(* "dir" (below example/) and keeps its logs in a directory of its own.         *)
EXTENDS ConfigList

DataSets == <<"products", "twitter", "papers100M", "uk-2006-05">>

ExpStart == InitialList(DataSets)

NUM_EPOCH == 3

ExpEpochs == Override("num_epoch", <<NUM_EPOCH>>)

(* What a line of the output says of the runs it shows.                        *)
Line(label, group, row) == [label |-> label, group |-> group, row |-> row]

(* The lines of some models, each with all data sets, from the rows of the     *)
(* model's group in turn.                                                      *)
ModelLines(apps, groups) ==
  {Line([app |-> apps[m], dataset |-> DataSets[d]], groups[m],
        Len(DataSets) * Cardinality({l \in 1..m - 1 : groups[l] = groups[m]}) + d) :
     m \in DOMAIN apps, d \in DOMAIN DataSets}

-------------------------------------------------------------------------------
(* Table 1: sampling and extraction on one GPU.                                *)
Table1DglTable ==
  UniformTable(BaselineTimes, << [BOOL_use_gpu_sampling |-> "no_use_gpu_sampling"],
                            [BOOL_use_gpu_sampling |-> "use_gpu_sampling"] >>)

Table1Dgl == Group("dgl/multi_gpu", Chain(ExpStart,
  << Select("app", {"gcn"}), Select("dataset", {"papers100M"}), ExpEpochs,
     Override("num_sampling_worker", <<24>>),
     Override("BOOL_use_gpu_sampling", <<"use_gpu_sampling", "no_use_gpu_sampling">>),
     Override("BOOL_pipelining", <<"no_pipelining">>),
     Override("devices", <<1>>) >>), Table1DglTable)

Table1SgnnTable ==
  UniformTable(<<"epoch_time:sample_time", "epoch_time:copy_time", "epoch_time:train_total",
                 "epoch_time:total", "cache_percentage", "cache_hit_rate">>,
    << [arch |-> "arch0", cache_percentage |-> 0], [arch |-> "arch0", cache_percentage |-> 20],
       [arch |-> "arch2", cache_percentage |-> 0], [arch |-> "arch2", cache_percentage |-> 7] >>)

Table1Sgnn == Group("samgraph", Chain(ExpStart,
  << Select("app", {"gcn"}), Select("dataset", {"papers100M"}), ExpEpochs,
     Override("fanout", <<"5 10 15">>),
     Override("BOOL_pipeline", <<"no_pipeline">>),
     Override("omp_thread_num", <<40>>),
     Override("arch", <<"arch0", "arch2">>),
     Override("cache_policy", <<"degree">>),
     Combo("arch", {"arch2"}, "cache_percentage", <<7, 0>>),
     Combo("arch", {"arch0"}, "cache_percentage", <<20, 0>>) >>), Table1SgnnTable)

(* 'DGL', ' w/ GPU-base Sampling'; 'SGNN', ' w/ GPU-base Caching',             *)
(* ' w/ GPU-base Sampling', ' w/ Both'.                                        *)
Table1Lines ==
  {Line([gpu_sampling |-> i = 2], 1, i) : i \in 1..2}
    \cup {Line([gpu_sampling |-> i > 2, gpu_caching |-> i \in {2, 4}], 2, i) : i \in 1..4}

Table1 == [groups |-> <<Table1Dgl, Table1Sgnn>>, lines |-> Table1Lines]

-------------------------------------------------------------------------------
(* Table 4: the time of an epoch on eight GPUs.                                *)
EightGpus == Override("devices", <<8>>)

Table4DglTable == UniformTable(<<"epoch_time">>, Grid(<<"gcn", "graphsage">>, DataSets))

Table4Dgl == Group("dgl/multi_gpu", Chain(ExpStart,
  << Select("app", {"gcn", "graphsage"}), Select("dataset", Range(DataSets)), ExpEpochs, EightGpus,
     Override("BOOL_use_gpu_sampling", <<"use_gpu_sampling">>),
     Override("BOOL_pipelining", <<"pipelining">>) >>), Table4DglTable)

Table4DglPinsageTable ==
  UniformTable(<<"epoch_time">>, [d \in DOMAIN DataSets |-> [dataset |-> DataSets[d]]])

Table4DglPinsage == Group("dgl/multi_gpu", Chain(ExpStart,
  << Select("app", {"pinsage"}), Select("dataset", Range(DataSets)), ExpEpochs,
     Override("BOOL_use_gpu_sampling", <<"use_gpu_sampling">>),
     Override("BOOL_pipeline", <<"pipelining">>), EightGpus >>), Table4DglPinsageTable)

Table4PygTable == UniformTable(<<"epoch_time">>, Grid(<<"gcn", "graphsage">>, DataSets))

Table4Pyg == Group("pyg/multi_gpu", Chain(ExpStart,
  << Select("app", {"gcn", "graphsage"}), ExpEpochs,
     Override("BOOL_pipelining", <<"pipelining">>),
     Override("num_sampling_worker", <<40>>), EightGpus >>), Table4PygTable)

Table4SgnnTable ==
  UniformTable(<<"epoch_time:total", "cache_percentage">>, Grid(Models, DataSets))

Table4Sgnn == Group("samgraph/sgnn", Chain(ExpStart,
  << Select("app", Range(Models)) >> \o SampleTypes \o
  << ExpEpochs, Override("omp-thread-num", <<40>>), Override("cache-policy", <<"degree">>) >>
  \o Fanouts \o
  << Override("BOOL_pipeline", <<"pipeline">>), Override("num_worker", <<8>>) >>
  \o CacheRatios("gcn",       <<100,  4,  1, 0>>)
  \o CacheRatios("graphsage", <<100, 11, 15, 0>>)
  \o CacheRatios("pinsage",   <<100,  6,  4, 0>>)), Table4SgnnTable)

Table4FgnnTable ==
  UniformTable(<<"pipeline_train_epoch_time", "cache_percentage">>, Grid(Models, DataSets))

Table4Fgnn == Group("samgraph/multi_gpu", Chain(ExpStart,
  << Select("app", Range(Models)) >> \o SampleTypes \o
  << ExpEpochs, Override("omp-thread-num", <<40>>) >> \o Fanouts \o
  << Override("BOOL_pipeline", <<"pipeline">>) >>
  \o Splits("gcn",       << <<100, 3, 5>>, <<20, 2, 6>>, <<22, 2, 6>>, <<11, 2, 6>> >>)
  \o Splits("graphsage", << <<100, 4, 4>>, <<24, 2, 6>>, <<31, 2, 6>>, <<16, 1, 7>> >>)
  \o Splits("pinsage",   << <<100, 1, 7>>, <<21, 1, 7>>, <<25, 1, 7>>, << 9, 1, 7>> >>)),
  Table4FgnnTable)

(* One line for each model and data set; DGL's PinSAGE has a table of its own, *)
(* and PyG has none for PinSAGE.                                               *)
Table4Lines ==
  ModelLines(Models, <<1, 1, 2>>)
    \cup ModelLines(<<"gcn", "graphsage">>, <<3, 3>>)
    \cup ModelLines(Models, <<4, 4, 4>>)
    \cup ModelLines(Models, <<5, 5, 5>>)

Table4 == [groups |-> <<Table4Dgl, Table4DglPinsage, Table4Pyg, Table4Sgnn, Table4Fgnn>>,
           lines  |-> Table4Lines]

-------------------------------------------------------------------------------
(* Table 5: where the time of an epoch goes.                                   *)
Table5DglTable == UniformTable(<<"sample_time", "copy_time", "train_time">>,
                               Grid(<<"gcn", "graphsage">>, DataSets))

Table5Dgl == Group("dgl/multi_gpu", Chain(ExpStart,
  << Select("app", {"gcn", "graphsage"}), ExpEpochs >> \o Fanouts \o
  << Combo("app", {"gcn", "graphsage"}, "BOOL_use_gpu_sampling", <<"use_gpu_sampling">>),
     Override("BOOL_pipelining", <<"no_pipelining">>),
     Override("devices", <<1>>) >>), Table5DglTable)

Table5DglPinsageTable == UniformTable(<<"sample_time", "copy_time", "train_time">>,
                                      [d \in DOMAIN DataSets |-> [dataset |-> DataSets[d]]])

Table5DglPinsage == Group("dgl/multi_gpu", Chain(ExpStart,
  << Select("app", {"pinsage"}), Select("dataset", Range(DataSets)), ExpEpochs,
     Override("BOOL_use_gpu_sampling", <<"use_gpu_sampling">>),
     Override("BOOL_pipeline", <<"no_pipelining">>),
     Override("devices", <<1>>) >>), Table5DglPinsageTable)

Table5SgnnTable ==
  UniformTable(<<"epoch_time:sample_total", "sample_time", "get_cache_miss_index_time",
                 "epoch_time:copy_time", "cache_percentage", "cache_hit_rate",
                 "epoch_time:train_total", "train_time", "convert_time">>,
               Grid(Models, DataSets))

Table5Sgnn == Group("samgraph/sgnn", Chain(ExpStart,
  << Select("app", Range(Models)) >> \o SampleTypes \o
  << ExpEpochs, Override("omp-thread-num", <<40>>) >> \o Fanouts \o
  << Override("BOOL_pipeline", <<"no_pipeline">>) >>
  \o CacheRatios("gcn",       <<100,  7,  1, 0>>)
  \o CacheRatios("graphsage", <<100, 11, 15, 0>>)
  \o CacheRatios("pinsage",   <<100,  6,  4, 0>>)), Table5SgnnTable)

Table5FgnnTable ==
  UniformTable(<<"epoch_time:sample_total", "sample_time", "get_cache_miss_index_time",
                 "enqueue_samples_time", "epoch_time:copy_time", "cache_percentage",
                 "cache_hit_rate", "epoch_time:train_total", "train_time", "convert_time">>,
               Grid(Models, DataSets))

Table5Fgnn == Group("samgraph/multi_gpu", Chain(ExpStart,
  << Select("app", Range(Models)) >> \o SampleTypes \o
  << ExpEpochs, Override("omp-thread-num", <<40>>) >> \o Fanouts \o
  << Override("BOOL_pipeline", <<"no_pipeline">>) >>
  \o CacheRatios("gcn",       <<100, 21, 25, 14>>)
  \o CacheRatios("graphsage", <<100, 25, 32, 18>>)
  \o CacheRatios("pinsage",   <<100, 22, 26, 13>>)), Table5FgnnTable)

Table5Lines ==
  ModelLines(Models, <<1, 1, 2>>)
    \cup ModelLines(Models, <<3, 3, 3>>)
    \cup ModelLines(Models, <<4, 4, 4>>)

Table5 == [groups |-> <<Table5Dgl, Table5DglPinsage, Table5Sgnn, Table5Fgnn>>,
           lines  |-> Table5Lines]
-------------------------------------------------------------------------------
(* Figures 14a and 14b: the time of a GCN epoch with one to eight GPUs.        *)
Fig14aDglTable == UniformTable(<<"epoch_time">>, [i \in DOMAIN UpTo8 |-> [devices |-> UpTo8[i]]])

DglScale(dataset) == Chain(ExpStart,
  << Select("app", {"gcn"}), Select("dataset", {dataset}),
     Override("fanout", <<"5 10 15">>), ExpEpochs, Override("devices", UpTo8),
     Override("BOOL_pipelining", <<"pipelining">>),
     Override("BOOL_use_gpu_sampling", <<"use_gpu_sampling">>) >>)

Fig14aDgl == Group("dgl/multi_gpu", DglScale("papers100M"), Fig14aDglTable)

Fig14aFgnnTable == UniformTable(<<"pipeline_train_epoch_time">>, WorkerGrid)

FgnnScale(dataset, settings) == Chain(ExpStart,
  << Select("app", {"gcn"}), Select("dataset", {dataset}),
     Override("sample_type", <<"khop2">>), ExpEpochs, Override("omp-thread-num", <<40>>),
     Combo("app", {"gcn"}, "fanout", <<"5 10 15">>),
     MultiComboMultiOverrideList("and", [app |-> {"gcn"}], settings) >>)

Fig14aFgnn ==
  Group("samgraph/multi_gpu", FgnnScale("papers100M", Scaled("pipeline", Papers100MRatio)),
        Fig14aFgnnTable)

Fig14aSgnnTable ==
  UniformTable(<<"epoch_time:sample_total", "epoch_time:copy_time", "epoch_time:train_total",
                 "epoch_time:total">>, [i \in DOMAIN UpTo8 |-> [num_worker |-> UpTo8[i]]])

SgnnScale(dataset, ratio) == Chain(ExpStart,
  << Select("app", {"gcn"}), Select("dataset", {dataset}), ExpEpochs,
     Override("cache_policy", <<"degree">>), Override("cache_percentage", <<ratio>>),
     Override("num_worker", UpTo8), Override("BOOL_pipeline", <<"no_pipeline">>) >>)

Fig14aSgnn == Group("samgraph/sgnn", SgnnScale("papers100M", 3), Fig14aSgnnTable)

(* The line of n GPUs shows DGL and SGNN on n GPUs, and s samplers with the    *)
(* n - s trainers that are left, in a column of their own for each s.          *)
BaselineLines == {Line([gpus |-> i], g, i) : g \in {1, 2}, i \in 1..8}

FgnnLine(samplers, gpus, row) ==
  Line([gpus |-> gpus, num_sample_worker |-> samplers], 3, row)

(* Mutant: the rows with three samplers are taken from one row too early.       *)
Fig14aLines_RowTooEarly ==
  BaselineLines
    \cup {FgnnLine(1, 1 + i, i) : i \in 1..7}
    \cup {FgnnLine(2, 2 + i - 7, i) : i \in 8..13}
    \cup {FgnnLine(3, 3 + i - 13, i - 1) : i \in 14..18}

Fig14aLines ==
  BaselineLines
    \cup {FgnnLine(1, 1 + i, i) : i \in 1..7}
    \cup {FgnnLine(2, 2 + i - 7, i) : i \in 8..13}
    \cup {FgnnLine(3, 3 + i - 13, i) : i \in 14..18}

Fig14a == [groups |-> <<Fig14aDgl, Fig14aSgnn, Fig14aFgnn>>, lines |-> Fig14aLines]

(* The tables of figure 14b are those of figure 14a, in a file of their own.    *)
Fig14bDglTable  == Fig14aDglTable
Fig14bFgnnTable == Fig14aFgnnTable
Fig14bSgnnTable == Fig14aSgnnTable

Fig14bDgl == Group("dgl/multi_gpu", DglScale("twitter"), Fig14bDglTable)

Fig14bFgnn ==
  Group("samgraph/multi_gpu", FgnnScale("twitter", Scaled("pipeline", TwitterRatio)),
        Fig14bFgnnTable)

Fig14bSgnn == Group("samgraph/sgnn", SgnnScale("twitter", 1), Fig14bSgnnTable)

Fig14bLines == Fig14aLines

Fig14b == [groups |-> <<Fig14bDgl, Fig14bSgnn, Fig14bFgnn>>, lines |-> Fig14bLines]

-------------------------------------------------------------------------------
(* Figure 15: the stages of FGNN measured without the pipeline, the epoch with. *)
Fig15Table ==
  SplitTable(<<"epoch_time:sample_total", "epoch_time:copy_time", "epoch_time:train_total",
               "pipeline_train_epoch_time">>, WorkerGrid,
             "BOOL_pipeline", "no_pipeline", "pipeline")

Fig15Fgnn ==
  Group("samgraph/multi_gpu",
        FgnnScale("papers100M", Scaled("pipeline", Papers100MRatio)
                                  \o Scaled("no_pipeline", Papers100MRatio)), Fig15Table)

(* '"1S 1T"' to '"3S 5T"'.                                                     *)
Fig15Lines == {Line(WorkerGrid[i], 1, i) : i \in DOMAIN WorkerGrid}

Fig15 == [groups |-> <<Fig15Fgnn>>, lines |-> Fig15Lines]

ExpDrivers == [table1 |-> Table1, table4 |-> Table4, table5 |-> Table5,
               fig14a |-> Fig14a, fig14b |-> Fig14b, fig15 |-> Fig15]
===============================================================================
