---------------------------- MODULE ScriptInterface ----------------------------
(* What the training scripts that the experiments start take on their command   *)
(* line and print as test_result: lines.  Result names that no experiment asks   *)
(* for (init:..., ...nbytes, batch_...) are left out.                            *)
EXTENDS ConfigList

-------------------------------------------------------------------------------
(* example/samgraph/common_config.py.                                            *)
CommonOptions ==
  {"sample_type", "pipeline", "no_pipeline", "root_path", "dataset", "cache_policy",
   "cache_percentage", "max_sampling_jobs", "max_copying_jobs", "num_epoch", "batch_size",
   "num_hidden", "barriered_epoch", "presample_epoch", "omp_thread_num",
   "validate_configs", "log_level", "profile_level", "empty_feat"}

ModeOptions(mode) ==
  CASE mode = "FGNN"                -> {"num_train_worker", "num_sample_worker", "single_gpu"}
    [] mode \in {"SGNN", "SGNN_DGL"} -> {"num_worker"}
    [] mode = "NORMAL"              -> {"arch", "override_device", "override_train_device",
                                        "override_sample_device"}

DatasetList == {"papers100M", "com-friendster", "reddit", "products", "twitter", "uk-2006-05",
                "papers100M_empty", "papers100M_300", "papers100M_600"}

(* samgraph/common/__init__.py: the values that name an enumerator.              *)
Archs == {"arch0", "arch1", "arch2", "arch3", "arch4", "arch5", "arch6", "arch7"}

RandomWalks == {"random_walk"}

KHops == {"khop0", "khop1", "khop2", "weighted_khop", "weighted_khop_prefix",
          "weighted_khop_hash_dedup"}

CachePolicies == {"degree", "heuristic", "pre_sample", "degree_hop", "presample_static",
                  "fake_optimal", "dynamic_cache", "random"}

ChoiceOf == [dataset |-> DatasetList, sample_type |-> KHops \cup RandomWalks,
             cache_policy |-> CachePolicies, arch |-> Archs]

(* Counts that must not be zero, and the range of the cache percentage.          *)
ConfigHolds(cfg) ==
  /\ \A key \in DOMAIN cfg \cap {"num_sample_worker", "num_train_worker", "num_worker",
                                 "max_sampling_jobs", "max_copying_jobs", "devices"} :
       cfg[key] > 0
  /\ "cache_percentage" \in DOMAIN cfg => cfg.cache_percentage \in 0..10000

-------------------------------------------------------------------------------
(* A script: its options, the sampling it starts with and the sampling it wants, *)
(* what it prints always and what only with pipeline.                            *)
Script(options, default, wants, prints, pipelined) ==
  [options |-> options, default |-> default, wants |-> wants,
   prints |-> prints, pipelined |-> pipelined]

KHopOptions == {"fanout", "lr", "dropout"}
WalkOptions == {"random_walk_length", "random_walk_restart_prob", "num_random_walk",
                "num_neighbor", "num_layer", "lr", "dropout"}

(* example/samgraph/multi_gpu.                                                   *)
FgnnSamplerPrints == {"sample_time", "get_cache_miss_index_time", "enqueue_samples_time",
                      "epoch_time:sample_total"}
FgnnTrainerPrints == {"epoch_time:copy_time", "convert_time", "train_time",
                      "epoch_time:train_total", "cache_percentage", "cache_hit_rate", "run_time"}
FgnnPrints == FgnnSamplerPrints \cup FgnnTrainerPrints
FgnnPipelined == {"pipeline_sample_epoch_time", "pipeline_train_epoch_time"}
FgnnOptions == CommonOptions \cup ModeOptions("FGNN")

FgnnGcn ==
  Script(FgnnOptions \cup KHopOptions \cup {"weight_decay"}, "khop2", KHops,
         FgnnPrints, FgnnPipelined)
FgnnGraphsage ==
  Script(FgnnOptions \cup KHopOptions \cup {"report_acc"}, "khop2", KHops,
         FgnnPrints, FgnnPipelined)
FgnnPinsage ==
  Script(FgnnOptions \cup WalkOptions \cup {"no_ddp"}, "random_walk", RandomWalks,
         FgnnPrints, FgnnPipelined)

(* example/samgraph/sgnn.                                                        *)
SgnnPrints == {"sample_time", "get_cache_miss_index_time", "epoch_time:sample_total",
               "epoch_time:copy_time", "convert_time", "train_time", "epoch_time:train_total",
               "cache_percentage", "cache_hit_rate", "epoch_time:total", "run_time"}
SgnnOptions == CommonOptions \cup ModeOptions("SGNN")

SgnnGcn ==
  Script(SgnnOptions \cup KHopOptions \cup {"weight_decay"}, "khop2", KHops, SgnnPrints, {})
SgnnGraphsage ==
  Script(SgnnOptions \cup KHopOptions \cup {"report_acc"}, "khop2", KHops, SgnnPrints, {})
SgnnPinsage ==
  Script(SgnnOptions \cup WalkOptions, "random_walk", RandomWalks, SgnnPrints, {})

(* example/samgraph/sgnn_dgl and example/samgraph.                               *)
SgnnDglPrints == {"epoch_time:sample_time", "epoch_time:copy_time", "convert_time",
                  "train_time", "epoch_time:train_total", "epoch_time:total", "run_time"}

SgnnDglPinsage ==
  Script(CommonOptions \cup ModeOptions("SGNN_DGL") \cup WalkOptions, "random_walk",
         RandomWalks, SgnnDglPrints, {})

LocalPrints == {"epoch_time:sample_time", "epoch_time:copy_time", "convert_time", "train_time",
                "epoch_time:train_total", "cache_percentage", "cache_hit_rate",
                "epoch_time:total"}

LocalGcn ==
  Script(CommonOptions \cup ModeOptions("NORMAL") \cup KHopOptions \cup {"weight_decay"},
         "khop2", KHops, LocalPrints, {})

(* example/dgl/multi_gpu and example/pyg/multi_gpu: no sampling type to choose.  *)
BaselineOptions == {"devices", "dataset", "root_path", "pipelining", "no_pipelining",
                    "num_sampling_worker", "num_epoch", "num_hidden", "batch_size", "lr",
                    "dropout", "validate_configs"}
DglOptions == BaselineOptions \cup {"use_gpu_sampling", "no_use_gpu_sampling"}
BaselinePrints == {"epoch_time", "sample_time", "copy_time", "train_time"}

DglGcn       == Script(DglOptions \cup {"fanout", "weight_decay"}, "khop2", KHops,
                       BaselinePrints, {})
DglGraphsage == Script(DglOptions \cup {"fanout", "report_acc"}, "khop2", KHops,
                       BaselinePrints, {})
DglPinsage   == Script(DglOptions \cup WalkOptions, "random_walk", RandomWalks,
                       BaselinePrints, {})
PygGcn       == Script(BaselineOptions \cup {"fanout", "weight_decay"}, "khop2", KHops,
                       BaselinePrints, {})
PygGraphsage == Script(BaselineOptions \cup {"fanout"}, "khop2", KHops, BaselinePrints, {})

(* The files train_<app>.py of each directory.                                   *)
Scripts ==
  ("samgraph/multi_gpu" :>
     [gcn |-> FgnnGcn, graphsage |-> FgnnGraphsage, pinsage |-> FgnnPinsage])
  @@ ("samgraph/sgnn" :>
     [gcn |-> SgnnGcn, graphsage |-> SgnnGraphsage, pinsage |-> SgnnPinsage])
  @@ ("samgraph/sgnn_dgl" :> [pinsage |-> SgnnDglPinsage])
  @@ ("samgraph" :> [gcn |-> LocalGcn])
  @@ ("dgl/multi_gpu" :>
     [gcn |-> DglGcn, graphsage |-> DglGraphsage, pinsage |-> DglPinsage])
  @@ ("pyg/multi_gpu" :> [gcn |-> PygGcn, graphsage |-> PygGraphsage])

-------------------------------------------------------------------------------
(* The script takes the command line of the configuration: it exists, knows      *)
(* every option, and none of its choices and assertions refuses a value.         *)
Accepts(dir, cfg) ==
  /\ cfg.app \in DOMAIN Scripts[dir]
  /\ LET script == Scripts[dir][cfg.app]
         type   == IF "sample_type" \in DOMAIN cfg THEN cfg.sample_type ELSE script.default
     IN  /\ Options(cfg) \subseteq script.options
         /\ \A key \in DOMAIN cfg \cap DOMAIN ChoiceOf : cfg[key] \in ChoiceOf[key]
         /\ type \in script.wants
         /\ ConfigHolds(cfg)

(* The results of a complete run.  A script that only checks its options exits   *)
(* before it trains.                                                             *)
Prints(dir, cfg) ==
  LET script == Scripts[dir][cfg.app]
  IN  IF "validate_configs" \in Options(cfg) THEN {}
      ELSE script.prints \cup IF "pipeline" \in Options(cfg) THEN script.pipelined ELSE {}

(* The script may return zero although a worker failed: it starts worker         *)
(* processes and asks samgraph_wait_one_child or wait_and_join how they ended.   *)
(* With one worker, sgnn and dgl run it in the process of the script.            *)
HidesFailures(dir, cfg) ==
  /\ "validate_configs" \notin Options(cfg)
  /\ \/ dir = "samgraph/multi_gpu"
     \/ /\ dir \in {"samgraph/sgnn", "samgraph/sgnn_dgl"}
        /\ "num_worker" \in DOMAIN cfg /\ cfg.num_worker > 1
     \/ /\ dir = "dgl/multi_gpu"
        /\ "devices" \in DOMAIN cfg => cfg.devices > 1
===============================================================================
