------------------------------ MODULE ConfigList ------------------------------
(* The list of run configurations an experiment builds and the table it fills  *)
(* from their logs: example/auto_runner/common.py (exp/common/runner_helper2.py *)
(* repeats it).  A configuration is a function from the name of a parameter to  *)
(* its value; a conversion of the list is a record that Chain applies in turn.  *)
(* A cache percentage is written in percent: 21 stands for 0.21 and for '0.21'. *)
EXTENDS Naturals, Sequences, SequencesExt, TLC

-------------------------------------------------------------------------------
(* Every model with every data set, model by model.                            *)
Grid(apps, datasets) ==
  FlattenSeq([a \in DOMAIN apps |->
    [d \in DOMAIN datasets |-> [app |-> apps[a], dataset |-> datasets[d]]]])

(* The twelve configurations every list starts from.                           *)
InitialList(datasets) == Grid(<<"gcn", "graphsage", "pinsage">>, datasets)

Has(cfg, key, vals) == key \in DOMAIN cfg /\ cfg[key] \in vals

(* sel maps a parameter to the values that select; "and" wants all of them.    *)
Chosen(cfg, how, sel) ==
  IF how = "and" THEN \A key \in DOMAIN sel : Has(cfg, key, sel[key])
                 ELSE \E key \in DOMAIN sel : Has(cfg, key, sel[key])

-------------------------------------------------------------------------------
(* The conversions.  "new" lists the assignments to make: the chosen           *)
(* configurations are copied once for each of them, list by list ("lists") or  *)
(* configuration by configuration ("copies"), behind those not chosen.         *)
Conversion(kind, how, sel, new) == [kind |-> kind, how |-> how, sel |-> sel, new |-> new]

Each(key, vals) == [v \in DOMAIN vals |-> key :> vals[v]]

Select(key, vals) == Conversion("select", "and", key :> vals, << >>)

Override(key, vals) == Conversion("lists", "and", << >>, Each(key, vals))

Combo(key, vals, newKey, newVals) ==
  Conversion("lists", "and", key :> vals, Each(newKey, newVals))

MultiCombo(how, sel, newKey, newVals) == Conversion("lists", how, sel, Each(newKey, newVals))

MultiComboMultiOverride(how, sel, new) == Conversion("copies", how, sel, <<new>>)

MultiComboMultiOverrideList(how, sel, news) == Conversion("copies", how, sel, news)

Apply(list, c) ==
  LET chosen == SelectSeq(list, LAMBDA cfg : Chosen(cfg, c.how, c.sel))
      others == SelectSeq(list, LAMBDA cfg : ~Chosen(cfg, c.how, c.sel))
      byList == [n \in DOMAIN c.new |-> [i \in DOMAIN chosen |-> c.new[n] @@ chosen[i]]]
      byCopy == [i \in DOMAIN chosen |-> [n \in DOMAIN c.new |-> c.new[n] @@ chosen[i]]]
  IN  CASE c.kind = "select"                     -> chosen
        [] c.kind = "lists"  /\ c.new = << >>    -> list
        [] c.kind = "copies" /\ c.new = << >>    -> list
        [] c.kind = "lists"  /\ c.new # << >>    -> others \o FlattenSeq(byList)
        [] c.kind = "copies" /\ c.new # << >>    -> others \o FlattenSeq(byCopy)

Chain(list, conversions) == FoldLeft(Apply, list, conversions)

-------------------------------------------------------------------------------
(* A table names the metric of each column and, cell by cell, the parameters   *)
(* that pick the one configuration the number comes from.                      *)
Table(cols, rows) == [cols |-> cols, rows |-> rows]

(* One row definition for all columns.                                         *)
Uniform(params, cols) == [j \in DOMAIN cols |-> params]

UniformTable(cols, defs) == Table(cols, [i \in DOMAIN defs |-> Uniform(defs[i], cols)])

(* All columns but the last show the run with "off", the last that with "on".  *)
SplitTable(cols, defs, key, off, on) ==
  Table(cols, [i \in DOMAIN defs |->
    [j \in DOMAIN cols |-> defs[i] @@ (key :> IF j < Len(cols) THEN off ELSE on)]])

Cells(table) == (DOMAIN table.rows) \X (DOMAIN table.cols)

Match(list, params) ==
  {i \in DOMAIN list : \A key \in DOMAIN params : Has(list[i], key, {params[key]})}

CellMatch(list, table, cell) == Match(list, table.rows[cell[1]][cell[2]])

-------------------------------------------------------------------------------
(* Chains that many experiments share.                                         *)
Models == <<"gcn", "graphsage", "pinsage">>

SampleTypes ==
  << Combo("app", {"gcn", "graphsage"}, "sample_type", <<"khop2">>),
     Combo("app", {"pinsage"}, "sample_type", <<"random_walk">>) >>

Fanouts == << Combo("app", {"gcn"}, "fanout", <<"5 10 15">>),
              Combo("app", {"graphsage"}, "fanout", <<"25 10">>) >>

(* The order in which the chains below treat the data sets.                    *)
ChainOrder == <<"products", "papers100M", "twitter", "uk-2006-05">>

Of(app, d) == [app |-> {app}, dataset |-> {ChainOrder[d]}]

(* One cache percentage for each data set.                                     *)
CacheRatios(app, ratios) ==
  [d \in DOMAIN ratios |-> MultiCombo("and", Of(app, d), "cache_percentage", <<ratios[d]>>)]

(* The cache percentage and the split of the eight GPUs for each data set.     *)
Splits(app, splits) ==
  [d \in DOMAIN splits |->
     MultiComboMultiOverride("and", Of(app, d),
       [cache_percentage  |-> splits[d][1],
        num_sample_worker |-> splits[d][2], num_train_worker |-> splits[d][3]])]

(* One to three samplers beside as many trainers as eight GPUs leave room for. *)
WorkerGrid ==
  FlattenSeq([s \in 1..3 |->
    [t \in 1..(8 - s) |-> [num_sample_worker |-> s, num_train_worker |-> t]]])

(* The same grid with a switch and the cache percentage that still fits.       *)
Scaled(switch, Ratio(_, _)) ==
  [i \in DOMAIN WorkerGrid |->
     WorkerGrid[i] @@
     [BOOL_pipeline    |-> switch,
      cache_percentage |-> Ratio(WorkerGrid[i].num_sample_worker,
                                 WorkerGrid[i].num_train_worker)]]

(* A devices list '0 1 .. n-1' is written as n.                                *)
UpTo8 == <<1, 2, 3, 4, 5, 6, 7, 8>>

(* The cache percentages with which a GCN fits beside s samplers and t trainers. *)
Papers100MRatio(s, t) == IF s = 3 /\ t \in 2..4 THEN 19 ELSE 20

TwitterRatio(s, t) ==
  CASE <<s, t>> \in {<<2, 3>>, <<2, 6>>} -> 18
    [] <<s, t>> \in {<<2, 5>>, <<3, 5>>} -> 19
    [] OTHER                            -> 20

(* What DGL and PyG are measured by.                                           *)
BaselineTimes == <<"sample_time", "copy_time", "train_time", "epoch_time">>

-------------------------------------------------------------------------------
(* A group of runs: the scripts are those of the directory dir below example/, *)
(* the logs are kept in a directory of the group's own.                        *)
Group(dir, list, table) == [dir |-> dir, list |-> list, table |-> table]

(* What form_cmd puts on the command line: the switches named by the values of *)
(* the BOOL_ parameters, and an option for every other one.  Underscores and   *)
(* hyphens become the same option.                                             *)
Switches == {"BOOL_pipeline", "BOOL_pipelining", "BOOL_use_gpu_sampling",
             "BOOL_validate_configs"}

OptionName(key) ==
  CASE key = "omp-thread-num" -> "omp_thread_num"
    [] key = "cache-policy"   -> "cache_policy"
    [] OTHER                  -> key

Options(cfg) == {cfg[key] : key \in DOMAIN cfg \cap Switches}
                  \cup {OptionName(key) : key \in DOMAIN cfg \ (Switches \cup {"app"})}
===============================================================================
