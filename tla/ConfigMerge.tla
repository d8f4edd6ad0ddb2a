------------------------------ MODULE ConfigMerge ------------------------------
(***************************************************************************)
(* config.Load: the defaults, the flags, the YAML file and the CLUSTERCOST *)
(* variables of the environment, merged into one configuration.            *)
(*                                                                         *)
(* The fields kept are those the start of the agent branches on and one of *)
(* every kind the merge treats differently.  A source is a function from   *)
(* the fields it mentions: flags and file to values, the environment to    *)
(* records [ok, value], where ok says whether the variable parses (a text  *)
(* always does).  Paths and names are short texts; lower-casing,           *)
(* durations, the lists of EnvironmentConfig and the AWS price table,      *)
(* which only a file changes and main does not read, are left out.         *)
(***************************************************************************)
EXTENDS Integers

Texts    == {"clusterId", "clusterName", "region", "nodeName", "metricsPath", "flowsPath"}
Switches == {"metricsEnabled", "networkEnabled", "gzipEnabled"}
Numbers  == {"scrapeInterval", "maxRetries", "cpuPrice"}
Fields   == Texts \cup Switches \cup Numbers \cup {"egressPrices"}

PlaceholderName == "kubernetes"

DefaultConfig ==
    [clusterId |-> "", clusterName |-> PlaceholderName, region |-> "us-east-1", nodeName |-> "",
     metricsPath |-> "metrics", flowsPath |-> "flows",
     metricsEnabled |-> TRUE, networkEnabled |-> FALSE, gzipEnabled |-> TRUE,
     scrapeInterval |-> 60, maxRetries |-> 5, cpuPrice |-> 46, egressPrices |-> << >>]

(* What yaml.Unmarshal leaves in a field the file does not mention. *)
ZeroConfig ==
    [f \in Fields |-> CASE f \in Texts    -> ""
                        [] f \in Switches -> FALSE
                        [] f \in Numbers  -> 0
                        [] OTHER          -> << >>]

(* The values a field may have: whatever its flag, its field of the YAML file or
   its variable is parsed into. *)
HasType(f, v) == (f \in Switches => v \in BOOLEAN) /\ (f \in Numbers => v \in Int)

-----------------------------------------------------------------------------
(* Mistakes the properties are tested against. *)

(* The file's value is taken even where the file has none. *)
MergeNumber_Always(base, override) == override

-----------------------------------------------------------------------------
(* What above says, and below where above says nothing. *)
Overlay(above, below) ==
    [f \in DOMAIN above \cup DOMAIN below |-> IF f \in DOMAIN above THEN above[f] ELSE below[f]]

(* fs.Parse writes the flags into the defaults, an empty text or a zero too. *)
ParseFlags(flags) == Overlay(flags, DefaultConfig)

(* A zero value in the file stands for "not mentioned": a file switches things
   on, never off, and sets no number to 0; prices are added class by class. *)
MergeText(base, override)   == IF override = "" THEN base ELSE override
MergeSwitch(base, override) == base \/ override
MergeNumber(base, override) == IF override = 0 THEN base ELSE override
MergePrices(base, override) == Overlay(override, base)

MergeFile(base, file) ==
    LET override == Overlay(file, ZeroConfig)
    IN [f \in Fields |->
          CASE f \in Texts    -> MergeText(base[f], override[f])
            [] f \in Switches -> MergeSwitch(base[f], override[f])
            [] f \in Numbers  -> MergeNumber(base[f], override[f])
            [] OTHER          -> MergePrices(base[f], override[f])]

(* A variable counts when it is not empty and parses; prices replace the
   table as a whole. *)
Counts(env, f) == f \in DOMAIN env /\ env[f].ok /\ (f \in Texts => env[f].value # "")
ApplyEnv(base, env) == [f \in Fields |-> IF Counts(env, f) THEN env[f].value ELSE base[f]]

(* The id defaults to the name and the name to the id. *)
SyncNames(c) ==
    LET id == IF c.clusterId = "" THEN c.clusterName ELSE c.clusterId
    IN [c EXCEPT !.clusterId = id, !.clusterName = IF @ = "" THEN id ELSE @]

Valid(c) == c.cpuPrice >= 0 /\ \A k \in DOMAIN c.egressPrices : c.egressPrices[k] >= 0

ClampInterval(c) == [c EXCEPT !.scrapeInterval = IF @ < 5 THEN 5 ELSE @]

Merged(flags, file, env) == ApplyEnv(MergeFile(ParseFlags(flags), file), env)

Load(flags, file, env) == ClampInterval(SyncNames(Merged(flags, file, env)))
Accepted(flags, file, env) == Valid(Merged(flags, file, env))
=============================================================================
