---------------------------- MODULE AnalysisPlan ----------------------------
(***************************************************************************)
(* What an offline run of the canonical analysis decides to do             *)
(* (planner.py, modules.py, canonical_v2.build_bundle): the configuration  *)
(* is resolved from its layers (config.py, historical_cli.py), the plan    *)
(* gives every analysis a status and a reason, and the tables and results  *)
(* follow the plan.                                                        *)
(*                                                                         *)
(* A layer is a record of settings, None where it is silent.  Columns,     *)
(* days and thresholds are what the decisions read of the data.            *)
(***************************************************************************)
EXTENDS Integers, FiniteSets

CONSTANTS
    None,
    Layers,     \* layers a profile or a project file may hold
    Typed,      \* what the command line may give
    Days,       \* durations
    Thresholds, \* [standard, medium_run, long_run]
    Frames      \* columns of PCSW a run may have

PlanAssumption ==
    /\ Days \subseteq Nat
    /\ \A t \in Thresholds : {t.standard, t.medium_run, t.long_run} \subseteq Nat

VARIABLES
    given,   \* the files, the command line and the host
    config,  \* the resolved configuration
    plan,    \* analysis -> [status, reason]
    tables,  \* gated analysis -> "built", or the reason it was not
    results  \* analysis -> [status, warned], the list of results

pvars == <<given, config, plan, tables, results>>
-----------------------------------------------------------------------------
(* The registry (modules.py, columns.py) *)

Entries(names, tier, roles, caps) == {[name |-> n, tier |-> tier, roles |-> roles, caps |-> caps] : n \in names}

Modules ==
    UNION {Entries({"input_provenance", "sanity_checks", "data_quality"}, "core", {}, {}),
           Entries({"basic_interval_statistics", "basic_plots"}, "core", {"period"}, {}),
           Entries({"pcps_timebase_health"}, "core", {}, {"timebase_health"}),
           Entries({"basic_residuals"}, "core", {"residual"}, {}),
           Entries({"allan_deviation"}, "standard", {"period"}, {}),
           Entries({"fft_spectrum", "relationship_summary"}, "standard", {"residual"}, {}),
           Entries({"environmental_correlations"}, "standard", {"residual"}, {"environmental"}),
           Entries({"phase_fold"}, "standard", {"residual"}, {"phase_fold"}),
           Entries({"tick_tock_diagnostics"}, "standard", {"tick_interval", "tock_interval"}, {"tick_tock"}),
           Entries({"block_interval_diagnostics"}, "standard", {"block_interval"}, {"block"}),
           Entries({"time_of_day_fold"}, "medium_run", {"elapsed_time", "residual"}, {}),
           Entries({"daily_summary"}, "medium_run", {"elapsed_time", "period"}, {}),
           Entries({"anomaly_candidates"}, "medium_run", {"residual"}, {}),
           Entries({"weekly_structure", "rolling_stability", "diurnal_harmonic_fit"}, "long_run", {"elapsed_time", "residual"}, {}),
           Entries({"environmental_lag_correlations"}, "long_run", {"elapsed_time", "residual"}, {"environmental"}),
           Entries({"rolling_allan_deviation"}, "long_run", {"elapsed_time", "period"}, {}),
           Entries({"change_point_detection"}, "long_run", {"residual"}, {}),
           Entries({"what_to_investigate_next"}, "long_run", {}, {})}

Names == {m.name : m \in Modules}

\* The analyses build_bundle() computes only when the plan says so.
Gated == {"time_of_day_fold", "daily_summary", "environmental_lag_correlations", "rolling_stability",
          "rolling_allan_deviation", "diurnal_harmonic_fit", "change_point_detection"}

Order == [core |-> 0, standard |-> 1, medium_run |-> 2, long_run |-> 3]
ProfileTier == [core |-> 0, standard |-> 1, medium |-> 2, long |-> 3, full |-> 3]

Candidates ==
    [elapsed_time |-> {"t_s", "pps_t_s"}, period |-> {"full_s"}, residual |-> {"full_resid_us"},
     tick_interval |-> {"half_A_s"}, tock_interval |-> {"half_B_s"}, block_interval |-> {"block_A_s", "block_B_s"}]
EnvColumns == {"temp_C", "humidity_pct", "pressure_hPa"}

\* build_column_map(): of both frames together.
Roles(columns) == {r \in DOMAIN Candidates : Candidates[r] \cap columns # {}}
PcpsColumns(g) == IF g.pcps THEN {"pps_t_s", "cap16", "latency16"} ELSE {}
-----------------------------------------------------------------------------
(* The configuration: defaults, the profile's, the project's, the command line's *)

Defaults == [clock_profile |-> "generic", analysis_profile |-> "auto", force |-> FALSE, enabled |-> {}, disabled |-> {}]
Silent == [s \in DOMAIN Defaults |-> None]
Over(below, above) == [s \in DOMAIN Defaults |-> IF above[s] = None THEN below[s] ELSE above[s]]

\* The parser fills in its own defaults; flags count as given only where they stand alone on
\* the command line, and when none does, all the arguments override.
Arguments(g) == Over(Defaults, g.typed)
Specified(g) == IF g.equals THEN Silent ELSE g.typed
CliLayer(g)  == IF Specified(g) = Silent /\ ~g.other THEN Arguments(g) ELSE Specified(g)

\* The profile whose defaults are a layer is the one the command line names.
ProfileLayer(g) ==
    IF Over(Arguments(g), CliLayer(g)).clock_profile = "synchronome" THEN g.profile ELSE Silent

Resolve(g) == Over(Over(Over(Defaults, ProfileLayer(g)), g.project), CliLayer(g))
-----------------------------------------------------------------------------
(* The plan *)

MaxTier(c, g) ==
    CASE c.force \/ c.analysis_profile = "full" -> Order.long_run
      [] ~c.force /\ c.analysis_profile \notin {"full", "auto"} -> ProfileTier[c.analysis_profile]
      [] OTHER -> CASE g.days >= g.limits.long_run -> Order.long_run
                    [] g.days < g.limits.long_run /\ g.days >= g.limits.medium_run -> Order.medium_run
                    [] OTHER -> IF g.days >= g.limits.standard THEN Order.standard ELSE Order.core

\* derive_capabilities(): the fields are there and the clock's profile gives them a meaning.
Capabilities(c, g) ==
    {cap \in {"tick_tock", "block", "phase_fold", "environmental", "timebase_health"} :
        CASE cap = "tick_tock" -> g.columns \cap {"half_A_s", "half_B_s"} # {} /\ c.clock_profile = "synchronome"
          [] cap = "block" -> g.columns \cap {"block_A_s", "block_B_s"} # {} /\ c.clock_profile = "synchronome"
          [] cap = "phase_fold" -> c.clock_profile = "synchronome"
          [] cap = "environmental" -> g.columns \cap EnvColumns # {}
          [] cap = "timebase_health" -> g.pcps}

MissingInputs(m, g) == m.roles \ Roles(g.columns \cup PcpsColumns(g))
MissingCaps(m, c, g) == m.caps \ Capabilities(c, g)

\* Before the user's overrides.
Judged(m, c, g) ==
    CASE MissingInputs(m, g) # {} -> [status |-> "SKIP", reason |-> "inputs"]
      [] MissingInputs(m, g) = {} /\ MissingCaps(m, c, g) # {} -> [status |-> "SKIP", reason |-> "capabilities"]
      [] OTHER -> CASE Order[m.tier] > MaxTier(c, g) -> [status |-> "SKIP", reason |-> "duration"]
                    [] m.name = "change_point_detection" /\ Order[m.tier] <= MaxTier(c, g) /\ ~g.ruptures ->
                           [status |-> "SKIP", reason |-> "dependency"]
                    [] OTHER -> [status |-> "RUN", reason |-> "tier"]

Planned(m, c, g) ==
    LET j == Judged(m, c, g)
    IN  CASE m.name \in c.disabled -> [status |-> "SKIP", reason |-> "disabled"]
          [] m.name \in c.enabled \ c.disabled ->
                 IF j.reason \in {"inputs", "capabilities"} THEN [status |-> "WARN", reason |-> j.reason]
                 ELSE [status |-> "FORCED", reason |-> "enabled"]
          [] OTHER -> j

PlanFor(c, g) == [n \in Names |-> Planned(CHOOSE m \in Modules : m.name = n, c, g)]
ShouldRun(p, n) == p[n].status \in {"RUN", "FORCED"}
-----------------------------------------------------------------------------
Init ==
    /\ given \in [profile : Layers, project : Layers, typed : Typed, equals : BOOLEAN, other : BOOLEAN, days : Days,
                  limits : Thresholds, columns : Frames, pcps : BOOLEAN, ruptures : BOOLEAN]
    /\ given.equals => given.typed # Silent
    /\ config = None /\ plan = None /\ tables = None /\ results = None

\* run(): the layers are resolved.
Configure ==
    /\ config = None
    /\ config' = Resolve(given)
    /\ UNCHANGED <<given, plan, tables, results>>

\* build_bundle(): the plan, then the tables it allows, then the results.
Bundle ==
    /\ config # None /\ plan = None
    /\ plan' = PlanFor(config, given)
    /\ tables' = [n \in Gated |-> IF ShouldRun(plan', n) THEN "built" ELSE plan'[n].reason]
    /\ results' = [n \in Names |-> [status |-> IF plan'[n].status = "FORCED" THEN "RUN" ELSE plan'[n].status,
                                    warned |-> plan'[n].status \in {"SKIP", "WARN"},
                                    skipped |-> plan'[n].status = "SKIP"]]
    /\ UNCHANGED <<given, config>>

Next == Configure \/ Bundle

Spec == Init /\ [][Next]_pvars
-----------------------------------------------------------------------------
\* A setting comes from the last layer that gives it, the command line's own flags first,
\* when at least one flag stands alone on the command line.
LayersAreOrdered ==
    config # None /\ (given.other \/ (given.typed # Silent /\ ~given.equals)) =>
        \A s \in DOMAIN Defaults :
            config[s] = CASE ~given.equals /\ given.typed[s] # None -> given.typed[s]
                          [] (given.equals \/ given.typed[s] = None) /\ given.project[s] # None -> given.project[s]
                          [] OTHER -> IF ProfileLayer(given)[s] # None THEN ProfileLayer(given)[s] ELSE Defaults[s]

\* No analysis runs without its inputs and capabilities, not even when it is forced, and the
\* reason of one that does not run is true: a recording that is called too short for it is.
ReasonsAreTrue ==
    plan # None => \A m \in Modules :
        LET p == plan[m.name]
        IN  /\ ShouldRun(plan, m.name) => MissingInputs(m, given) = {} /\ MissingCaps(m, config, given) = {}
            /\ p.reason = "disabled" <=> m.name \in config.disabled
            /\ p.reason = "duration" /\ config.analysis_profile = "auto" => given.days < given.limits[m.tier]
            /\ p.reason = "dependency" => ~given.ruptures

\* A longer recording gets every analysis a shorter one gets.
LongerGetsMore ==
    plan # None => \A d \in Days : d > given.days =>
        LET longer == PlanFor(config, [given EXCEPT !.days = d]) IN \A n \in Names : ShouldRun(plan, n) => ShouldRun(longer, n)

\* A table without an analysis behind it is not presented as one: its analysis is not
\* reported as run, and the result warns with the reason the table gives.
PlaceholdersAreExplained ==
    plan # None => \A n \in Gated :
        /\ tables[n] = "built" <=> results[n].status = "RUN"
        /\ tables[n] # "built" => results[n].warned /\ tables[n] = plan[n].reason
=============================================================================
