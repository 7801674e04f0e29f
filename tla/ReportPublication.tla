-------------------------- MODULE ReportPublication --------------------------
(***************************************************************************)
(* How the suite (suite/__main__.py) and the trial                         *)
(* (synchronome_trial/__main__.py) publish a report: inputs are read and   *)
(* fingerprinted, everything is built in a directory of its own, and then  *)
(* copied into the output directory, file by file in no particular order.  *)
(* Inputs may grow meanwhile; a run may fail or be killed anywhere.        *)
(*                                                                         *)
(* An input is its version; a file of the output says which run it is of   *)
(* and, in the summary, what the run read and what it fingerprinted.       *)
(***************************************************************************)
EXTENDS Integers, FiniteSets, FiniteSetsExt, TLC

CONSTANTS
    None,
    Inputs,   \* pcps, pcsw
    Always, Optional, \* tables and plots, and those some settings add
    MaxRuns, MaxGrowth \* bounds

PublicationAssumption == {MaxRuns, MaxGrowth} \subseteq Nat /\ IsFiniteSet(Inputs) /\ Always \cap Optional = {}

VARIABLES
    version, \* of each input
    run,     \* number of the run
    job,     \* [kind, at, read, prints, stage, left], None between runs
    out,     \* file -> what is in the output directory
    done     \* the run that ended last as it should

pubvars == <<version, run, job, out, done>>

Summary == "summary"
Published == Summary \in DOMAIN out /\ out[Summary].whole

Init ==
    /\ version = [i \in Inputs |-> 1] /\ run = 0 /\ job = None
    /\ out = <<>> /\ done = 0

\* The recording goes on, or the file is replaced.
Grow ==
    /\ FoldSet(LAMBDA i, n : n + version[i], 0, Inputs) < Cardinality(Inputs) + MaxGrowth
    /\ \E i \in Inputs : version' = [version EXCEPT ![i] = @ + 1]
    /\ UNCHANGED <<run, job, out, done>>

Begin(kind) ==
    /\ job = None /\ run < MaxRuns
    /\ run' = run + 1
    /\ job' = [kind |-> kind, at |-> "begun", read |-> <<>>, prints |-> <<>>, stage |-> {}, left |-> {}]
    /\ UNCHANGED <<version, out, done>>

To(at) == [job EXCEPT !.at = at]
At(at) == job # None /\ job.at = at

\* One input after the other.  The suite reads first and fingerprints what is there once the
\* analysis is done; the trial fingerprints first.
Take(field, from, to) ==
    /\ At(from)
    /\ LET have == DOMAIN job[field]
       IN  \/ \E i \in Inputs \ have : job' = [job EXCEPT ![field] = (i :> version[i]) @@ @]
           \/ have = Inputs /\ job' = To(to)
    /\ UNCHANGED <<version, run, out, done>>

Read ==
    \/ job # None /\ job.kind = "suite" /\ Take("read", "begun", "read")
    \/ job # None /\ job.kind = "trial" /\ Take("read", "printed", "ready")
Fingerprint ==
    \/ job # None /\ job.kind = "suite" /\ Take("prints", "read", "ready")
    \/ job # None /\ job.kind = "trial" /\ Take("prints", "begun", "printed")

\* Tables, plots and report are written to the staging directory.
Stage ==
    /\ At("ready")
    /\ \E some \in SUBSET Optional : job' = [job EXCEPT !.at = "staged", !.stage = Always \cup some]
    /\ UNCHANGED <<version, run, out, done>>

\* The trial looks at its inputs again; then the summary says that it is complete.
Unchanged == job.kind = "trial" => job.prints = version
Complete ==
    /\ At("staged") /\ Unchanged
    /\ job' = [job EXCEPT !.at = "copying", !.stage = @ \cup {Summary}, !.left = job.stage \cup {Summary}]
    /\ UNCHANGED <<version, run, out, done>>

\* copytree(..., dirs_exist_ok=True): what is there under another name stays.
File(whole) == [run |-> run, kind |-> job.kind, read |-> job.read, prints |-> job.prints, names |-> job.stage, whole |-> whole]
Put(f, whole) == out' = (f :> File(whole)) @@ out
Copy ==
    /\ At("copying")
    /\ \E f \in job.left : Put(f, TRUE) /\ job' = [job EXCEPT !.left = @ \ {f}]
    /\ UNCHANGED <<version, run, done>>

Finish ==
    /\ At("copying") /\ job.left = {}
    /\ job' = None /\ done' = run
    /\ UNCHANGED <<version, run, out>>

\* An exception or a kill; a kill may cut a file.
Fail ==
    /\ job # None /\ job' = None
    /\ \/ UNCHANGED out
       \/ job.at = "copying" /\ \E f \in job.left : Put(f, FALSE)
    /\ UNCHANGED <<version, run, done>>

Next ==
    \/ Grow \/ (\E kind \in {"suite", "trial"} : Begin(kind))
    \/ Read \/ Fingerprint \/ Stage \/ Complete \/ Copy \/ Finish \/ Fail

Spec == Init /\ [][Next]_pubvars
-----------------------------------------------------------------------------
\* A report that was completed stays as it was until another run has everything it needs for
\* its own: failures of reading, fitting, plotting and exporting do not touch it.
EarlierReportStays ==
    done > 0 /\ (done = run \/ (done = run - 1 /\ job # None /\ job.at # "copying")) =>
        /\ Published /\ out[Summary].run = done
        /\ \A f \in out[Summary].names : f \in DOMAIN out /\ out[f].whole /\ out[f].run = done

\* The fingerprints of a report of the trial are those of the inputs it was made from.  The
\* suite reads first: its fingerprints are of the same or later contents.
FingerprintsAreOfInputs ==
    Published =>
        LET s == out[Summary]
        IN  IF s.kind = "trial" THEN s.prints = s.read
            ELSE \A i \in Inputs : s.prints[i] >= s.read[i]
=============================================================================
