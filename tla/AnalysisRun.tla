----------------------------- MODULE AnalysisRun -----------------------------
(***************************************************************************)
(* The directory a run of the canonical analysis fills (historical_cli.py, *)
(* artifacts.py, canonical_v2.write_bundle): artifacts are registered and  *)
(* written one after the other, the hashes last but one, the manifest      *)
(* last.  A run may fail or be killed anywhere, also within a write, and   *)
(* the next one uses the same directory, with the same profile or another. *)
(*                                                                         *)
(* A file is the run it is of and what it holds; its hash is the file.     *)
(***************************************************************************)
EXTENDS Integers, Sequences, SequencesExt, FiniteSets, TLC

CONSTANTS
    None,
    Profiles, \* clock profiles
    Tables, Plots, \* slugs of the tables and of the plots of PCSW every profile has
    MaxRuns   \* bound

RunAssumption == MaxRuns \in Nat /\ Profiles # {} /\ IsFiniteSet(Profiles) /\ IsFiniteSet(Tables \cup Plots)

VARIABLES
    run,      \* number of the run
    profile,  \* the profile of the run, None between runs
    at,       \* steps the run has made
    artifacts, \* the registry: what was registered, in order
    dir,      \* path -> file
    done      \* the runs that ended as they should

rvars == <<run, profile, at, artifacts, dir, done>>
-----------------------------------------------------------------------------
(* The order of a run *)

Artifact(ns, type, slug) == [namespace |-> ns, type |-> type, slug |-> slug]
Metadata(slug) == Artifact("metadata", "metadata", slug)
Table(slug)    == Artifact("pcsw", "csv", slug)
Plot(slug)     == Artifact("pcsw", "plot", slug)

Do(op, what) == [op |-> op, what |-> what]
Make(a) == <<Do("register", a), Do("write", a)>>
Each(op, list) == [i \in DOMAIN list |-> Do(op, list[i])]

\* Artifacts a profile adds to those of every run.
Extra(p, list) == IF p = "synchronome" THEN list ELSE <<>>

Bundle(p) ==
    LET tables == [i \in 1..Cardinality(Tables) |-> Table(SetToSeq(Tables)[i])] \o Extra(p, <<Table("jitter_summary"), Table("phase15_jitter")>>)
    IN  FlattenSeq([i \in DOMAIN tables |-> Make(tables[i])]) \o Make(Artifact("combined", "summary", "quality")) \o Make(Artifact("combined", "summary", "results"))

PlotSteps(p) ==
    LET plots == [i \in 1..Cardinality(Plots) |-> Plot(SetToSeq(Plots)[i])] \o Extra(p, <<Plot("phase15_polar")>>)
    IN  Each("register", plots) \o Each("write", plots)

Audit == Each("register", <<Metadata("mask_audit"), Metadata("lineage")>>) \o Each("write", <<Metadata("mask_audit"), Metadata("lineage")>>)

Steps(p) ==
    Make(Metadata("config")) \o <<Do("register", Metadata("provenance")), Do("write", Metadata("provenance"))>>
    \o Bundle(p) \o PlotSteps(p) \o Make(Artifact("report", "report", "canonical")) \o Audit
    \o <<Do("register", Metadata("hashes")), Do("hash", Metadata("hashes")), Do("manifest", None)>>
-----------------------------------------------------------------------------
(* The registry *)

SameKind(a, b) == a.namespace = b.namespace /\ a.type = b.type
Number(list, i) == Cardinality({j \in 1..i : SameKind(list[j], list[i])})

\* _artifact_id() and _relative_path(): reports and metadata have names without a number.
Id(list, i) == <<list[i].namespace, list[i].type, Number(list, i)>>
Path(list, i) ==
    <<list[i].namespace, list[i].type, IF list[i].type \in {"report", "metadata"} THEN None ELSE Number(list, i), list[i].slug>>

PathOf(list, a) == Path(list, CHOOSE i \in DOMAIN list : list[i] = a)
Manifest(list) == {[artifact |-> list[i], id |-> Id(list, i), path |-> Path(list, i)] : i \in DOMAIN list}
ManifestPath == <<"report", "manifest">>
HashesPath == <<"metadata", "metadata", None, "hashes">>

\* _build_hashes(): of every registered artifact that is there.
Hashes == [p \in {e.path : e \in Manifest(artifacts)} \cap DOMAIN dir |-> dir[p]]

File(body, whole) == [run |-> run, body |-> body, whole |-> whole]
Put(path, file) == dir' = (path :> file) @@ dir
-----------------------------------------------------------------------------
Init ==
    /\ run = 0 /\ profile = None /\ at = 0
    /\ artifacts = <<>> /\ dir = <<>> /\ done = {}

Begin ==
    /\ profile = None /\ run < MaxRuns
    /\ run' = run + 1 /\ profile' \in Profiles
    /\ at' = 0 /\ artifacts' = <<>>
    /\ UNCHANGED <<dir, done>>

Current == Steps(profile)[at + 1]
Running == profile # None /\ at < Len(Steps(profile))

\* register(): a key that is registered already raises.
Register ==
    /\ Running /\ Current.op = "register"
    /\ Current.what \notin ToSet(artifacts)
    /\ artifacts' = Append(artifacts, Current.what)
    /\ at' = at + 1
    /\ UNCHANGED <<run, profile, dir, done>>

Body == CASE Current.op = "hash" -> Hashes
          [] Current.op = "manifest" -> Manifest(artifacts)
          [] Current.op = "write" -> None
Target == IF Current.op = "manifest" THEN ManifestPath ELSE PathOf(artifacts, Current.what)

Write ==
    /\ Running /\ Current.op # "register"
    /\ Put(Target, File(Body, TRUE))
    /\ at' = at + 1
    /\ UNCHANGED <<run, profile, artifacts, done>>

\* run() returns 0.
Finish ==
    /\ profile # None /\ at = Len(Steps(profile))
    /\ profile' = None /\ done' = done \cup {run}
    /\ UNCHANGED <<run, at, artifacts, dir>>

\* An exception or a kill: nothing is taken back, and a file may be cut.
Fail ==
    /\ profile # None
    /\ profile' = None
    /\ \/ UNCHANGED dir
       \/ Running /\ Current.op # "register" /\ Put(Target, File(None, FALSE))
    /\ UNCHANGED <<run, at, artifacts, done>>

Next == Begin \/ Register \/ Write \/ Finish \/ Fail

Spec == Init /\ [][Next]_rvars
-----------------------------------------------------------------------------
\* The entries of the manifest that is there, and what the hashes say of a path.
Read(path) == path \in DOMAIN dir /\ dir[path].whole
Listed == dir[ManifestPath].body
Agrees(path) == path \in DOMAIN dir[HashesPath].body /\ path \in DOMAIN dir /\ dir[HashesPath].body[path] = dir[path]

\* A run that ends as it should leaves a manifest of exactly what it registered; every file
\* in it is whole, of this run, and hashed (but for the hashes themselves).
FinishedRunIsWhole ==
    profile = None /\ run \in done =>
        /\ Read(ManifestPath) /\ Listed = Manifest(artifacts)
        /\ \A e \in Listed : Read(e.path) /\ dir[e.path].run = run
        /\ \A e \in Listed : e.path # HashesPath => Agrees(e.path)

\* If all the files of the manifest agree with the hashes, they are whole and of one run:
\* the remains of runs that failed are never taken for the output of one run.
VerifiedIsOneRun ==
    Read(ManifestPath) /\ Read(HashesPath) /\ (\A e \in Listed : e.path # HashesPath => Agrees(e.path)) =>
        \A e \in Listed : Read(e.path) /\ dir[e.path].run = dir[HashesPath].run

\* An artifact has the same identifier and the same path in every run, whatever the profile,
\* and no artifact is written over another.
ArtifactsAreStable ==
    /\ Read(ManifestPath) => \A e \in Manifest(artifacts), f \in Listed : e.artifact = f.artifact => e = f
    /\ \A e, f \in Manifest(artifacts) : e.path = f.path \/ e.id = f.id => e = f
=============================================================================
