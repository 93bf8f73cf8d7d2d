------------------------------- MODULE Bundles -------------------------------
(***************************************************************************)
(* What can be recomputed later: the snapshot of a run's inputs            *)
(* (reproducibility.py), the bundle an experiment is exported as           *)
(* (bundle.py), the cached report beside people who go on rating, and the  *)
(* numbered reports of a workspace.                                        *)
(***************************************************************************)
EXTENDS Integers, Sequences, FiniteSets, SequencesExt, FiniteSetsExt, Functions

CONSTANTS MaxRatings,      \* bound: ratings people give in a behaviour
          Clerks,          \* requests for a numbered report
          None             \* what is not there: a model value, unlike any value that is

ASSUME BundlesAssumption ==
  /\ MaxRatings \in Nat
  /\ \A text \in {<<"start", "end">>, <<"start", "other">>} : None # text /\ None # <<"hash", text>>

VARIABLES matter,          \* what this behaviour is about
          site,            \* database and object store: [ratings, profile, score, archive]
          export,          \* the export of a bundle and what its session has read
          cached,          \* the report kept with the experiment, and who computes one
          clerk,           \* requests for a numbered report
          shelf            \* the numbered reports, in the order they were committed

bundleVars == <<matter, site, export, cached, clerk, shelf>>

-----------------------------------------------------------------------------
(* The snapshot of a run's inputs                                          *)

\* _opt_sha256, _cap: of a text the whole is hashed and the beginning is kept.
Digest(value) == <<"hash", value>>
Hashed(text) == IF text = None THEN None ELSE Digest(text)
Kept(text) == IF text = None THEN None ELSE text[1]

\* The harness of a run: its connector, the image known at launch, the limits for
\* whatever else is among the conditions, and whether the settings were applied.
Harnesses ==
  [connector : {"pi", "legacy"}, image : {None, "sha"}, limits : 1..2, state : {"prepared", "unknown"}]

\* "stable" of assemble_snapshot: everything set before the run; that the settings
\* were applied is no condition.
Conditions(h) == <<h.connector, h.image, h.limits>>
Identity(h) ==
  IF h = None THEN None
  ELSE [connector |-> h.connector, image |-> h.image, conditions |-> Digest(Conditions(h))]

ASSUME IdentityAssumption == \A h \in Harnesses : Identity(h) # None

MutDeterminism(task, e) ==
  [model |-> e.model, soul |-> Kept(e.soul), tools |-> e.tools, temperature |-> task.temperature,
   seed |-> task.seed, prompt |-> Hashed(task.prompt), harness |-> Identity(e.harness)]

\* assemble_snapshot: what the fingerprint is taken of.
Determinism(task, e) ==
  [model |-> e.model, soul |-> Hashed(e.soul), tools |-> e.tools, temperature |-> task.temperature,
   seed |-> task.seed, prompt |-> Hashed(task.prompt), harness |-> Identity(e.harness)]

\* _build_manifest and what assemble_snapshot marks of a harness: what nobody can
\* capture is named missing, always.
Manifest(task, e) ==
  LET present == {f \in {"model", "soul"} : e[f] # None} \cup {f \in {"tools"} : e.tools # {}}
                   \cup {f \in {"temperature", "seed"} : task[f] # None} \cup {"task_input"}
      known == IF e.harness = None THEN {}
               ELSE {"connector"} \cup {f \in {"image"} : e.harness.image # None}
                      \cup {f \in {"applied_config"} : e.harness.state = "prepared"}
      asked == {"model", "soul", "tools", "temperature", "seed", "task_input"}
                 \cup (IF e.harness = None THEN {} ELSE {"connector", "image", "applied_config"})
  IN [captured |-> present \cup known,
      missing |-> (asked \ (present \cup known)) \cup {"tool_versions", "rag_vectors"}
                    \cup (IF e.harness = None THEN {} ELSE {"provider_model_revision"})]

\* _has_execution_context, capture_snapshot: an empty execution is no snapshot.
Snapshot2(task, e) ==
  IF e.model = None /\ e.soul = None /\ e.tools = {} /\ e.harness = None THEN None
  ELSE [determinism |-> Determinism(task, e), manifest |-> Manifest(task, e),
        content |-> [soul |-> Kept(e.soul), harness |-> e.harness]]

\* _flatten: the fields of the fingerprinted part, those of the harness if there is one.
Unnested == {"model", "soul", "tools", "temperature", "seed", "prompt"}
Paths(d) ==
  [p \in Unnested \cup (IF d.harness = None THEN {} ELSE {"connector", "image", "conditions"}) |->
     IF p \in Unnested THEN d[p] ELSE d.harness[p]]

\* diff_snapshots: the paths that differ.
Diff(a, b) ==
  LET p == Paths(a.determinism)
      q == Paths(b.determinism)
  IN [identical |-> a.determinism = b.determinism,
      added |-> DOMAIN q \ DOMAIN p, removed |-> DOMAIN p \ DOMAIN q,
      changed |-> {k \in DOMAIN p \cap DOMAIN q : p[k] # q[k]}]

\* replay_from_snapshot: only of applied settings and of an image that is known.
Replayable(snapshot) ==
  /\ snapshot.content.harness # None
  /\ snapshot.content.harness.connector # "legacy"
  /\ snapshot.content.harness.state = "prepared"
  /\ snapshot.content.harness.image # None
Replay(snapshot) ==
  IF snapshot = None \/ ~Replayable(snapshot) THEN None
  ELSE [harness |-> snapshot.content.harness, seed |-> snapshot.determinism.seed,
        temperature |-> snapshot.determinism.temperature]

\* A record without a snapshot is left out instead of counted.
MutPinned(snapshots) ==
  \A i \in {j \in DOMAIN snapshots : snapshots[j] # None} :
    /\ snapshots[i].content.harness # None
    /\ snapshots[i].content.harness.image # None

\* Images are pinned when the harness of every record names one, whatever became
\* of its settings.
Pinned(snapshots) ==
  /\ snapshots # <<>>
  /\ \A i \in DOMAIN snapshots :
       /\ snapshots[i] # None
       /\ snapshots[i].content.harness # None
       /\ snapshots[i].content.harness.image # None

\* coverage_summary
Coverage(snapshots) ==
  LET there == {i \in DOMAIN snapshots : snapshots[i] # None}
      fields == UNION {snapshots[i].manifest.captured \cup snapshots[i].manifest.missing : i \in there}
  IN [records |-> Len(snapshots), with |-> Cardinality(there),
      captured |-> [f \in fields |-> Cardinality({i \in there : f \in snapshots[i].manifest.captured})],
      missing |-> [f \in fields |-> Cardinality({i \in there : f \in snapshots[i].manifest.missing})],
      pinned |-> Pinned(snapshots)]

-----------------------------------------------------------------------------
(* Rows in and out of the archive                                          *)

MutEncode(v) ==
  IF v.type \in {"date", "datetime"} THEN [type |-> "date", v |-> v.v[1]] ELSE v

\* _encode, _decode: a moment is a date too and is asked for first.
Encode(v) ==
  CASE v.type = "datetime" -> [type |-> "datetime", v |-> v.v]
    [] v.type = "date" -> [type |-> "date", v |-> v.v[1]]
    [] OTHER -> v
Decode(v) == IF v.type = "date" THEN [type |-> "date", v |-> <<v.v>>] ELSE v

\* dump_row, load_row: a column this checkout does not know is refused, one the
\* archive does not have stays empty.
DumpRow(row) == [c \in DOMAIN row |-> Encode(row[c])]
LoadRow(data, known) ==
  [refused |-> ~(DOMAIN data \subseteq known),
   row |-> [c \in known |-> IF c \in DOMAIN data THEN Decode(data[c]) ELSE None]]

-----------------------------------------------------------------------------
(* Journals and blobs                                                      *)

\* _fetch_attempt_journals: of an ended attempt of this task, without a gap, up to
\* its end.
JournalWhole(attempt) ==
  /\ attempt.status \in {"success", "failed", "cancelled", "lost"} /\ attempt.ours
  /\ \A i \in DOMAIN attempt.seqs : attempt.seqs[i] = i - 1
  /\ Len(attempt.seqs) = attempt.next
  /\ attempt.status = "lost" \/ (attempt.seqs # <<>> /\ attempt.last = "run.finished")

\* blob_digests, check_blobs: what is listed is there as it was, and as many record
\* archives and journals are there as records expect.
Kind(name) == name[1]
Blobs(names, bytes) == [n \in names |-> bytes]
OfKind(blobs, kind) == {n \in DOMAIN blobs : Kind(n) = kind}
MutCheckBlobs(blobs, manifest) ==
  \A n \in DOMAIN manifest.digests \cap DOMAIN blobs : blobs[n] = manifest.digests[n]
CheckBlobs(blobs, manifest) ==
  /\ \A n \in DOMAIN manifest.digests : n \in DOMAIN blobs /\ blobs[n] = manifest.digests[n]
  /\ Cardinality(OfKind(blobs, "record")) = manifest.records
  /\ Cardinality(OfKind(blobs, "journal")) = manifest.journals

\* recompute_report: headline and the rest, of runs, records and ratings.
Recompute(files) ==
  [headline |-> <<files.score, files.profile, files.ratings>>, rest |-> files.rest]

\* verify_bundle: the headline reproduces and the archive is whole.
Verify(files) ==
  Recompute(files).headline = files.expected.headline /\ CheckBlobs(files.blobs, files.manifest)

-----------------------------------------------------------------------------
(* The export: reads of one session, with commits of others between them   *)

NewSite == [ratings |-> {}, profile |-> 0, score |-> 0, archive |-> TRUE]
NotBegun == [at |-> "idle", score |-> 0, profile |-> 0, ratings |-> {}, live |-> {}, blobs |-> <<>>]

\* A rating's time is the start of its transaction: they commit in any order.
Rate ==
  /\ \E t \in (1..MaxRatings) \ site.ratings : site' = [site EXCEPT !.ratings = @ \cup {t}]
  /\ UNCHANGED <<matter, export, cached, clerk, shelf>>

\* A judgement is stored, and copied to the run's row by a later tick.
Rejudge ==
  /\ matter = "export"
  /\ \/ site.profile = 0 /\ site' = [site EXCEPT !.profile = 1]
     \/ site.score # site.profile /\ site' = [site EXCEPT !.score = site.profile]
  /\ UNCHANGED <<matter, export, cached, clerk, shelf>>

LoseArchive ==
  /\ matter = "export" /\ site.archive /\ site' = [site EXCEPT !.archive = FALSE]
  /\ UNCHANGED <<matter, export, cached, clerk, shelf>>

\* build_bundle: runs, then records, then ratings; then the live report, which
\* re-reads them all, but rows the session holds already keep their values.
ExportReads ==
  /\ matter = "export"
  /\ export' = CASE export.at = "idle" -> [export EXCEPT !.at = "runs", !.score = site.score]
                 [] export.at = "runs" -> [export EXCEPT !.at = "records", !.profile = site.profile]
                 [] export.at = "records" -> [export EXCEPT !.at = "ratings", !.ratings = site.ratings]
                 [] export.at = "ratings" -> [export EXCEPT !.at = "live", !.live = site.ratings]
                 [] OTHER -> export
  /\ export' # export
  /\ UNCHANGED <<matter, site, cached, clerk, shelf>>

MutReproduces(e) == TRUE

\* What the files recompute to is what the platform shows.
Reproduces(e) == e.ratings = e.live

\* _fetch_blobs refuses when an archive is lost, the comparison when they differ.
ExportEnds ==
  /\ export.at = "live"
  /\ export' = IF ~site.archive THEN [export EXCEPT !.at = "incomplete"]
               ELSE IF ~Reproduces(export) THEN [export EXCEPT !.at = "mismatch"]
               ELSE [export EXCEPT !.at = "written", !.blobs = Blobs({<<"record", 1>>}, "archive")]
  /\ UNCHANGED <<matter, site, cached, clerk, shelf>>

\* The archive that was written.
Exported ==
  [score |-> export.score, profile |-> export.profile, ratings |-> export.ratings, rest |-> 0,
   blobs |-> export.blobs, manifest |-> [digests |-> export.blobs, records |-> 1, journals |-> 0],
   expected |-> Recompute([score |-> export.score, profile |-> export.profile,
                           ratings |-> export.live, rest |-> 0])]

-----------------------------------------------------------------------------
(* The cached report                                                       *)

\* calibration_fingerprint
Fingerprint(ratings) == <<Cardinality(ratings), Max(ratings \cup {0})>>
NoReport == [at |-> "idle", stamp |-> <<-1, -1>>, used |-> {}, kept |-> [stamp |-> <<-1, -1>>, used |-> {}]]

\* Served from the cache, if the ratings are those it was stamped with.
UpToDate == cached.kept.stamp = Fingerprint(site.ratings)

\* compute_report: stamped first, then the ratings are read.
Stamp ==
  /\ matter = "cache" /\ cached.at = "idle" /\ ~UpToDate
  /\ cached' = [cached EXCEPT !.at = "stamped", !.stamp = Fingerprint(site.ratings)]
  /\ UNCHANGED <<matter, site, export, clerk, shelf>>
Collect ==
  /\ cached.at = "stamped"
  /\ cached' = [cached EXCEPT !.at = "collected", !.used = site.ratings]
  /\ UNCHANGED <<matter, site, export, clerk, shelf>>
MutStored(c) == [stamp |-> Fingerprint(site.ratings), used |-> c.used]
Stored(c) == [stamp |-> c.stamp, used |-> c.used]
StoreReport ==
  /\ cached.at = "collected"
  /\ cached' = [cached EXCEPT !.at = "idle", !.kept = Stored(cached)]
  /\ UNCHANGED <<matter, site, export, clerk, shelf>>

-----------------------------------------------------------------------------
(* Numbered reports: run_ranking, run_judge_calibration, _persist           *)

Idle2 == [at |-> "idle", began |-> 0, seen |-> 0, missed |-> {}]
Versions == {shelf[i].version : i \in DOMAIN shelf}
Began == {clerk[c].began : c \in Clerks}

\* A transaction begins: its start is the report's time.
ClerkBegins(c) ==
  /\ matter = "versions" /\ clerk[c].at = "idle"
  /\ clerk' = [clerk EXCEPT ![c] = [at |-> "computing", began |-> Max(Began) + 1, seen |-> 0,
                                    missed |-> ToSet(shelf)]]
  /\ UNCHANGED <<matter, site, export, cached, shelf>>

\* The largest version is read after the computation.
ClerkReads(c) ==
  /\ clerk[c].at = "computing"
  /\ clerk' = [clerk EXCEPT ![c].at = "numbered", ![c].seen = Max(Versions \cup {0})]
  /\ UNCHANGED <<matter, site, export, cached, shelf>>

\* One version, one report: the second of two that read the same is refused.
ClerkCommits(c) ==
  /\ clerk[c].at = "numbered"
  /\ IF clerk[c].seen + 1 \in Versions
     THEN clerk' = [clerk EXCEPT ![c].at = "refused"] /\ UNCHANGED shelf
     ELSE /\ clerk' = [clerk EXCEPT ![c].at = "done"]
          /\ shelf' = Append(shelf, [version |-> clerk[c].seen + 1, began |-> clerk[c].began, by |-> c])
  /\ UNCHANGED <<matter, site, export, cached>>

MutLatest2(p, q) == p.version <= q.version /\ p.began >= q.began

\* get_ranking and the others: the latest by its time, then by its version.
Latest2(p, q) == p.began > q.began \/ (p.began = q.began /\ p.version >= q.version)
Shown == {p \in ToSet(shelf) : \A q \in ToSet(shelf) : Latest2(p, q)}

-----------------------------------------------------------------------------
(* Behaviour                                                               *)

BundlesInit ==
  /\ matter \in {"export", "cache", "versions", "snapshots", "archives"}
  /\ site = NewSite /\ export = NotBegun /\ cached = NoReport
  /\ clerk = [c \in Clerks |-> Idle2] /\ shelf = <<>>

BundlesNext ==
  \/ matter \in {"export", "cache"} /\ Rate
  \/ Rejudge \/ LoseArchive \/ ExportReads \/ ExportEnds
  \/ Stamp \/ Collect \/ StoreReport
  \/ \E c \in Clerks : ClerkBegins(c) \/ ClerkReads(c) \/ ClerkCommits(c)

BundlesSpec == BundlesInit /\ [][BundlesNext]_bundleVars

-----------------------------------------------------------------------------
(* The inputs                                                              *)

Texts == {None, <<"start", "end">>, <<"start", "other">>}
HarnessReadings == {None} \cup Harnesses
ExecutionReadings ==
  {[model |-> m, soul |-> s, tools |-> {}, harness |-> h] :
     m \in {None, "gpt"}, s \in Texts, h \in HarnessReadings}
TaskReadings ==
  [temperature : {None}, seed : {None, "7"}, prompt : {<<"start", "end">>, <<"start", "other">>}]

RowReadings ==
  [{"id", "at"} -> {[type |-> "uuid", v |-> <<1>>], [type |-> "datetime", v |-> <<1, 2>>],
                    [type |-> "date", v |-> <<1>>], [type |-> "plain", v |-> <<3>>]}]
AttemptReadings ==
  [status : {"running", "success", "cancelled", "lost"}, ours : BOOLEAN, next : 0..2,
   seqs : {<<>>, <<0>>, <<0, 1>>, <<1>>}, last : {"run.finished", "log"}]

-----------------------------------------------------------------------------
(* Properties                                                              *)

\* The same inputs: the texts to their end, and every condition of the harness.
SameInputs(s, e, t, f) ==
  /\ <<e.model, e.soul, e.tools, s.temperature, s.seed, s.prompt>>
       = <<f.model, f.soul, f.tools, t.temperature, t.seed, t.prompt>>
  /\ e.harness = None <=> f.harness = None
  /\ e.harness # None => Conditions(e.harness) = Conditions(f.harness)

\* The differences of two snapshots are told exactly if their fingerprints differ;
\* every field is captured or missing and never both; a replay is refused exactly
\* where the manifest misses the image or the applied settings, or there was no
\* connector that could run it again.
SnapshotLaw(a, b, d) ==
  /\ d.identical = (d.added = {} /\ d.removed = {} /\ d.changed = {})
  /\ a.manifest.captured \cap a.manifest.missing = {}
  /\ Replayable(a) <=> /\ a.content.harness # None
                       /\ a.content.harness.connector # "legacy"
                       /\ {"image", "applied_config"} \subseteq a.manifest.captured

\* Two runs have one fingerprint exactly if they had the same inputs.  A bundle
\* counts no field oftener than it has snapshots, and says that images are pinned
\* exactly if the manifest of every record captured one: an image, not a replay,
\* for the settings may have been missed.
SnapshotsSound ==
  matter = "snapshots" => \A e, f \in ExecutionReadings : \A s, t \in TaskReadings :
    (s.seed = None \/ e = f) =>
    LET a == Snapshot2(s, e)
        b == Snapshot2(t, f)
        told == Coverage(<<a, b>>)
    IN /\ a # None /\ b # None =>
            /\ SnapshotLaw(a, b, Diff(a, b))
            /\ Diff(a, b).identical <=> SameInputs(s, e, t, f)
       /\ \A k \in DOMAIN told.captured : told.captured[k] + told.missing[k] <= told.with
       /\ told.pinned <=> /\ a # None /\ "image" \in a.manifest.captured
                          /\ b # None /\ "image" \in b.manifest.captured

\* What is written is read back, moments included; rows of another checkout are
\* refused or read with what they have; an incomplete journal is not exported.
ArchivesSound ==
  matter = "archives" =>
    /\ \A row \in RowReadings :
         /\ LoadRow(DumpRow(row), {"id", "at"}) = [refused |-> FALSE, row |-> row]
         /\ LoadRow(DumpRow(row), {"id"}).refused
         /\ LET wider == LoadRow(DumpRow(row), {"id", "at", "new"}) IN
            ~wider.refused /\ \A c \in {"id", "at"} : wider.row[c] = row[c]
    /\ \A a \in AttemptReadings : JournalWhole(a) =>
         /\ a.status # "running" /\ a.seqs # <<1>> /\ a.next = Len(a.seqs)
         /\ a.status = "lost" \/ a.next > 0

\* A bundle that was written reproduces what the platform showed, and says so when
\* anything of it is changed or lost afterwards.
BundleWritten ==
  export.at = "written" =>
    /\ Verify(Exported)
    /\ ~Verify([Exported EXCEPT !.blobs = <<>>])
    /\ ~Verify([Exported EXCEPT !.blobs = Blobs({<<"record", 1>>}, "other")])
    /\ ~Verify([Exported EXCEPT !.blobs = Blobs({<<"record", 1>>, <<"record", 2>>}, "archive")])
    /\ ~Verify([Exported EXCEPT !.score = 2]) /\ ~Verify([Exported EXCEPT !.ratings = @ \cup {MaxRatings + 1}])

\* A report is served only with all ratings there are.
CacheCurrent == matter = "cache" /\ UpToDate => cached.kept.used = site.ratings

\* Numbers are given once and without gaps, whoever is refused had a rival, and
\* what is shown is no older than what was there when its request began.
VersionsSound ==
  /\ \A i \in DOMAIN shelf : shelf[i].version = i
  /\ \A c \in Clerks : clerk[c].at = "refused" =>
       \E i \in DOMAIN shelf : shelf[i].version = clerk[c].seen + 1 /\ shelf[i].by # c
  /\ shelf # <<>> => Cardinality(Shown) = 1
  /\ \A p \in Shown : \A c \in Clerks : clerk[c].at = "done" => p \notin clerk[c].missed

\* What was reported can be found and computed again.
BundlesSound == SnapshotsSound /\ ArchivesSound /\ BundleWritten /\ CacheCurrent /\ VersionsSound
=============================================================================
