---------------------------- MODULE DataReleases -----------------------------
(***************************************************************************)
(* The importers that bring the releases of the data pipeline into the     *)
(* database, and the readers of what they wrote.  cmd/importparts takes a  *)
(* directory of parts, with or without the manifest of a release;          *)
(* cmd/importpriceobservations takes a release of prices; cmd/importprices *)
(* takes a file collected by hand.  Each checks what it was given, then    *)
(* writes in one transaction behind an advisory lock, so a step here is a  *)
(* whole import: a crash before its commit leaves nothing.                 *)
(*                                                                         *)
(* A digest is written as the content it stands for: two digests are equal *)
(* exactly when their contents are.                                        *)
(***************************************************************************)
EXTENDS Naturals, FiniteSets, Sequences, FiniteSetsExt, SequencesExt

CONSTANTS
  Categories,  \* the categories of parts
  PartDirs,    \* the directories importparts is given
  PriceDirs,   \* the releases importpriceobservations is given
  PriceFiles,  \* the files importprices is given
  Dates,       \* the days
  Before       \* parts and evidence from before there were releases

None == [none |-> TRUE] \* no manifest; an absent name is ""
States == {"active_core", "catalog_only", "retired"}

VARIABLES
  catalog,      \* table parts: a record per SKU
  publications, \* table data_publications
  evidence,     \* table part_evidence
  jobs,         \* table data_job_runs
  observations, \* table price_observations
  snapshots,    \* table price_snapshots, in the order of their ids
  prices,       \* table prices
  released,     \* the last import of parts was that of a release
  view          \* what a reader of the catalog holds

dataVars == <<catalog, publications, evidence, jobs, observations, snapshots, prices, released, view>>

Init ==
  /\ \/ catalog = <<>> /\ evidence = {}
     \/ catalog = Before.catalog /\ evidence = Before.evidence
  /\ publications = {} /\ jobs = {}
  /\ observations = {} /\ snapshots = <<>> /\ prices = {} /\ released = FALSE
  /\ view = [pc |-> "idle", date |-> 0, snapshot |-> 0, rows |-> {}]

-----------------------------------------------------------------------------
(* What importparts accepts *)

\* All eight files, each with a part, each part in the file of its category,
\* no SKU twice, every state a known one; an absent state means active.
StateOf(p) == IF p.state = "" THEN "active_core" ELSE p.state

PartsLoad(dir) ==
  /\ \A c \in Categories : \E i \in DOMAIN dir.parts : dir.parts[i].category = c
  /\ \A i, j \in DOMAIN dir.parts : dir.parts[i].sku = dir.parts[j].sku => i = j
  /\ \A i \in DOMAIN dir.parts :
       /\ dir.parts[i].category \in Categories
       /\ StateOf(dir.parts[i]) \in States

\* A manifest seals its own text; a release of the first schema has no
\* evidence, one of the second names the digests of both.
ManifestLoads(m) ==
  /\ m.schema \in {1, 2} /\ m.decision \in {"auto", "manual", "bootstrap"} /\ m.sealed
  /\ m.schema = 1 => m.evidence = {}

InputOf(m, parts, ev) == IF m.schema = 1 THEN [parts |-> parts, evidence |-> <<>>]
                         ELSE [parts |-> parts, evidence |-> ev]

FilesMatch(dir) ==
  /\ dir.manifest.schema = 2 => /\ dir.manifest.parts = dir.parts
                                /\ dir.manifest.evidence = {dir.evidence}
  /\ dir.manifest.input = InputOf(dir.manifest, dir.parts, dir.evidence)

\* The name of a piece of evidence is the digest of what it says.
IdOf(e) == [sku |-> e.sku, field |-> e.field, value |-> e.value, raw |-> e.raw]

EvidenceLoads(dir) ==
  \A i, j \in DOMAIN dir.evidence :
    /\ IdOf(dir.evidence[i]) = IdOf(dir.evidence[j]) => i = j
    /\ dir.evidence[i].status \in {"verified", "candidate", "conflict", "rejected"}

-----------------------------------------------------------------------------
(* Importing parts *)

Skus(dir) == {dir.parts[i].sku : i \in DOMAIN dir.parts}

\* Every part of the directory replaces its row, the others stay.
Upserted(dir) ==
  [s \in DOMAIN catalog \cup Skus(dir) |->
     IF s \in Skus(dir)
     THEN LET p == CHOOSE p \in ToSet(dir.parts) : p.sku = s
          IN  [category |-> p.category, specs |-> p.specs, state |-> StateOf(p),
               active |-> StateOf(p) = "active_core"]
     ELSE catalog[s]]

\* A release has to name every part that is not retired.
MissingActive(dir) == {s \in DOMAIN Upserted(dir) \ Skus(dir) : Upserted(dir)[s].active}
Missing(dir) == {s \in DOMAIN Upserted(dir) \ Skus(dir) : Upserted(dir)[s].state # "retired"}

\* A release already recorded must be recorded as it is here; a new one needs
\* the release before it and a manifest of its own.
PublicationOf(m) ==
  [release |-> m.release, previous |-> m.previous, run |-> m.run, manifest |-> m,
   input |-> m.input, decision |-> m.decision]

Publishable(m) ==
  IF \E p \in publications : p.release = m.release
  THEN PublicationOf(m) \in publications
  ELSE /\ m.previous = "" \/ \E p \in publications : p.release = m.previous
       /\ ~ \E p \in publications : p.manifest = m

\* Evidence is of a part of its release.  A row already there must say the
\* same and keeps the release it has; a second value read from the same raw
\* document is refused by the table.
Unreleased(row) == [row EXCEPT !.release = ""]
RowOf(e, release) == [id |-> IdOf(e), status |-> e.status, release |-> release]
Known(e)          == \E row \in evidence : row.id = IdOf(e)

EvidenceFits(dir) ==
  /\ \A e \in ToSet(dir.evidence) :
       /\ e.sku \in Skus(dir)
       /\ Known(e) => \E row \in evidence : Unreleased(row) = RowOf(e, "")
  /\ \A e \in ToSet(dir.evidence), id \in {row.id : row \in evidence} \cup {IdOf(f) : f \in ToSet(dir.evidence)} :
       <<id.sku, id.field, id.raw>> = <<e.sku, e.field, e.raw>> => id = IdOf(e)

Related(dir) ==
  {IF row.release = "" /\ \E e \in ToSet(dir.evidence) : IdOf(e) = row.id
   THEN [row EXCEPT !.release = dir.manifest.release] ELSE row : row \in evidence}

\* A directory without a manifest: the rows are replaced, nothing is recorded.
ImportParts(dir) ==
  /\ dir.manifest = None /\ PartsLoad(dir)
  /\ catalog' = Upserted(dir)
  /\ released' = FALSE
  /\ UNCHANGED <<publications, evidence, jobs, observations, snapshots, prices, view>>

\* A release, for the first time or again.
ImportRelease(dir) ==
  /\ dir.manifest # None /\ PartsLoad(dir)
  /\ ManifestLoads(dir.manifest) /\ FilesMatch(dir)
  /\ dir.manifest.schema = 2 => EvidenceLoads(dir)
  /\ Missing(dir) = {}
  /\ Publishable(dir.manifest)
  /\ LET read == [dir EXCEPT !.evidence = IF dir.manifest.schema = 2 THEN @ ELSE <<>>]
     IN  /\ EvidenceFits(read)
         /\ evidence' = Related(read) \cup {RowOf(e, dir.manifest.release)
                                              : e \in {e \in ToSet(read.evidence) : ~Known(e)}}
  /\ catalog' = Upserted(dir)
  /\ publications' = publications \cup {PublicationOf(dir.manifest)}
  /\ released' = TRUE
  /\ UNCHANGED <<jobs, observations, snapshots, prices, view>>

-----------------------------------------------------------------------------
(* Price batches *)

Ids          == DOMAIN snapshots
OfDate(d)    == {n \in Ids : snapshots[n].date = d}

\* The newest batch is that of the latest day, the last one of that day; a
\* day names its first batch.
Later(n, m)     == snapshots[n].date > snapshots[m].date \/ (snapshots[n].date = snapshots[m].date /\ n > m)
LatestSnapshot  == IF Ids = {} THEN 0 ELSE CHOOSE n \in Ids : \A m \in Ids \ {n} : Later(n, m)
LastOfDate(d)     == IF OfDate(d) = {} THEN 0 ELSE Max(OfDate(d))
SnapshotByDate(d) == IF OfDate(d) = {} THEN 0 ELSE Min(OfDate(d))

\* The tables refuse a second price of a SKU in a batch and a price without
\* its part.
RowsFit(rows) ==
  /\ \A i, j \in DOMAIN rows : rows[i].sku = rows[j].sku => i = j
  /\ \A i \in DOMAIN rows : rows[i].sku \in DOMAIN catalog

-----------------------------------------------------------------------------
(* Importing a release of prices *)

\* Every file is the one the manifest names, and a manifest seals itself.
PriceRelease(dir) ==
  /\ dir.manifest.sealed /\ dir.manifest.policy \in {"manual", "automatic"}
  /\ dir.manifest.input = [observations |-> dir.observations, selections |-> dir.selections]

\* A listing comes from a registered collector and is no evidence of stock; a
\* reviewed quotation is of exactly this variant, and a person publishes it.
ObservationsLoad(dir) ==
  \A o \in ToSet(dir.observations) :
    /\ o.collector = "maishou_reviewed" =>
         /\ o.type = "listing" /\ o.basis = "unknown" /\ o.stock = "unknown"
         /\ o.variant = "exact" /\ dir.manifest.policy = "manual"
    /\ o.type = "listing" =>
         /\ o.stock = "unknown"
         /\ \/ o.collector = "serpapi_baidu" /\ o.basis = "search_listing"
            \/ o.collector = "maishou_reviewed"

\* An observation keeps what it said when it was first written.
ObservationsFit(dir) ==
  \A i \in DOMAIN dir.observations :
    LET o == dir.observations[i]
    IN  /\ o.sku \in DOMAIN catalog
        /\ \A known \in observations \cup ToSet(dir.observations) : known.id = o.id => known = o

\* The batch the release follows: the one it names, or else the newest.
PreviousOf(m) ==
  IF m.previous = "" THEN LatestSnapshot
  ELSE LET named == {n \in Ids : snapshots[n].release = m.previous}
       IN  IF named = {} THEN 0 ELSE Max(named)

\* Where a price carried forward was recorded: the last batch of the day it
\* names that has it, or else the batch before.
Alike(row)       == {p \in prices : /\ p.sku = row.sku /\ p.price = row.price
                                    /\ p.observed = row.observed}
AnySourceOf(row) == {p.snapshot : p \in {p \in prices : p.sku = row.sku /\ snapshots[p.snapshot].date = row.from}}
SourcesOf(row)   == {p.snapshot : p \in {p \in Alike(row) : snapshots[p.snapshot].date = row.from}}

SourceOf(row, previous, own) ==
  IF ~row.carried THEN own
  ELSE IF row.from # 0 THEN Max(SourcesOf(row))
  ELSE IF previous # 0 THEN previous ELSE own

Carriable(row) == row.carried /\ row.from # 0 => SourcesOf(row) # {}

SelectionsFit(dir) ==
  /\ RowsFit(dir.selections)
  /\ \A i \in DOMAIN dir.selections :
       /\ Carriable(dir.selections[i])
       /\ \/ dir.selections[i].observation = ""
          \/ \E o \in observations \cup ToSet(dir.observations) : o.id = dir.selections[i].observation

\* A run is recorded once; two runs of one moment are refused.
JobFits(m) == \A j \in jobs : j.at = m.at => j.run = m.run
JobsWith(m) == IF \E j \in jobs : j.run = m.run THEN jobs ELSE jobs \cup {[run |-> m.run, at |-> m.at]}

ImportPriceRelease(dir) ==
  LET m        == dir.manifest
      id       == Len(snapshots) + 1
      previous == PreviousOf(m)
  IN  /\ PriceRelease(dir) /\ ObservationsLoad(dir)
      /\ ~ \E n \in Ids : snapshots[n].manifest = m \* else it is skipped, or an error
      /\ JobFits(m) /\ ObservationsFit(dir)
      /\ m.previous # "" => previous # 0
      /\ ~ \E n \in Ids : snapshots[n].release = m.release \/ snapshots[n].file = m.input
      /\ SelectionsFit(dir)
      /\ jobs' = JobsWith(m)
      /\ observations' = observations \cup ToSet(dir.observations)
      /\ snapshots' = Append(snapshots, [date |-> m.date, file |-> m.input, release |-> m.release,
                                         manifest |-> m, previous |-> previous])
      /\ prices' = prices \cup
           {[snapshot |-> id, sku |-> row.sku, price |-> row.price, source |-> row.source,
             observed |-> row.observed, carried |-> row.carried,
             from |-> SourceOf(row, previous, id)] : row \in ToSet(dir.selections)}
      /\ UNCHANGED <<catalog, publications, evidence, released, view>>

-----------------------------------------------------------------------------
(* Importing a file of prices *)

\* The day of a file is the one given with it, or that of its rows.
DayOf(file) == IF file.date # 0 THEN file.date ELSE file.rows[1].observed

FileLoads(file) ==
  /\ file.rows # <<>>
  /\ \A i, j \in DOMAIN file.rows : file.rows[i].sku = file.rows[j].sku => i = j
  /\ \A i \in DOMAIN file.rows : /\ file.rows[i].price > 0
                                 /\ file.rows[i].observed <= DayOf(file)
                                 /\ file.date = 0 => file.rows[i].observed = DayOf(file)

\* An older row of a file has to be one that was recorded: same price, same
\* source, same day.  It points to where that one came from.
Older(row, day) == {p \in Alike(row) : p.source = row.source /\ snapshots[p.snapshot].date <= day}

ImportPrices(file, revision) ==
  LET day == DayOf(file)
      id  == Len(snapshots) + 1
      FromOf(row) ==
        IF row.observed = day THEN id
        ELSE (CHOOSE p \in Older(row, day) :
                \A q \in Older(row, day) : q.snapshot = p.snapshot \/ Later(p.snapshot, q.snapshot)).from
  IN  /\ FileLoads(file)
      /\ ~ \E n \in Ids : snapshots[n].file = [rows |-> file.rows] \* else it is skipped, or an error
      /\ revision \/ OfDate(day) = {}
      /\ RowsFit(file.rows)
      /\ \A i \in DOMAIN file.rows : file.rows[i].observed < day => Older(file.rows[i], day) # {}
      /\ snapshots' = Append(snapshots, [date |-> day, file |-> [rows |-> file.rows], release |-> "",
                                         manifest |-> None, previous |-> 0])
      /\ prices' = prices \cup
           {[snapshot |-> id, sku |-> row.sku, price |-> row.price, source |-> row.source,
             observed |-> row.observed, carried |-> row.observed < day,
             from |-> FromOf(row)] : row \in ToSet(file.rows)}
      /\ UNCHANGED <<catalog, publications, evidence, jobs, observations, released, view>>

-----------------------------------------------------------------------------
(* Reading the catalog: first the batch, then the parts with its prices *)

OpenLatest ==
  /\ view.pc = "idle" /\ LatestSnapshot # 0
  /\ view' = [pc |-> "opened", date |-> 0, snapshot |-> LatestSnapshot, rows |-> {}]
  /\ UNCHANGED <<catalog, publications, evidence, jobs, observations, snapshots, prices, released>>

OpenByDate(d) ==
  /\ view.pc = "idle" /\ SnapshotByDate(d) # 0
  /\ view' = [pc |-> "opened", date |-> d, snapshot |-> SnapshotByDate(d), rows |-> {}]
  /\ UNCHANGED <<catalog, publications, evidence, jobs, observations, snapshots, prices, released>>

PriceIn(n, s) == LET of == {p \in prices : p.snapshot = n /\ p.sku = s}
                 IN  IF of = {} THEN 0 ELSE (CHOOSE p \in of : TRUE).price

BatchOfView == view.snapshot

ReadCandidates ==
  /\ view.pc = "opened"
  /\ view' = [view EXCEPT !.pc = "read",
                          !.rows = {[sku |-> s, price |-> PriceIn(BatchOfView, s)]
                                      : s \in {s \in DOMAIN catalog : catalog[s].active}}]
  /\ UNCHANGED <<catalog, publications, evidence, jobs, observations, snapshots, prices, released>>

Next ==
  \/ \E dir \in PartDirs : ImportParts(dir) \/ ImportRelease(dir)
  \/ \E dir \in PriceDirs : ImportPriceRelease(dir)
  \/ \E file \in PriceFiles, revision \in BOOLEAN : ImportPrices(file, revision)
  \/ OpenLatest \/ \E d \in Dates : OpenByDate(d)
  \/ ReadCandidates

Spec == Init /\ [][Next]_dataVars

-----------------------------------------------------------------------------
(* Properties *)

\* After the import of a release the parts that are not retired are exactly
\* those of one recorded release, whatever was imported before or again
\* (importparts/main.go:585), and evidence stands for the files of the release
\* it names.
RowsStandForReleases ==
  /\ released => \E p \in publications :
       /\ \A s \in DOMAIN catalog : catalog[s].state # "retired" =>
            \E q \in ToSet(p.input.parts) : /\ q.sku = s /\ q.specs = catalog[s].specs
                                            /\ StateOf(q) = catalog[s].state
       /\ \A q \in ToSet(p.input.parts) : q.sku \in DOMAIN catalog
  /\ \A row \in evidence : row.release # "" =>
       \E p \in publications : /\ p.release = row.release
                               /\ \E e \in ToSet(p.input.evidence) : IdOf(e) = row.id

\* A price carried forward is in the batch it is said to come from, with the
\* same day of observation: carrying never makes a price younger or another
\* (importpriceobservations/main.go:361, importprices/main.go:177).
CarriedWasRecorded ==
  \A p \in prices : p.carried =>
    \E q \in prices : /\ q.snapshot = p.from /\ q.sku = p.sku
                      /\ q.price = p.price /\ q.observed = p.observed

\* What a reader holds are the prices of the one batch it opened, and a day
\* goes on naming the batch it named, whatever is imported meanwhile
\* (store.go:183, :313).
ViewStands ==
  /\ view.pc = "read" => \A r \in view.rows : r.price = PriceIn(view.snapshot, r.sku)
  /\ view.date # 0 => SnapshotByDate(view.date) = view.snapshot
=============================================================================
