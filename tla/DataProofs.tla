----------------------------- MODULE DataProofs ------------------------------
(***************************************************************************)
(* What is proved about the data: the imports of parts and prices, the     *)
(* readers of what they wrote, and the catalogue of failed cases.  Each    *)
(* component of MCServices is followed on its own: a behaviour of the      *)
(* services is one of each component, and the component has the property   *)
(* for any directories, releases, files, runs and reviews.                 *)
(***************************************************************************)
EXTENDS MCServices, FiniteSetTheorems, WellFoundedInduction, TLAPS

-----------------------------------------------------------------------------
(* The folds of the evaluation, whose laws are those of FoldLaws, and numbers *)

JoinNext(c, r, e) == Eval!Join(c, r, e)
Joining == INSTANCE FoldLaws WITH Then <- JoinNext
TurnNext(c, r, e) == Eval!OneTurn(r, e)
Turning == INSTANCE FoldLaws WITH Then <- TurnNext

\* A set of numbers that is bounded has a greatest one.
LEMMA GreatestNumber ==
  ASSUME NEW S \in SUBSET Nat, S # {}, NEW n \in Nat, \A y \in S : y <= n
  PROVE  \E x \in S : \A y \in S : y <= x
<1> DEFINE Bounds == {u \in Nat : \A y \in S : y <= u}
<1>1. PICK u \in Bounds : \A v \in Bounds : u <= v
  <2>1. Bounds \in SUBSET Nat /\ n \in Bounds
    OBVIOUS
  <2> HIDE DEF Bounds
  <2> QED
    BY <2>1, Joining!LeastOf
<1>2. u \in S
  <2> SUFFICES ASSUME u \notin S PROVE FALSE
    OBVIOUS
  <2>1. \A y \in S : y < u
    BY <1>1
  <2>2. PICK y \in S : y < u
    BY <2>1
  <2>3. u - 1 \in Nat
    BY <1>1, <2>2
  <2>4. u - 1 \in Bounds
    BY <1>1, <2>1, <2>3
  <2> QED
    BY <1>1, <2>4
<1> QED
  BY <1>1, <1>2

-----------------------------------------------------------------------------
(* Imports and readers of the catalogue (DataReleases) *)

LEMMA DataFollowed == Spec => Data!Spec
<1>1. Init => Data!Init
  BY DEF Init
<1>2. [Next]_vars => [Data!Next]_(Data!dataVars)
  BY DEF Next, vars, data, Data!dataVars
<1> QED
  BY <1>1, <1>2, PTL DEF Spec, Data!Spec

LEMMA DataElements ==
  ASSUME NEW s
  PROVE  \A x : x \in Data!ToSet(s) <=> \E i \in DOMAIN s : s[i] = x
BY DEF Data!ToSet

\* What RowsStandForReleases says, in its two parts.
CatalogIs(p) ==
  /\ \A s \in DOMAIN catalog : catalog[s].state # "retired" =>
       \E q \in Data!ToSet(p.input.parts) :
         q.sku = s /\ q.specs = catalog[s].specs /\ Data!StateOf(q) = catalog[s].state
  /\ \A q \in Data!ToSet(p.input.parts) : q.sku \in DOMAIN catalog
SaysSo(p, e) ==
  p.release = e.release /\ \E f \in Data!ToSet(p.input.evidence) : Data!IdOf(f) = e.id

EvidenceFields == {"id", "status", "release"}

ReleasesInv ==
  /\ released => \E p \in publications : CatalogIs(p)
  /\ \A e \in evidence : /\ e = [f \in EvidenceFields |-> e[f]]
                         /\ e.release # "" => \E p \in publications : SaysSo(p, e)

LEMMA ReleasesInitially == Data!Init => ReleasesInv
BY ImportAssumption DEF Data!Init, ReleasesInv, EvidenceFields

\* Once a release is in, the catalogue is what it says.
LEMMA ReleaseIsIn ==
  ASSUME NEW dir \in PartDirs, Data!FilesMatch(dir), Data!Missing(dir) = {},
         catalog' = Data!Upserted(dir),
         NEW p, p = Data!PublicationOf(dir.manifest)
  PROVE  CatalogIs(p)'
<1>1. p.input.parts = dir.parts
  BY DEF Data!PublicationOf, Data!FilesMatch, Data!InputOf
<1>2. DOMAIN catalog' = DOMAIN catalog \cup Data!Skus(dir)
  BY DEF Data!Upserted
<1>3. \A s \in Data!Skus(dir) : \E q \in Data!ToSet(dir.parts) : q.sku = s
  BY DataElements DEF Data!Skus
<1>4. ASSUME NEW s \in Data!Skus(dir)
      PROVE  \E q \in Data!ToSet(dir.parts) :
               q.sku = s /\ q.specs = catalog'[s].specs /\ Data!StateOf(q) = catalog'[s].state
  <2> DEFINE q == CHOOSE q \in Data!ToSet(dir.parts) : q.sku = s
  <2>1. q \in Data!ToSet(dir.parts) /\ q.sku = s
    BY <1>3
  <2>2. catalog'[s] = [category |-> q.category, specs |-> q.specs, state |-> Data!StateOf(q),
                       active |-> Data!StateOf(q) = "active_core"]
    BY <1>2 DEF Data!Upserted
  <2> HIDE DEF q
  <2> QED
    BY <2>1, <2>2
<1>5. ASSUME NEW s \in DOMAIN catalog', catalog'[s].state # "retired" PROVE s \in Data!Skus(dir)
  BY <1>2, <1>5 DEF Data!Missing
<1>6. \A q \in Data!ToSet(dir.parts) : q.sku \in DOMAIN catalog'
  BY <1>2, DataElements DEF Data!Skus
<1> QED
  BY <1>1, <1>4, <1>5, <1>6 DEF CatalogIs

\* The rows of evidence after the import of a release.
LEMMA EvidenceIsIn ==
  ASSUME ReleasesInv, NEW dir \in PartDirs, Data!FilesMatch(dir), Data!ManifestLoads(dir.manifest),
         NEW taken, taken = [dir EXCEPT !.evidence = IF dir.manifest.schema = 2 THEN @ ELSE <<>>],
         NEW e, \/ e \in Data!Related(taken)
                \/ \E f \in Data!ToSet(taken.evidence) : e = Data!RowOf(f, dir.manifest.release),
         NEW p, p = Data!PublicationOf(dir.manifest)
  PROVE  /\ e = [f \in EvidenceFields |-> e[f]]
         /\ \/ SaysSo(p, e)
            \/ e.release = "" \/ \E q \in publications : SaysSo(q, e)
<1>1. dir = [f \in {"parts", "evidence", "manifest"} |-> dir[f]]
  BY ImportAssumption
<1>2. taken.manifest = dir.manifest /\ taken.evidence = p.input.evidence
  <2>1. p.input = Data!InputOf(dir.manifest, dir.parts, dir.evidence)
    BY DEF Data!PublicationOf, Data!FilesMatch
  <2>2. taken.manifest = dir.manifest
        /\ taken.evidence = IF dir.manifest.schema = 2 THEN dir.evidence ELSE <<>>
    BY <1>1
  <2>3. dir.manifest.schema = 1 \/ dir.manifest.schema = 2
    BY DEF Data!ManifestLoads
  <2> QED
    BY <2>1, <2>2, <2>3 DEF Data!InputOf
<1>3. p.release = dir.manifest.release
  BY DEF Data!PublicationOf
<1>4. CASE e \in Data!Related(taken)
  <2>1. PICK item \in evidence :
          e = IF item.release = "" /\ \E f \in Data!ToSet(taken.evidence) : Data!IdOf(f) = item.id
              THEN [item EXCEPT !.release = taken.manifest.release] ELSE item
    BY <1>4 DEF Data!Related
  <2>2. item = [f \in EvidenceFields |-> item[f]]
        /\ (item.release # "" => \E q \in publications : SaysSo(q, item))
    BY DEF ReleasesInv
  <2>3. CASE e = item
    BY <2>2, <2>3
  <2>4. CASE /\ \E f \in Data!ToSet(taken.evidence) : Data!IdOf(f) = item.id
             /\ e = [item EXCEPT !.release = taken.manifest.release]
    <3>1. e = [f \in EvidenceFields |-> e[f]] /\ e.release = taken.manifest.release /\ e.id = item.id
      <4> DEFINE name == taken.manifest.release
      <4>1. e = [item EXCEPT !.release = name] /\ item = [f \in EvidenceFields |-> item[f]]
        BY <2>2, <2>4
      <4> HIDE DEF name
      <4>2. e = [f \in EvidenceFields |-> e[f]]
        BY <4>1 DEF EvidenceFields
      <4>3. e.release = name /\ e.id = item.id
        BY <4>1 DEF EvidenceFields
      <4> QED
        BY <4>2, <4>3 DEF name
    <3> QED
      BY <1>2, <1>3, <2>4, <3>1 DEF SaysSo
  <2> QED
    BY <2>1, <2>3, <2>4
<1>5. CASE \E f \in Data!ToSet(taken.evidence) : e = Data!RowOf(f, dir.manifest.release)
  <2>1. PICK f \in Data!ToSet(taken.evidence) : e = Data!RowOf(f, dir.manifest.release)
    BY <1>5
  <2>2. e = [g \in EvidenceFields |-> e[g]] /\ e.release = p.release /\ e.id = Data!IdOf(f)
    BY <1>3, <2>1 DEF Data!RowOf, EvidenceFields
  <2> QED
    BY <1>2, <2>2 DEF SaysSo
<1> QED
  BY <1>4, <1>5

LEMMA ReleasesInductive == ReleasesInv /\ [Data!Next]_(Data!dataVars) => ReleasesInv'
<1> SUFFICES ASSUME ReleasesInv, [Data!Next]_(Data!dataVars) PROVE ReleasesInv'
  OBVIOUS
<1>1. ASSUME NEW dir \in PartDirs, Data!ImportParts(dir) PROVE ReleasesInv'
  BY <1>1 DEF Data!ImportParts, ReleasesInv, SaysSo
<1>2. ASSUME NEW dir \in PartDirs, Data!ImportRelease(dir) PROVE ReleasesInv'
  <2> DEFINE new == Data!PublicationOf(dir.manifest)
             taken == [dir EXCEPT !.evidence = IF dir.manifest.schema = 2 THEN @ ELSE <<>>]
  <2>1. /\ Data!FilesMatch(dir) /\ Data!ManifestLoads(dir.manifest) /\ Data!Missing(dir) = {}
        /\ catalog' = Data!Upserted(dir) /\ publications' = publications \cup {new}
        /\ evidence' = Data!Related(taken) \cup {Data!RowOf(e, dir.manifest.release)
                                                : e \in {e \in Data!ToSet(taken.evidence) : ~Data!Known(e)}}
    BY <1>2 DEF Data!ImportRelease
  <2>2. PICK p : p = new
    OBVIOUS
  <2>3. PICK r : r = taken
    OBVIOUS
  <2> HIDE DEF new, taken
  <2>4. CatalogIs(p)'
    BY <2>1, <2>2, ReleaseIsIn DEF new
  <2>5. \A q, e : SaysSo(q, e)' = SaysSo(q, e)
    BY DEF SaysSo
  <2>6. ASSUME NEW e \in evidence'
        PROVE  /\ e = [f \in EvidenceFields |-> e[f]]
               /\ e.release # "" => \E q \in publications' : SaysSo(q, e)
    <3>1. /\ e = [f \in EvidenceFields |-> e[f]]
          /\ SaysSo(p, e) \/ e.release = "" \/ \E q \in publications : SaysSo(q, e)
      <4>1. \/ e \in Data!Related(r)
            \/ \E f \in Data!ToSet(r.evidence) : e = Data!RowOf(f, dir.manifest.release)
        BY <2>1, <2>3
      <4>2. r = [dir EXCEPT !.evidence = IF dir.manifest.schema = 2 THEN @ ELSE <<>>]
        BY <2>3 DEF taken
      <4>3. p = Data!PublicationOf(dir.manifest)
        BY <2>2 DEF new
      <4> QED
        BY <2>1, <4>1, <4>2, <4>3, EvidenceIsIn
    <3>2. p \in publications' /\ publications \subseteq publications'
      BY <2>1, <2>2
    <3> QED
      BY <3>1, <3>2
  <2> QED
    BY <2>1, <2>2, <2>4, <2>5, <2>6 DEF ReleasesInv
<1>3. CASE UNCHANGED <<catalog, publications, evidence, released>>
  BY <1>3 DEF ReleasesInv, CatalogIs, SaysSo
<1> QED
  <2>1. \A dir \in PriceDirs : Data!ImportPriceRelease(dir) => UNCHANGED <<catalog, publications, evidence, released>>
    BY DEF Data!ImportPriceRelease
  <2>2. \A file \in PriceFiles, revision \in BOOLEAN :
          Data!ImportPrices(file, revision) => UNCHANGED <<catalog, publications, evidence, released>>
    BY DEF Data!ImportPrices
  <2>3. \A d \in Dates : Data!OpenByDate(d) => UNCHANGED <<catalog, publications, evidence, released>>
    BY DEF Data!OpenByDate
  <2>4. Data!OpenLatest \/ Data!ReadCandidates => UNCHANGED <<catalog, publications, evidence, released>>
    BY DEF Data!OpenLatest, Data!ReadCandidates
  <2>5. UNCHANGED Data!dataVars => UNCHANGED <<catalog, publications, evidence, released>>
    BY DEF Data!dataVars
  <2> QED
    BY <1>1, <1>2, <1>3, <2>1, <2>2, <2>3, <2>4, <2>5 DEF Data!Next

\* In every behaviour of the services the parts that are not retired are those
\* of one recorded release once a release is in, whatever was imported before,
\* again or without a manifest, and evidence stands for the files of the
\* release it names; for any directories (importparts/main.go:585).
THEOREM PartsStandForReleases == Spec => []RowsStandForReleases
<1>1. ReleasesInv => RowsStandForReleases
  BY DEF ReleasesInv, CatalogIs, SaysSo, RowsStandForReleases, Data!RowsStandForReleases
<1> QED
  BY <1>1, DataFollowed, ReleasesInitially, ReleasesInductive, PTL DEF Data!Spec

-----------------------------------------------------------------------------
(* The batches of prices *)

\* The extrema of sets of batches.
LEMMA Extrema ==
  ASSUME NEW n \in Nat, NEW S \in SUBSET (1..n), S # {}
  PROVE  /\ Data!Max(S) \in S /\ \A m \in S : m <= Data!Max(S)
         /\ Data!Min(S) \in S /\ \A m \in S : Data!Min(S) <= m
<1>1. S \in SUBSET Nat /\ \A m \in S : m <= n
  OBVIOUS
<1>2. \E x \in S : \A y \in S : x >= y
  BY <1>1, GreatestNumber
<1>3. \E x \in S : \A y \in S : x <= y
  BY <1>1, Joining!LeastOf
<1> QED
  BY <1>1, <1>2, <1>3 DEF Data!Max, Data!Min

DatesKnown == \A n \in DOMAIN snapshots : snapshots[n].date \in Nat

\* The batches of any selection have a latest one.
LEMMA LatestExists ==
  ASSUME NEW S, snapshots \in Seq(S), DatesKnown, NEW T \in SUBSET DOMAIN snapshots, T # {}
  PROVE  \E n \in T : \A m \in T \ {n} : Data!Later(n, m)
<1> DEFINE After(n) == {m \in T : Data!Later(m, n)}
           Afters == {After(n) : n \in T}
<1>1. Len(snapshots) \in Nat /\ DOMAIN snapshots = 1..Len(snapshots) /\ T \subseteq Nat
  OBVIOUS
<1>2. IsFiniteSet(T)
  <2>1. IsFiniteSet(1..Len(snapshots))
    BY <1>1, FS_Interval
  <2> QED
    BY <1>1, <2>1, FS_Subset
<1>3. Afters \subseteq FiniteSubsetsOf(T) /\ Afters # {}
  <2>1. \A n \in T : After(n) \in SUBSET T /\ IsFiniteSet(After(n))
    BY <1>2, FS_Subset
  <2> HIDE DEF After
  <2> QED
    BY <2>1 DEF FiniteSubsetsOf
<1>4. PICK n \in T : \A m \in T : <<After(m), After(n)>> \notin StrictSubsetOrdering(T)
  <2>1. IsWellFoundedOn(StrictSubsetOrdering(T), FiniteSubsetsOf(T))
    BY FS_StrictSubsetOrderingWellFounded
  <2>2. \E t \in Afters : \A u \in Afters : <<u, t>> \notin StrictSubsetOrdering(T)
    <3> HIDE DEF Afters
    <3> QED
      BY <1>3, <2>1, WFMin
  <2> HIDE DEF After
  <2> QED
    BY <2>2
<1>5. ASSUME NEW m \in T, Data!Later(m, n) PROVE FALSE
  <2>1. m \in After(n) /\ m \notin After(m)
    BY <1>1, <1>5 DEF Data!Later, DatesKnown
  <2>2. After(m) \subseteq After(n)
    BY <1>1, <1>5 DEF Data!Later, DatesKnown
  <2>3. After(m) \in SUBSET T /\ After(n) \in SUBSET T
    OBVIOUS
  <2> HIDE DEF After
  <2> QED
    BY <1>4, <2>1, <2>2, <2>3 DEF StrictSubsetOrdering
<1>6. \A m \in T \ {n} : Data!Later(n, m) \/ Data!Later(m, n)
  BY <1>1 DEF Data!Later, DatesKnown
<1> QED
  BY <1>5, <1>6

WasRecorded(p) ==
  \E q \in prices : q.snapshot = p.from /\ q.sku = p.sku /\ q.price = p.price /\ q.observed = p.observed

PricesInv ==
  /\ \E S : snapshots \in Seq(S)
  /\ DatesKnown
  /\ \A p \in prices : /\ p.snapshot \in DOMAIN snapshots
                       /\ p.carried \in BOOLEAN
                       /\ ~p.carried => p.from = p.snapshot
                       /\ p.carried => WasRecorded(p)

LEMMA PricesInitially == Data!Init => PricesInv
<1> SUFFICES ASSUME Data!Init PROVE PricesInv
  OBVIOUS
<1>1. snapshots = <<>> /\ prices = {}
  BY DEF Data!Init
<1>2. snapshots \in Seq({}) /\ DOMAIN snapshots = {}
  BY <1>1
<1> QED
  BY <1>1, <1>2 DEF PricesInv, DatesKnown

\* A batch is added whose prices are its own or were recorded.
OfNext(p) ==
  /\ p.snapshot = Len(snapshots) + 1 /\ p.carried \in BOOLEAN
  /\ ~p.carried => p.from = p.snapshot
  /\ p.carried => WasRecorded(p)

BatchAdded ==
  \E s, new : /\ snapshots' = Append(snapshots, s) /\ s.date \in Nat
              /\ prices' = prices \cup new
              /\ \A p \in new : OfNext(p)

LEMMA BatchesStand ==
  ASSUME PricesInv, BatchAdded
  PROVE  /\ PricesInv'
         /\ Len(snapshots) \in Nat /\ DOMAIN snapshots = 1..Len(snapshots)
         /\ DOMAIN snapshots' = 1..(Len(snapshots) + 1)
         /\ \A n \in DOMAIN snapshots : snapshots'[n] = snapshots[n]
         /\ prices \subseteq prices'
         /\ \A p \in prices' \ prices : p.snapshot = Len(snapshots) + 1
<1>1. PICK S : snapshots \in Seq(S)
  BY DEF PricesInv
<1>2. PICK s, new : /\ snapshots' = Append(snapshots, s) /\ s.date \in Nat
                    /\ prices' = prices \cup new
                    /\ \A p \in new : OfNext(p)
  BY DEF BatchAdded
<1>3. snapshots \in Seq(S \cup {s}) /\ s \in S \cup {s}
  <2>1. S \subseteq S \cup {s}
    OBVIOUS
  <2> QED
    BY <1>1, <2>1
<1>4. /\ Len(snapshots) \in Nat /\ DOMAIN snapshots = 1..Len(snapshots)
      /\ snapshots' \in Seq(S \cup {s})
      /\ DOMAIN snapshots' = 1..(Len(snapshots) + 1)
      /\ \A n \in DOMAIN snapshots : snapshots'[n] = snapshots[n]
      /\ snapshots'[Len(snapshots) + 1] = s
  BY <1>2, <1>3
<1>5. DatesKnown'
  <2> SUFFICES ASSUME NEW n \in DOMAIN snapshots' PROVE snapshots'[n].date \in Nat
    BY DEF DatesKnown
  <2>1. n \in DOMAIN snapshots \/ n = Len(snapshots) + 1
    BY <1>4
  <2> QED
    BY <1>2, <1>4, <2>1 DEF PricesInv, DatesKnown
<1>6. \A p : WasRecorded(p) => WasRecorded(p)'
  BY <1>2 DEF WasRecorded
<1>7. ASSUME NEW p \in prices'
      PROVE  /\ p.snapshot \in DOMAIN snapshots' /\ p.carried \in BOOLEAN
             /\ ~p.carried => p.from = p.snapshot
             /\ p.carried => WasRecorded(p)'
  <2>1. CASE p \in prices
    <3>1. p.snapshot \in DOMAIN snapshots'
      BY <1>4, <2>1 DEF PricesInv
    <3> QED
      BY <1>6, <2>1, <3>1 DEF PricesInv
  <2>2. CASE p \notin prices
    <3>1. OfNext(p)
      BY <1>2, <2>2
    <3>2. p.snapshot = Len(snapshots) + 1 /\ p.snapshot \in DOMAIN snapshots'
      BY <1>4, <3>1 DEF OfNext
    <3> QED
      BY <1>6, <3>1, <3>2 DEF OfNext
  <2> QED
    BY <2>1, <2>2
<1>8. PricesInv'
  BY <1>4, <1>5, <1>7 DEF PricesInv
<1>9. \A p \in prices' \ prices : p.snapshot = Len(snapshots) + 1
  BY <1>2 DEF OfNext
<1> QED
  BY <1>2, <1>4, <1>8, <1>9

\* A release of prices adds a batch: what it carries forward it took from
\* where it was recorded.
LEMMA ReleaseAdds ==
  ASSUME PricesInv, NEW dir \in PriceDirs, Data!ImportPriceRelease(dir)
  PROVE  BatchAdded
<1> DEFINE m  == dir.manifest
           id == Len(snapshots) + 1
           priced(item) == [snapshot |-> id, sku |-> item.sku, price |-> item.price, source |-> item.source,
                           observed |-> item.observed, carried |-> item.carried,
                           from |-> Data!SourceOf(item, Data!PreviousOf(m), id)]
           new == {priced(item) : item \in Data!ToSet(dir.selections)}
           s   == [date |-> m.date, file |-> m.input, release |-> m.release,
                   manifest |-> m, previous |-> Data!PreviousOf(m)]
<1>1. /\ snapshots' = Append(snapshots, s) /\ prices' = prices \cup new
      /\ Data!SelectionsFit(dir)
  BY DEF Data!ImportPriceRelease
<1>2. s.date \in Nat
  BY PriceAssumption
<1>3. PICK S : snapshots \in Seq(S)
  BY DEF PricesInv
<1>4. ASSUME NEW item \in Data!ToSet(dir.selections)
      PROVE  OfNext(priced(item))
  <2>1. PICK i \in DOMAIN dir.selections : dir.selections[i] = item
    BY DataElements
  <2>2. item.carried \in BOOLEAN /\ (item.carried => item.from # 0)
    BY <2>1, PriceAssumption
  <2>3. item.carried => Data!SourcesOf(item) # {}
    BY <1>1, <2>1, <2>2 DEF Data!SelectionsFit, Data!Carriable
  <2> DEFINE p == priced(item)
  <2>5. /\ p.snapshot = id /\ p.sku = item.sku /\ p.price = item.price /\ p.observed = item.observed
        /\ p.carried = item.carried /\ p.from = Data!SourceOf(item, Data!PreviousOf(m), id)
    OBVIOUS
  <2> HIDE DEF priced
  <2>6. CASE ~item.carried
    <3>1. p.from = id /\ p.snapshot = id /\ ~p.carried /\ p.carried \in BOOLEAN
      BY <2>2, <2>5, <2>6 DEF Data!SourceOf
    <3> QED
      BY <3>1 DEF OfNext
  <2>7. CASE item.carried
    <3>1. p.from = Data!Max(Data!SourcesOf(item))
      BY <2>2, <2>5, <2>7 DEF Data!SourceOf
    <3>2. Len(snapshots) \in Nat /\ DOMAIN snapshots = 1..Len(snapshots)
      BY <1>3
    <3>3. Data!SourcesOf(item) \in SUBSET (1..Len(snapshots))
      BY <3>2 DEF Data!SourcesOf, Data!Alike, PricesInv
    <3>4. p.from \in Data!SourcesOf(item)
      BY <2>3, <2>7, <3>1, <3>2, <3>3, Extrema
    <3>5. PICK q \in Data!Alike(item) : q.snapshot = p.from
      BY <3>4 DEF Data!SourcesOf
    <3>6. WasRecorded(p)
      BY <2>5, <3>5 DEF Data!Alike, WasRecorded
    <3> QED
      BY <2>2, <2>5, <2>7, <3>6 DEF OfNext
  <2> QED
    BY <2>2, <2>6, <2>7
<1>9. \A p \in new : OfNext(p)
  BY <1>4
<1> HIDE DEF s, new
<1> QED
  BY <1>1, <1>2, <1>9 DEF BatchAdded

\* So does a file: an older item was recorded, and points to where that one was.
LEMMA FileAdds ==
  ASSUME PricesInv, NEW file \in PriceFiles, NEW revision, Data!ImportPrices(file, revision)
  PROVE  BatchAdded
<1> DEFINE day == Data!DayOf(file)
           id  == Len(snapshots) + 1
           source(item) == CHOOSE p \in Data!Older(item, day) :
                            \A q \in Data!Older(item, day) :
                              q.snapshot = p.snapshot \/ Data!Later(p.snapshot, q.snapshot)
           from(item) == IF item.observed = day THEN id ELSE source(item).from
           priced(item) == [snapshot |-> id, sku |-> item.sku, price |-> item.price, source |-> item.source,
                           observed |-> item.observed, carried |-> item.observed < day, from |-> from(item)]
           new == {priced(item) : item \in Data!ToSet(file.rows)}
           s   == [date |-> day, file |-> [rows |-> file.rows], release |-> "",
                   manifest |-> Data!None, previous |-> 0]
<1>1. /\ snapshots' = Append(snapshots, s) /\ prices' = prices \cup new
      /\ Data!FileLoads(file)
      /\ \A i \in DOMAIN file.rows : file.rows[i].observed < day => Data!Older(file.rows[i], day) # {}
  BY DEF Data!ImportPrices
<1>2. PICK S : snapshots \in Seq(S)
  BY DEF PricesInv
<1>3. day \in Nat
  <2>1. 1 \in DOMAIN file.rows
    <3>1. file.rows # <<>> /\ file.rows \in Seq({file.rows[i] : i \in DOMAIN file.rows})
      BY <1>1, PriceAssumption DEF Data!FileLoads
    <3> QED
      BY <3>1
  <2> QED
    BY <2>1, PriceAssumption DEF Data!DayOf
<1>4. ASSUME NEW item \in Data!ToSet(file.rows)
      PROVE  OfNext(priced(item))
  <2>1. PICK i \in DOMAIN file.rows : file.rows[i] = item
    BY DataElements
  <2>2. item.observed \in Nat /\ item.observed <= day
    BY <1>1, <2>1, PriceAssumption DEF Data!FileLoads
  <2>3. item.observed < day => Data!Older(item, day) # {}
    BY <1>1, <2>1
  <2> DEFINE p == priced(item)
  <2>5. /\ p.snapshot = id /\ p.sku = item.sku /\ p.price = item.price /\ p.observed = item.observed
        /\ p.carried = (item.observed < day) /\ p.from = from(item)
    OBVIOUS
  <2> HIDE DEF priced
  <2>6. CASE item.observed = day
    <3>1. ~(item.observed < day)
      BY <1>3, <2>6
    <3>2. from(item) = id
      BY <2>6
    <3> HIDE DEF from
    <3>3. p.from = id /\ p.snapshot = id
      BY <2>5, <3>2
    <3>4. p.carried = FALSE
      <4> DEFINE older == item.observed < day
      <4>1. p.carried = older /\ ~older /\ older \in BOOLEAN
        BY <2>5, <3>1
      <4> HIDE DEF older
      <4> QED
        BY <4>1
    <3> QED
      BY <3>3, <3>4 DEF OfNext
  <2>7. CASE item.observed < day
    <3> DEFINE O == Data!Older(item, day)
               T == {q.snapshot : q \in O}
    <3>1. T \in SUBSET DOMAIN snapshots /\ T # {}
      BY <2>3, <2>7 DEF Data!Older, Data!Alike, PricesInv
    <3>2. PICK n \in T : \A k \in T \ {n} : Data!Later(n, k)
      <4>1. DatesKnown
        BY DEF PricesInv
      <4> HIDE DEF T
      <4> QED
        BY <1>2, <3>1, <4>1, LatestExists
    <3>3. \E q \in O : \A r \in O : r.snapshot = q.snapshot \/ Data!Later(q.snapshot, r.snapshot)
      <4>1. PICK q \in O : q.snapshot = n
        BY <3>2
      <4> QED
        BY <3>2, <4>1
    <3>4. source(item) \in O
      <4> HIDE DEF O
      <4> QED
        BY <3>3 DEF O
    <3>5. PICK q \in O : q = source(item)
      BY <3>4
    <3>6. q \in prices /\ q.sku = item.sku /\ q.price = item.price /\ q.observed = item.observed
      BY <3>5 DEF Data!Older, Data!Alike
    <3>7. p.from = q.from
      BY <1>3, <2>2, <2>5, <2>7, <3>5
    <3>8. WasRecorded(p)
      <4> HIDE DEF p, source, from
      <4>1. CASE q.carried
        <5>1. WasRecorded(q)
          BY <3>6, <4>1 DEF PricesInv
        <5>2. PICK r \in prices : r.snapshot = q.from /\ r.sku = q.sku /\ r.price = q.price /\ r.observed = q.observed
          BY <5>1 DEF WasRecorded
        <5> QED
          BY <2>5, <3>6, <3>7, <5>2 DEF WasRecorded
      <4>2. CASE ~q.carried
        <5>1. q.from = q.snapshot
          BY <3>6, <4>2 DEF PricesInv
        <5> QED
          BY <2>5, <3>6, <3>7, <5>1 DEF WasRecorded
      <4> QED
        BY <4>1, <4>2
    <3>9. p.carried = TRUE /\ p.snapshot = id
      BY <2>5, <2>7
    <3> QED
      BY <3>8, <3>9 DEF OfNext
  <2> QED
    BY <1>3, <2>2, <2>6, <2>7
<1>6. s.date \in Nat
  BY <1>3
<1>9. \A p \in new : OfNext(p)
  BY <1>4
<1> HIDE DEF s, new
<1> QED
  BY <1>1, <1>6, <1>9 DEF BatchAdded

\* A step adds a batch or leaves the batches alone.
LEMMA BatchSteps ==
  ASSUME PricesInv, [Data!Next]_(Data!dataVars)
  PROVE  \/ BatchAdded /\ UNCHANGED view
         \/ UNCHANGED <<snapshots, prices>>
<1>1. \A dir \in PartDirs : Data!ImportParts(dir) \/ Data!ImportRelease(dir) => UNCHANGED <<snapshots, prices>>
  BY DEF Data!ImportParts, Data!ImportRelease
<1>2. \A dir \in PriceDirs : Data!ImportPriceRelease(dir) => BatchAdded /\ UNCHANGED view
  BY ReleaseAdds DEF Data!ImportPriceRelease
<1>3. \A file \in PriceFiles, revision \in BOOLEAN : Data!ImportPrices(file, revision) => BatchAdded /\ UNCHANGED view
  BY FileAdds DEF Data!ImportPrices
<1>4. \A d \in Dates : Data!OpenByDate(d) => UNCHANGED <<snapshots, prices>>
  BY DEF Data!OpenByDate
<1>5. Data!OpenLatest \/ Data!ReadCandidates => UNCHANGED <<snapshots, prices>>
  BY DEF Data!OpenLatest, Data!ReadCandidates
<1>6. UNCHANGED Data!dataVars => UNCHANGED <<snapshots, prices>>
  BY DEF Data!dataVars
<1> QED
  BY <1>1, <1>2, <1>3, <1>4, <1>5, <1>6 DEF Data!Next

LEMMA PricesInductive == PricesInv /\ [Data!Next]_(Data!dataVars) => PricesInv'
<1> SUFFICES ASSUME PricesInv, [Data!Next]_(Data!dataVars) PROVE PricesInv'
  OBVIOUS
<1>1. CASE UNCHANGED <<snapshots, prices>>
  BY <1>1 DEF PricesInv, DatesKnown, WasRecorded
<1> QED
  BY <1>1, BatchSteps, BatchesStand

\* In every behaviour of the services a price that was carried forward is in
\* the batch it is said to come from, at that price and observed on that day,
\* through any number of releases and files that carry each other's prices on
\* (importpriceobservations/main.go:391, importprices/main.go:175).
THEOREM CarriedStaysRecorded == Spec => []CarriedWasRecorded
<1>1. PricesInv => CarriedWasRecorded
  BY DEF PricesInv, WasRecorded, CarriedWasRecorded, Data!CarriedWasRecorded
<1> QED
  BY <1>1, DataFollowed, PricesInitially, PricesInductive, PTL DEF Data!Spec

-----------------------------------------------------------------------------
(* The readers *)

ViewFields == {"pc", "date", "snapshot", "rows"}

ViewInv ==
  /\ PricesInv
  /\ view = [f \in ViewFields |-> view[f]] /\ view.pc \in {"idle", "opened", "read"}
  /\ view.pc = "idle" => view.date = 0
  /\ view.pc # "idle" => view.snapshot \in DOMAIN snapshots
  /\ ViewStands

LEMMA ViewInitially == Data!Init => ViewInv
<1> SUFFICES ASSUME Data!Init PROVE ViewInv
  OBVIOUS
<1>1. view = [pc |-> "idle", date |-> 0, snapshot |-> 0, rows |-> {}]
  BY DEF Data!Init
<1>2. ViewStands
  BY <1>1 DEF ViewStands, Data!ViewStands
<1> QED
  BY <1>1, <1>2, PricesInitially DEF ViewInv, ViewFields

\* A batch that is there keeps its prices, and a day its first batch.
LEMMA BatchesKeep ==
  ASSUME PricesInv, BatchAdded
  PROVE  /\ \A n \in DOMAIN snapshots : \A c : Data!PriceIn(n, c)' = Data!PriceIn(n, c)
         /\ \A d : Data!OfDate(d) # {} => Data!SnapshotByDate(d)' = Data!SnapshotByDate(d)
<1>1. /\ Len(snapshots) \in Nat /\ DOMAIN snapshots = 1..Len(snapshots)
      /\ DOMAIN snapshots' = 1..(Len(snapshots) + 1)
      /\ \A n \in DOMAIN snapshots : snapshots'[n] = snapshots[n]
      /\ prices \subseteq prices'
      /\ \A p \in prices' \ prices : p.snapshot = Len(snapshots) + 1
  BY BatchesStand
<1>2. ASSUME NEW n \in DOMAIN snapshots, NEW c PROVE Data!PriceIn(n, c)' = Data!PriceIn(n, c)
  <2>1. {p \in prices' : p.snapshot = n /\ p.sku = c} = {p \in prices : p.snapshot = n /\ p.sku = c}
    <3>1. n # Len(snapshots) + 1
      BY <1>1
    <3> QED
      BY <1>1, <3>1
  <2> DEFINE Of(T) == IF T = {} THEN 0 ELSE (CHOOSE p \in T : TRUE).price
  <2>2. Data!PriceIn(n, c) = Of({p \in prices : p.snapshot = n /\ p.sku = c})
    BY DEF Data!PriceIn
  <2>3. Data!PriceIn(n, c)' = Of({p \in prices' : p.snapshot = n /\ p.sku = c})
    BY DEF Data!PriceIn
  <2> HIDE DEF Of
  <2> QED
    BY <2>1, <2>2, <2>3
<1>3. ASSUME NEW d, Data!OfDate(d) # {} PROVE Data!SnapshotByDate(d)' = Data!SnapshotByDate(d)
  <2> DEFINE S == {n \in DOMAIN snapshots : snapshots[n].date = d}
             T == {n \in DOMAIN snapshots' : snapshots'[n].date = d}
  <2>1. /\ S \in SUBSET (1..Len(snapshots)) /\ S # {}
        /\ T \in SUBSET (1..(Len(snapshots) + 1)) /\ T # {}
    BY <1>1, <1>3 DEF Data!OfDate, Data!Ids
  <2>2. S \subseteq T /\ \A n \in T \ S : n = Len(snapshots) + 1
    BY <1>1
  <2>3. Data!SnapshotByDate(d) = Data!Min(S) /\ Data!SnapshotByDate(d)' = Data!Min(T)
    BY <2>1 DEF Data!SnapshotByDate, Data!OfDate, Data!Ids
  <2> HIDE DEF S, T
  <2>4. /\ Data!Min(S) \in S /\ \A m \in S : Data!Min(S) <= m
        /\ Data!Min(T) \in T /\ \A m \in T : Data!Min(T) <= m
    <3>1. Len(snapshots) + 1 \in Nat
      BY <1>1
    <3> QED
      BY <1>1, <2>1, <3>1, Extrema
  <2>5. Data!Min(S) \in 1..Len(snapshots) /\ Data!Min(T) \in 1..(Len(snapshots) + 1)
    BY <2>1, <2>4
  <2>6. Data!Min(T) <= Data!Min(S)
    BY <2>2, <2>4
  <2>7. Data!Min(T) \in S
    BY <1>1, <2>2, <2>4, <2>5, <2>6
  <2>8. Data!Min(S) <= Data!Min(T)
    BY <2>4, <2>7
  <2> QED
    BY <1>1, <2>3, <2>5, <2>6, <2>8
<1> QED
  BY <1>2, <1>3

\* A batch that is named is one of the batches.
LEMMA NamedBatch ==
  ASSUME PricesInv
  PROVE  /\ Data!LatestSnapshot # 0 => Data!LatestSnapshot \in DOMAIN snapshots
         /\ \A d : Data!SnapshotByDate(d) # 0 =>
                     Data!SnapshotByDate(d) \in DOMAIN snapshots /\ Data!OfDate(d) # {}
<1>1. PICK S : snapshots \in Seq(S)
  BY DEF PricesInv
<1>2. Len(snapshots) \in Nat /\ DOMAIN snapshots = 1..Len(snapshots)
  BY <1>1
<1>3. ASSUME DOMAIN snapshots # {} PROVE Data!LatestSnapshot \in DOMAIN snapshots
  <2>1. \E n \in DOMAIN snapshots : \A m \in DOMAIN snapshots \ {n} : Data!Later(n, m)
    BY <1>1, <1>3, LatestExists DEF PricesInv
  <2> QED
    BY <1>3, <2>1 DEF Data!LatestSnapshot, Data!Ids
<1>4. ASSUME NEW d, Data!OfDate(d) # {} PROVE Data!SnapshotByDate(d) \in DOMAIN snapshots
  <2>1. Data!OfDate(d) \in SUBSET (1..Len(snapshots))
    BY <1>2 DEF Data!OfDate, Data!Ids
  <2>2. Data!Min(Data!OfDate(d)) \in Data!OfDate(d)
    BY <1>2, <1>4, <2>1, Extrema
  <2> QED
    BY <1>2, <1>4, <2>1, <2>2 DEF Data!SnapshotByDate
<1> QED
  BY <1>3, <1>4 DEF Data!LatestSnapshot, Data!SnapshotByDate, Data!Ids

LEMMA ViewInductive == ViewInv /\ [Data!Next]_(Data!dataVars) => ViewInv'
<1> SUFFICES ASSUME ViewInv, [Data!Next]_(Data!dataVars) PROVE ViewInv'
  OBVIOUS
<1>1. PricesInv /\ PricesInv'
  BY PricesInductive DEF ViewInv
<1>2. CASE BatchAdded /\ UNCHANGED view
  <2>1. /\ \A n \in DOMAIN snapshots : n \in DOMAIN snapshots'
        /\ Len(snapshots) \in Nat /\ DOMAIN snapshots = 1..Len(snapshots)
    <3>1. /\ Len(snapshots) \in Nat /\ DOMAIN snapshots = 1..Len(snapshots)
          /\ DOMAIN snapshots' = 1..(Len(snapshots) + 1)
      BY <1>1, <1>2, BatchesStand
    <3> QED
      BY <3>1
  <2>2. ASSUME view.pc = "read", NEW q \in view.rows
        PROVE  q.price = Data!PriceIn(view.snapshot, q.sku)'
    <3>1. view.snapshot \in DOMAIN snapshots /\ q.price = Data!PriceIn(view.snapshot, q.sku)
      BY <2>2 DEF ViewInv, ViewStands, Data!ViewStands
    <3>2. PICK n \in DOMAIN snapshots : n = view.snapshot
      BY <3>1
    <3>3. Data!PriceIn(n, q.sku)' = Data!PriceIn(n, q.sku)
      BY <1>1, <1>2, BatchesKeep
    <3> QED
      BY <1>2, <3>1, <3>2, <3>3
  <2>3. ASSUME view.date # 0 PROVE Data!SnapshotByDate(view.date)' = view.snapshot
    <3>1. view.snapshot \in DOMAIN snapshots /\ Data!SnapshotByDate(view.date) = view.snapshot
      BY <2>3 DEF ViewInv, ViewStands, Data!ViewStands
    <3>2. Data!OfDate(view.date) # {}
      BY <2>1, <3>1 DEF Data!SnapshotByDate
    <3>3. PICK d : d = view.date
      OBVIOUS
    <3>4. Data!SnapshotByDate(d)' = Data!SnapshotByDate(d)
      BY <1>1, <1>2, <3>2, <3>3, BatchesKeep
    <3> QED
      BY <1>2, <3>1, <3>3, <3>4
  <2>4. ViewStands'
    BY <1>2, <2>2, <2>3 DEF ViewStands, Data!ViewStands
  <2> QED
    BY <1>1, <1>2, <2>1, <2>4 DEF ViewInv
<1>3. CASE UNCHANGED <<snapshots, prices, view>>
  BY <1>1, <1>3 DEF ViewInv, ViewStands, Data!ViewStands, Data!PriceIn, Data!SnapshotByDate, Data!OfDate, Data!Ids
<1>4. ASSUME NEW d, NEW n, n \in DOMAIN snapshots, d # 0 => Data!SnapshotByDate(d) = n,
             UNCHANGED <<snapshots, prices>>,
             view' = [pc |-> "opened", date |-> d, snapshot |-> n, rows |-> {}]
      PROVE  ViewInv'
  <2>1. view' = [f \in ViewFields |-> view'[f]] /\ view'.pc = "opened" /\ view'.date = d /\ view'.snapshot = n
    BY <1>4 DEF ViewFields
  <2>2. d # 0 => Data!SnapshotByDate(d)' = n
    BY <1>4 DEF Data!SnapshotByDate, Data!OfDate, Data!Ids
  <2>3. ViewStands'
    BY <2>1, <2>2 DEF ViewStands, Data!ViewStands
  <2> QED
    BY <1>1, <1>4, <2>1, <2>3 DEF ViewInv
<1>5. ASSUME Data!OpenLatest PROVE ViewInv'
  <2>1. /\ Data!LatestSnapshot # 0 /\ UNCHANGED <<snapshots, prices>>
        /\ view' = [pc |-> "opened", date |-> 0, snapshot |-> Data!LatestSnapshot, rows |-> {}]
    BY <1>5 DEF Data!OpenLatest
  <2> QED
    BY <1>1, <1>4, <2>1, NamedBatch
<1>6. ASSUME NEW d \in Dates, Data!OpenByDate(d) PROVE ViewInv'
  <2>1. /\ Data!SnapshotByDate(d) # 0 /\ UNCHANGED <<snapshots, prices>>
        /\ view' = [pc |-> "opened", date |-> d, snapshot |-> Data!SnapshotByDate(d), rows |-> {}]
    BY <1>6 DEF Data!OpenByDate
  <2> QED
    BY <1>1, <1>4, <2>1, NamedBatch
<1>7. ASSUME Data!ReadCandidates PROVE ViewInv'
  <2> DEFINE found == {[sku |-> c, price |-> Data!PriceIn(view.snapshot, c)]
                         : c \in {c \in DOMAIN catalog : catalog[c].active}}
  <2>1. /\ view.pc = "opened" /\ UNCHANGED <<snapshots, prices>>
        /\ view' = [view EXCEPT !.pc = "read", !.rows = found]
    BY <1>7 DEF Data!ReadCandidates, Data!BatchOfView
  <2>2. \A q \in found : q.price = Data!PriceIn(view.snapshot, q.sku)
    OBVIOUS
  <2> HIDE DEF found
  <2>3. /\ view' = [f \in ViewFields |-> view'[f]] /\ view'.pc = "read" /\ view'.rows = found
        /\ view'.date = view.date /\ view'.snapshot = view.snapshot
    BY <2>1 DEF ViewInv, ViewFields
  <2>4. \A n, c : Data!PriceIn(n, c)' = Data!PriceIn(n, c)
    BY <2>1 DEF Data!PriceIn
  <2>5. \A d : Data!SnapshotByDate(d)' = Data!SnapshotByDate(d)
    BY <2>1 DEF Data!SnapshotByDate, Data!OfDate, Data!Ids
  <2>6. \A q \in view'.rows : q.price = Data!PriceIn(view.snapshot, q.sku)'
    <3>1. PICK n : n = view.snapshot
      OBVIOUS
    <3>2. \A q \in found : q.price = Data!PriceIn(n, q.sku)'
      BY <2>2, <2>4, <3>1
    <3> QED
      BY <2>3, <3>1, <3>2
  <2>7. view.date # 0 => Data!SnapshotByDate(view.date)' = view.snapshot
    <3>1. PICK d : d = view.date
      OBVIOUS
    <3> QED
      BY <2>3, <2>5, <3>1 DEF ViewInv, ViewStands, Data!ViewStands
  <2>8. ViewStands'
    BY <2>3, <2>6, <2>7 DEF ViewStands, Data!ViewStands
  <2> QED
    BY <1>1, <2>1, <2>3, <2>8 DEF ViewInv
<1> QED
  <2>1. \A dir \in PartDirs : Data!ImportParts(dir) \/ Data!ImportRelease(dir) => UNCHANGED <<snapshots, prices, view>>
    BY DEF Data!ImportParts, Data!ImportRelease
  <2>2. \A dir \in PriceDirs : Data!ImportPriceRelease(dir) => BatchAdded /\ UNCHANGED view
    BY <1>1, ReleaseAdds DEF Data!ImportPriceRelease
  <2>3. \A file \in PriceFiles, revision \in BOOLEAN :
          Data!ImportPrices(file, revision) => BatchAdded /\ UNCHANGED view
    BY <1>1, FileAdds DEF Data!ImportPrices
  <2>4. UNCHANGED Data!dataVars => UNCHANGED <<snapshots, prices, view>>
    BY DEF Data!dataVars
  <2> QED
    BY <1>2, <1>3, <1>5, <1>6, <1>7, <2>1, <2>2, <2>3, <2>4 DEF Data!Next

\* In every behaviour of the services a reader that opened a batch reads its
\* prices and no other's, and a day goes on naming the batch it named, whatever
\* is imported between its two reads (store.go:183, :313).
THEOREM ReadersStayInOneBatch == Spec => []ViewStands
<1>1. ViewInv => ViewStands
  BY DEF ViewInv
<1> QED
  BY <1>1, DataFollowed, ViewInitially, ViewInductive, PTL DEF Data!Spec

-----------------------------------------------------------------------------
(* The catalogue of failed cases (BadCases) *)

LEMMA CasesFollowed == Spec => Cases!Spec
<1>1. Init => Cases!Init
  BY DEF Init
<1>2. [Next]_vars => [Cases!Next]_(Cases!vars)
  BY DEF Next, vars, failed, Cases!vars
<1> QED
  BY <1>1, <1>2, PTL DEF Spec, Cases!Spec

\* What an evaluation writes of a try, and a run whose files came to harm
\* still says it.
TryFits(t) ==
  /\ t.skipped \in BOOLEAN /\ t.veto \in BOOLEAN
  /\ t.failed \subseteq t.judged \ {""}
  /\ "veto" \in t.failed => t.veto

RunFits(r) ==
  /\ r = [f \in DOMAIN r |-> r[f]] /\ {"rows", "harm", "report"} \subseteq DOMAIN r
  /\ \A t \in r.rows : TryFits(t)

DiskInv ==
  /\ disk = [n \in Runs |-> disk[n]]
  /\ \A n \in Runs : disk[n] # Cases!Absent => RunFits(disk[n])

LEMMA DiskInitially == Cases!Init => DiskInv
BY DEF Cases!Init, DiskInv

LEMMA DiskInductive == DiskInv /\ [Cases!Next]_(Cases!vars) => DiskInv'
<1> SUFFICES ASSUME DiskInv, [Cases!Next]_(Cases!vars) PROVE DiskInv'
  OBVIOUS
<1>1. ASSUME NEW n \in Runs, NEW r, r # Cases!Absent => RunFits(r), disk' = [disk EXCEPT ![n] = r]
      PROVE  DiskInv'
  BY <1>1 DEF DiskInv
<1>2. ASSUME NEW n \in Runs, Cases!Record(n) PROVE DiskInv'
  <2>1. PICK r \in Recorded[n] : disk' = [disk EXCEPT ![n] = r]
    BY <1>2 DEF Cases!Record
  <2>2. RunFits(r)
    BY TryAssumption DEF RunFits, TryFits
  <2> QED
    BY <1>1, <2>1, <2>2
<1>3. ASSUME NEW n \in Runs, Cases!Remove(n) PROVE DiskInv'
  BY <1>1, <1>3 DEF Cases!Remove
<1>4. ASSUME NEW n \in Runs, NEW kind \in Cases!Harms, Cases!Harm(n, kind) PROVE DiskInv'
  <2>1. RunFits(disk[n]) /\ disk = [m \in Runs |-> disk[m]]
    BY <1>4 DEF Cases!Harm, Cases!Present, Cases!Listed, DiskInv
  <2> DEFINE harm   == disk[n].harm \cup {kind}
             wrote  == IF kind = "report unreadable" THEN "changed" ELSE disk[n].report
             harmed == [disk[n] EXCEPT !.harm = harm, !.report = wrote]
  <2>2. disk' = [disk EXCEPT ![n].harm = harm, ![n].report = wrote]
    BY <1>4 DEF Cases!Harm
  <2> HIDE DEF harm, wrote
  <2>3. harmed = [f \in DOMAIN harmed |-> harmed[f]] /\ DOMAIN harmed = DOMAIN disk[n]
    OBVIOUS
  <2>4. harmed.rows = disk[n].rows
    BY <2>1 DEF RunFits
  <2>5. disk' = [disk EXCEPT ![n] = harmed]
    BY <2>1, <2>2
  <2> HIDE DEF harmed
  <2>6. RunFits(harmed)
    BY <2>1, <2>3, <2>4 DEF RunFits
  <2> QED
    BY <1>1, <2>5, <2>6
<1>5. CASE UNCHANGED disk
  BY <1>5 DEF DiskInv
<1> QED
  BY <1>2, <1>3, <1>4, <1>5 DEF Cases!Next, Cases!Edit, Cases!vars

\* A review that names a failure resolves to it.
LEMMA NamedIsResolved ==
  ASSUME NEW n, Cases!Listed(disk[n]), NEW t, t \in Cases!Rows(disk[n]), TryFits(t),
         NEW o, o \in Cases!FailuresOf(n, t), o.state = "failed",
         NEW ref, Cases!Names(ref, o)
  PROVE  o \in Cases!Resolve(ref)
<1>1. PICK a : /\ o = Cases!Occurrence(n, t.case, t.repeat, a, "", "failed") /\ ~t.skipped
               /\ a \in t.failed \/ (a = "veto" /\ t.veto)
  <2> DEFINE seen(b, state) == Cases!Occurrence(n, t.case, t.repeat, b, "", state)
  <2>1. \A b, state : seen(b, state).state = state
    BY DEF Cases!Occurrence
  <2>2. ~t.skipped
    <3> SUFFICES ASSUME t.skipped PROVE FALSE
      OBVIOUS
    <3>1. o = seen("skipped", "skipped")
      BY DEF Cases!FailuresOf
    <3> HIDE DEF seen
    <3> QED
      BY <2>1, <3>1
  <2>3. \/ \E b \in t.failed : o = seen(b, "failed")
        \/ t.veto /\ o = seen("veto", "failed")
        \/ o = seen("unrecorded", "incomplete")
    BY <2>2 DEF Cases!FailuresOf
  <2> HIDE DEF seen
  <2>4. o # seen("unrecorded", "incomplete")
    BY <2>1
  <2> QED
    BY <2>2, <2>3, <2>4 DEF seen
<1>2. /\ o.run = n /\ o.case = t.case /\ o.repeat = t.repeat /\ o.assertion = a /\ o.metric = ""
  BY <1>1 DEF Cases!Occurrence
<1>3. /\ ref.run = n /\ ref.case = t.case /\ ref.assertion = a /\ ref.metric = ""
      /\ ref.repeat \in {0, t.repeat}
  BY <1>2 DEF Cases!Names
<1>4. Cases!StateOf(ref, t) = "failed"
  <2>1. CASE a = "veto"
    <3>1. t.veto /\ ~t.skipped
      BY <1>1, <2>1 DEF TryFits
    <3> QED
      BY <1>3, <2>1, <3>1 DEF Cases!StateOf
  <2>2. CASE a # "veto"
    <3>1. a # "" /\ a \in t.judged /\ a \in t.failed /\ ~t.skipped
      BY <1>1, <2>2 DEF TryFits
    <3> QED
      BY <1>3, <2>2, <3>1 DEF Cases!StateOf
  <2> QED
    BY <2>1, <2>2
<1>5. t \in Cases!Tries(disk[ref.run], ref.case)
  BY <1>3 DEF Cases!Tries
<1> DEFINE named == {u \in Cases!Tries(disk[ref.run], ref.case) : ref.repeat \in {0, u.repeat}}
           told(u) == Cases!Occurrence(ref.run, ref.case, u.repeat, ref.assertion, ref.metric, Cases!StateOf(ref, u))
<1>6. t \in named
  BY <1>3, <1>5
<1>7. Cases!Resolve(ref) = {told(u) : u \in named}
  BY <1>3, <1>6 DEF Cases!Resolve
<1>8. told(t) = o
  BY <1>1, <1>3, <1>4
<1> HIDE DEF named, told
<1> QED
  BY <1>6, <1>7, <1>8

\* In every behaviour of the services each assertion that failed in a run that
\* can be read is shown as failed by some entry of the catalogue, whatever
\* reviews the index holds and whatever became of the files
\* (bad_cases.go:619); for any runs and any index.
THEOREM FailuresAreShown == Spec => []NothingFailedIsHidden
<1>1. DiskInv => NothingFailedIsHidden
  <2> SUFFICES ASSUME DiskInv, NEW n \in Cases!Present, NEW t \in Cases!Rows(disk[n]),
                      NEW o \in Cases!FailuresOf(n, t), o.state = "failed"
               PROVE  \E e \in Cases!Catalog : o \in e.shown
    BY DEF NothingFailedIsHidden, Cases!NothingFailedIsHidden
  <2>1. Cases!Listed(disk[n]) /\ n \in Runs
    BY DEF Cases!Present
  <2>2. TryFits(t)
    BY <2>1 DEF Cases!Listed, DiskInv, RunFits, Cases!Rows
  <2>3. o \in Cases!Facts
    BY DEF Cases!Facts
  <2>4. CASE o \in Cases!Unclaimed
    <3> DEFINE k == Cases!KeyOf(o)
               entry(j) == [id |-> "fact", kind |-> IF j.metric = "" THEN "question" ELSE "run",
                            status |-> "unanalysed",
                            shown |-> {p \in Cases!Unclaimed : Cases!KeyOf(p) = j}]
    <3>1. entry(k) \in Cases!Automatic
      BY <2>4 DEF Cases!Automatic
    <3>2. o \in entry(k).shown
      BY <2>4
    <3> QED
      BY <3>1, <3>2 DEF Cases!Catalog
  <2>5. CASE o \notin Cases!Unclaimed
    <3>1. PICK rv \in Cases!Adopted.reviews : \E ref \in rv.refs : Cases!Names(ref, o)
      BY <2>3, <2>5 DEF Cases!Unclaimed
    <3>2. PICK ref \in rv.refs : Cases!Names(ref, o)
      BY <3>1
    <3>3. o \in Cases!Resolve(ref)
      BY <2>1, <2>2, <3>2, NamedIsResolved
    <3> DEFINE states == UNION {Cases!Resolve(f) : f \in rv.refs}
               entry == [id |-> rv.id, kind |-> rv.kind, status |-> Cases!StatusOf(rv), shown |-> states]
    <3>4. o \in states
      BY <3>2, <3>3
    <3>5. entry \in Cases!Reviewed
      BY DEF Cases!Reviewed
    <3>6. entry.shown = states
      OBVIOUS
    <3> HIDE DEF entry, states
    <3> QED
      BY <3>4, <3>5, <3>6 DEF Cases!Catalog
  <2> QED
    BY <2>4, <2>5
<1> QED
  BY <1>1, CasesFollowed, DiskInitially, DiskInductive, PTL DEF Cases!Spec

-----------------------------------------------------------------------------
(* A run of the evaluation and its gates *)

LEMMA EvalCardinality == \A S : Eval!Cardinality(S) = Cardinality(S)
BY DEF Eval!Cardinality, Cardinality

LEMMA JoiningFinite == \A S : IsFiniteSet(S) => Joining!IsFiniteSet(S)
BY DEF Joining!IsFiniteSet, IsFiniteSet

IsList(s) == Len(s) \in Nat /\ s = [i \in 1..Len(s) |-> s[i]]

LEMMA ListGrows ==
  ASSUME NEW s, NEW e, IsList(s)
  PROVE  /\ IsList(Append(s, e)) /\ Len(Append(s, e)) = Len(s) + 1
         /\ Append(s, e)[Len(s) + 1] = e
         /\ \A i \in 1..Len(s) : Append(s, e)[i] = s[i]
BY Joining!ListGrows DEF IsList, Joining!IsList

\* The cases of a run: a list of cases of the dataset.
LEMMA SelectedCases ==
  /\ IsList(Eval!Selected)
  /\ \A i \in 1..Len(Eval!Selected) : Eval!Selected[i] \in {Order[j] : j \in 1..Len(Order)}
<1> DEFINE In == {Order[j] : j \in 1..Len(Order)}
           Fit(s) == IsList(s) /\ \A i \in 1..Len(s) : s[i] \in In
<1>1. Len(Order) \in Nat /\ DOMAIN Order = 1..Len(Order)
  BY EvalAssumption
<1>2. Eval!Selected = Joining!Folded(request.splits, <<>>, Order)
  BY DEF Eval!Selected, Joining!Folded, JoinNext, Eval!FoldLeft, Eval!MapThenFoldSet, Eval!Max,
         Joining!FoldLeft, Joining!MapThenFoldSet, Joining!Max
<1>3. PICK r : /\ Joining!History(r, request.splits, <<>>, Order)
               /\ Joining!Folded(request.splits, <<>>, Order) = r[Len(Order)]
  BY <1>1, Joining!Unfolds
<1> DEFINE K == {k \in 0..Len(Order) : Fit(r[k])}
<1>4. 0 \in K
  BY <1>1, <1>3 DEF Joining!History, IsList
<1>5. ASSUME NEW k \in 0 .. (Len(Order) - 1), k \in K PROVE k + 1 \in K
  <2>1. k + 1 \in 1..Len(Order) /\ (k + 1) - 1 = k /\ Order[k + 1] \in In
    BY <1>1
  <2>2. r[k + 1] = Eval!Join(request.splits, r[k], Order[k + 1])
    BY <1>3, <2>1 DEF Joining!History, JoinNext
  <2> DEFINE q == r[k]  e == Order[k + 1]
  <2>3. Fit(q) /\ e \in In
    BY <1>5, <2>1
  <2> HIDE DEF q, e, In
  <2>4. Fit(Append(q, e))
    <3>1. /\ IsList(Append(q, e)) /\ Len(Append(q, e)) = Len(q) + 1
          /\ Append(q, e)[Len(q) + 1] = e /\ \A i \in 1..Len(q) : Append(q, e)[i] = q[i]
      BY <2>3, ListGrows
    <3>2. \A i \in 1 .. (Len(q) + 1) : i \in 1..Len(q) \/ i = Len(q) + 1
      BY <2>3 DEF IsList
    <3> HIDE DEF IsList
    <3> QED
      BY <2>3, <3>1, <3>2
  <2>5. r[k + 1] = q \/ r[k + 1] = Append(q, e)
    BY <2>2 DEF Eval!Join, q, e
  <2> HIDE DEF Fit
  <2>6. Fit(r[k + 1])
    BY <2>3, <2>4, <2>5
  <2> QED
    BY <1>1, <2>6
<1>6. Len(Order) \in K
  <2> HIDE DEF K
  <2> QED
    <3>1. Len(Order) \in Nat
      BY <1>1
    <3>2. \A k \in 0..Len(Order) : k \in K
      BY <1>4, <1>5, <3>1, Joining!UpTo
    <3> QED
      BY <3>1, <3>2
<1> QED
  BY <1>2, <1>3, <1>6

\* The turns that were observed are a list, with finitely many operations each.
Showing(turns) == IsList(turns) /\ \A i \in 1..Len(turns) : IsFiniteSet(turns[i].ops)

LEMMA TurnsShown ==
  ASSUME NEW script, IsList(script), \A j \in 1..Len(script) : \A p \in script[j] : IsFiniteSet(p.ops),
         NEW left, NEW t \in Eval!TurnsFrom(script, left)
  PROVE  Showing(t)
<1> DEFINE base == {[turns |-> <<>>, left |-> left]}
<1>1. Len(script) \in Nat /\ DOMAIN script = 1..Len(script)
  BY DEF IsList
<1>2. Eval!TurnsFrom(script, left) = {s.turns : s \in Turning!Folded(0, base, script)}
  BY DEF Eval!TurnsFrom, Turning!Folded, TurnNext, Eval!OneTurn, Eval!FoldLeft, Eval!MapThenFoldSet,
         Eval!Max, Turning!FoldLeft, Turning!MapThenFoldSet, Turning!Max
<1>3. PICK r : Turning!History(r, 0, base, script) /\ Turning!Folded(0, base, script) = r[Len(script)]
  BY <1>1, Turning!Unfolds
<1> DEFINE K == {k \in 0..Len(script) : \A s \in r[k] : Showing(s.turns)}
<1>4. 0 \in K
  <2>1. r[0] = base
    BY <1>3 DEF Turning!History
  <2>2. Showing(<<>>)
    BY DEF Showing, IsList
  <2> QED
    BY <1>1, <2>1, <2>2
<1>5. ASSUME NEW k \in 0 .. (Len(script) - 1), k \in K PROVE k + 1 \in K
  <2>1. k + 1 \in 1..Len(script) /\ (k + 1) - 1 = k
    BY <1>1
  <2>2. r[k + 1] = Eval!OneTurn(r[k], script[k + 1])
    BY <1>3, <2>1 DEF Turning!History, TurnNext
  <2>3. ASSUME NEW s \in r[k], NEW p \in script[k + 1] PROVE Showing(Eval!Turned(s, p).turns)
    <3> DEFINE q == s.turns
               e == Eval!TurnOf(p, s.left)
    <3>1. Eval!Turned(s, p).turns = Append(q, e)
      BY DEF Eval!Turned
    <3>2. IsFiniteSet(p.ops) /\ IsFiniteSet({})
      BY <2>1, FS_EmptySet
    <3>3. IsFiniteSet(e.ops)
      BY <3>2 DEF Eval!TurnOf
    <3>4. Showing(q)
      BY <1>5
    <3> HIDE DEF q, e
    <3>5. /\ IsList(Append(q, e)) /\ Len(Append(q, e)) = Len(q) + 1
          /\ Append(q, e)[Len(q) + 1] = e /\ \A i \in 1..Len(q) : Append(q, e)[i] = q[i]
      BY <3>4, ListGrows DEF Showing
    <3>6. \A i \in 1 .. (Len(q) + 1) : i \in 1..Len(q) \/ i = Len(q) + 1
      BY <3>4 DEF IsList, Showing
    <3> HIDE DEF IsList
    <3>7. Showing(Append(q, e))
      BY <3>3, <3>4, <3>5, <3>6 DEF Showing
    <3> QED
      BY <3>1, <3>7
  <2>4. \A s \in r[k + 1] : Showing(s.turns)
    BY <2>2, <2>3 DEF Eval!OneTurn
  <2> QED
    BY <1>1, <2>4
<1>6. \A s \in r[Len(script)] : Showing(s.turns)
  <2> HIDE DEF K
  <2>1. \A k \in 0..Len(script) : k \in K
    BY <1>1, <1>4, <1>5, Turning!UpTo
  <2>2. Len(script) \in K
    BY <1>1, <2>1
  <2> QED
    BY <2>2 DEF K
<1> QED
  BY <1>2, <1>3, <1>6

Skipping(c) == \/ Gold[c].layer \notin {"reducer", "readiness"} /\ ~request.db
               \/ Gold[c].layer \in {"extraction", "conversations"} /\ ~request.live

\* A case is skipped just if a part of the machinery it needs was not asked for.
LEMMA Observed ==
  ASSUME NEW c \in {Order[j] : j \in 1..Len(Order)}, NEW obs \in Eval!Observations(c)
  PROVE  Showing(obs.turns) /\ obs.skipped \in BOOLEAN /\ (obs.skipped <=> Skipping(c)) /\ (Skipping(c) => obs.turns = <<>>)
<1>1. /\ Gold[c].layer \in {"reducer", "readiness", "policy", "ui-contract", "extraction", "conversations"}
      /\ IsList(Script[c].turns)
      /\ \A j \in 1..Len(Script[c].turns) : \A p \in Script[c].turns[j] : IsFiniteSet(p.ops)
  BY EvalAssumption DEF IsList
<1>2. Showing(<<>>)
  BY DEF Showing, IsList
<1>3. \A t \in Eval!TurnsFrom(Script[c].turns, MaxCalls) : Showing(t)
  BY <1>1, TurnsShown
<1> DEFINE Shape(o) == Showing(o.turns) /\ o.skipped = FALSE
<1>4. Shape(Eval!NothingSeen) /\ \A o \in Eval!Seen(c) : Shape(o)
  BY <1>2, <1>3 DEF Eval!NothingSeen, Eval!Seen
<1>5. /\ \A o \in Eval!PolicyOf(c) \cup Eval!ExtractionOf(c) : Shape(o)
      /\ \A o \in Eval!ReadinessOf(c) \cup Eval!UIOf(c) : Shape(o)
  <2> HIDE DEF Shape
  <2>1. \A o \in Eval!PolicyOf(c) \cup Eval!ExtractionOf(c) : Shape(o)
    BY <1>4 DEF Eval!PolicyOf, Eval!ExtractionOf
  <2>2. \A r : Shape([Eval!NothingSeen EXCEPT !.readiness = r]) /\ Shape([Eval!NothingSeen EXCEPT !.ui = r])
    BY <1>2 DEF Shape, Eval!NothingSeen
  <2> QED
    BY <1>4, <2>1, <2>2 DEF Eval!ReadinessOf, Eval!UIOf
<1>6. \A o \in Eval!ConversationOf(c) : Shape(o)
  <2>1. ASSUME NEW o \in Eval!Seen(c)
        PROVE  /\ o = [k \in {"turns", "readiness", "ui", "final", "everStarted", "skipped"} |-> o[k]]
               /\ Showing(o.turns) /\ o.skipped = FALSE
    BY <1>4 DEF Eval!Seen, Eval!NothingSeen
  <2>2. ASSUME NEW o \in Eval!Seen(c) PROVE Shape([o EXCEPT !.turns = Eval!Front(@)])
    <3> DEFINE q == o.turns
    <3>1. Showing(q)
      BY <2>1
    <3> HIDE DEF q
    <3>2. Showing(Eval!Front(q))
      BY <3>1 DEF Showing, IsList, Eval!Front
    <3> QED
      BY <2>1, <3>2 DEF q
  <2>3. ASSUME NEW o \in Eval!Seen(c), NEW x, NEW y
        PROVE  Shape([o EXCEPT !.final = x, !.everStarted = y])
    BY <2>1
  <2> HIDE DEF Shape
  <2>4. ASSUME NEW o \in Eval!Seen(c)
        PROVE  Shape([o EXCEPT !.final = Eval!Last(o.turns).state,
                               !.everStarted = \E i \in DOMAIN o.turns : o.turns[i].started])
    BY <2>3
  <2> QED
    BY <2>2, <2>4 DEF Eval!ConversationOf
<1>7. CASE Skipping(c)
  <2>1. obs = [Eval!NothingSeen EXCEPT !.skipped = TRUE]
    BY <1>7 DEF Eval!Observations, Skipping, Eval!ModelLayers
  <2> QED
    BY <1>2, <1>7, <2>1 DEF Eval!NothingSeen
<1>8. CASE ~Skipping(c)
  <2>1. \/ obs \in Eval!Seen(c) \/ obs \in Eval!ReadinessOf(c) \/ obs \in Eval!PolicyOf(c)
        \/ obs \in Eval!UIOf(c) \/ obs \in Eval!ExtractionOf(c) \/ obs \in Eval!ConversationOf(c)
    BY <1>1, <1>8 DEF Eval!Observations, Skipping, Eval!ModelLayers
  <2>2. Shape(obs)
    <3> HIDE DEF Shape
    <3> QED
      BY <1>4, <1>5, <1>6, <2>1
  <2> QED
    BY <1>8, <2>2
<1> QED
  BY <1>7, <1>8

\* Dividing with a remainder.
LEMMA Division ==
  ASSUME NEW n \in Nat, NEW k \in Nat, k # 0
  PROVE  n \div k \in Nat /\ n = k * (n \div k) + (n % k) /\ n % k \in 0..(k-1)
OBVIOUS

\* The tries of a case follow each other: which case a try is of ...
LEMMA CaseOfTry ==
  ASSUME NEW n \in Nat, NEW k \in Nat, NEW L \in Nat, n < L * k
  PROVE  n \div k + 1 \in 1..L
<1>1. k # 0
  <2>1. L * 0 = 0
    OBVIOUS
  <2> QED
    BY <2>1
<1>2. n \div k \in Nat /\ n = k * (n \div k) + (n % k) /\ n % k \in 0..(k-1)
  BY <1>1, Division
<1>3. n \div k < L
  <2> DEFINE d == n \div k
  <2> SUFFICES ASSUME d >= L PROVE FALSE
    BY <1>2
  <2>1. d \in Nat
    BY <1>2
  <2>3. k * d <= n
    BY <1>2
  <2> HIDE DEF d
  <2>2. L * k <= k * d
    BY <2>1
  <2> QED
    BY <2>1, <2>2, <2>3
<1> QED
  BY <1>2, <1>3

\* ... and where the tries of a case begin.
LEMMA FirstTry ==
  ASSUME NEW a \in Nat, NEW k \in Nat, k # 0
  PROVE  (a * k) \div k = a /\ a * k \in Nat
<1>1. a * k \in Nat
  OBVIOUS
<1> DEFINE n == a * k
           d == n \div k
           r == n % k
<1>2. d \in Nat /\ n = k * d + r /\ r \in 0..(k - 1)
  BY <1>1, Division
<1>3. n = a * k /\ n \in Nat
  BY <1>1
<1> HIDE DEF d, r, n
<1>4. CASE d > a
  <2>1. k * d >= k * a + k
    BY <1>2, <1>4
  <2> QED
    BY <2>1, <1>2, <1>3
<1>5. CASE d < a
  <2>1. k * a >= k * d + k
    BY <1>2, <1>5
  <2> QED
    BY <2>1, <1>2, <1>3
<1>6. CASE d = a
  BY <1>1, <1>6 DEF d, n
<1> QED
  BY <1>2, <1>4, <1>5, <1>6

TryStands(n) ==
  LET p == ((n - 1) \div request.repeats) + 1
      c == Eval!Selected[p]
  IN  /\ p \in 1..Len(Eval!Selected)
      /\ \E k : \E obs \in Eval!Observations(c) : results[n] = Eval!ResultOf(c, Gold[c], k, obs)

Asked == request.repeats \in Nat /\ request.live \in BOOLEAN /\ request.db \in BOOLEAN

ReportInv ==
  /\ stage \in {"idle", "running", "aborted", "finished", "compared"}
  /\ IsList(results)
  /\ stage \in {"idle", "compared"} => results = <<>>
  /\ stage \notin {"idle", "compared"} => Asked /\ \A n \in 1..Len(results) : TryStands(n)
  /\ stage = "finished" =>
       Len(results) = Eval!Tries /\ verdict = [passed |-> Eval!Conclude(results, MaxCalls)]
  /\ stage = "compared" => outcome.says = Eval!Paired(outcome.base, outcome.cand)

LEMMA ReportFollowed == Spec => Eval!Spec
<1>1. Init => Eval!Init
  BY DEF Init
<1>2. [Next]_vars => [Eval!Next]_(Eval!evalVars)
  BY DEF Next, vars, report, Eval!evalVars
<1> QED
  BY <1>1, <1>2, PTL DEF Spec, Eval!Spec

LEMMA ReportInitially == Eval!Init => ReportInv
BY DEF Eval!Init, ReportInv, IsList

\* What a run may show depends on what it was asked for only.
LEMMA SameRequest ==
  ASSUME request' = request
  PROVE  Eval!Selected' = Eval!Selected /\ \A c : Eval!Observations(c)' = Eval!Observations(c)
<1> DEFINE F(splits) == Joining!Folded(splits, <<>>, Order)
<1>1. Eval!Selected = F(request.splits)
  BY DEF Eval!Selected, Joining!Folded, JoinNext, Eval!FoldLeft, Eval!MapThenFoldSet, Eval!Max,
         Joining!FoldLeft, Joining!MapThenFoldSet, Joining!Max
<1>2. Eval!Selected' = F(request'.splits)
  BY DEF Eval!Selected, Joining!Folded, JoinNext, Eval!FoldLeft, Eval!MapThenFoldSet, Eval!Max,
         Joining!FoldLeft, Joining!MapThenFoldSet, Joining!Max
<1> HIDE DEF F
<1>3. F(request.splits) = F(request'.splits)
  OBVIOUS
<1>4. \A c : Eval!Observations(c)' = Eval!Observations(c)
  BY DEF Eval!Observations
<1> QED
  BY <1>1, <1>2, <1>3, <1>4

LEMMA ObservingKeeps == ReportInv /\ Eval!ObserveCase => ReportInv'
<1> SUFFICES ASSUME ReportInv, Eval!ObserveCase PROVE ReportInv'
  OBVIOUS
<1> DEFINE n == Len(results)
           p == (n \div request.repeats) + 1
           c == Eval!Selected[p]
<1>1. stage = "running" /\ stage' = stage /\ request' = request /\ n < Eval!Tries
  BY DEF Eval!ObserveCase
<1>2. PICK obs \in Eval!Observations(c) :
        results' = Append(results, Eval!ResultOf(c, Gold[c], (n % request.repeats) + 1, obs))
  BY DEF Eval!ObserveCase
<1> DEFINE e == Eval!ResultOf(c, Gold[c], (n % request.repeats) + 1, obs)
<1>3. n \in Nat /\ request.repeats \in Nat /\ Len(Eval!Selected) \in Nat
  BY <1>1, SelectedCases DEF ReportInv, IsList, Asked
<1>4. p \in 1..Len(Eval!Selected)
  BY <1>1, <1>3, CaseOfTry DEF Eval!Tries
<1>5. \E k : \E o \in Eval!Observations(c) : e = Eval!ResultOf(c, Gold[c], k, o)
  OBVIOUS
<1> HIDE DEF e
<1>6. /\ IsList(results') /\ Len(results') = n + 1 /\ results'[n + 1] = e
      /\ \A i \in 1..n : results'[i] = results[i]
  BY <1>2, ListGrows DEF ReportInv, e
<1>7. ASSUME NEW i \in 1 .. (n + 1) PROVE TryStands(i)'
  <2>1. i \in 1..n \/ i = n + 1
    BY <1>3
  <2>2. CASE i \in 1..n
    <3>1. TryStands(i) /\ results'[i] = results[i]
      BY <1>1, <1>6, <2>2 DEF ReportInv
    <3> QED
      BY <1>1, <3>1, SameRequest DEF TryStands
  <2>3. CASE i = n + 1
    <3>1. i - 1 = n
      BY <1>3, <2>3
    <3> QED
      BY <1>1, <1>4, <1>5, <1>6, <2>3, <3>1, SameRequest DEF TryStands
  <2> QED
    BY <2>1, <2>2, <2>3
<1>8. Asked'
  BY <1>1 DEF ReportInv, Asked
<1> QED
  BY <1>1, <1>6, <1>7, <1>8 DEF ReportInv

LEMMA ReportInductive == ReportInv /\ [Eval!Next]_(Eval!evalVars) => ReportInv'
<1> SUFFICES ASSUME ReportInv, [Eval!Next]_(Eval!evalVars) PROVE ReportInv'
  OBVIOUS
<1>1. ASSUME UNCHANGED <<request, results>>
      PROVE  Eval!Tries' = Eval!Tries /\ Asked' = Asked /\ \A n : TryStands(n)' = TryStands(n)
  BY <1>1, SameRequest DEF Eval!Tries, Asked, TryStands
<1>2. CASE UNCHANGED Eval!evalVars
  BY <1>1, <1>2 DEF Eval!evalVars, ReportInv
<1>3. CASE Eval!Start
  <2>1. stage = "idle" /\ stage' = "running" /\ results' = results /\ Asked'
    BY <1>3, EvalAssumption DEF Eval!Start, Asked
  <2>2. results' = <<>> /\ Len(<<>>) = 0
    BY <2>1 DEF ReportInv
  <2> QED
    BY <2>1, <2>2 DEF ReportInv
<1>4. CASE Eval!Abort
  BY <1>1, <1>4 DEF Eval!Abort, ReportInv
<1>5. CASE Eval!Finish
  BY <1>1, <1>5 DEF Eval!Finish, ReportInv
<1>6. CASE Eval!Replay
  BY <1>1, <1>6 DEF Eval!Replay, ReportInv
<1>7. CASE Eval!Compare
  BY <1>7 DEF Eval!Compare, ReportInv
<1> QED
  BY <1>2, <1>3, <1>4, <1>5, <1>6, <1>7, ObservingKeeps DEF Eval!Next

LEMMA ReportStands == Spec => []ReportInv
BY ReportFollowed, ReportInitially, ReportInductive, PTL DEF Eval!Spec

\* What a try of a run that is over says of its case.
Tried(i) ==
  LET c == results[i].case
  IN  /\ c \in {Eval!Selected[p] : p \in 1..Len(Eval!Selected)}
      /\ Gold[c].layer \in {"reducer", "readiness", "policy", "ui-contract", "extraction", "conversations"}
      /\ Showing(results[i].obs.turns)
      /\ results[i].obs.skipped \in BOOLEAN /\ (results[i].obs.skipped <=> Skipping(c))
      /\ Skipping(c) => results[i].obs.turns = <<>>

LEMMA TriesTold ==
  ASSUME ReportInv, stage = "finished"
  PROVE  /\ DOMAIN results = 1..Len(results) /\ Len(results) \in Nat
         /\ \A i \in DOMAIN results : Tried(i)
<1>1. DOMAIN results = 1..Len(results) /\ Len(results) \in Nat
  BY DEF ReportInv, IsList
<1>2. ASSUME NEW i \in DOMAIN results PROVE Tried(i)
  <2>1. TryStands(i)
    BY <1>1, <1>2 DEF ReportInv
  <2>2. PICK p \in 1..Len(Eval!Selected) : \E k : \E obs \in Eval!Observations(Eval!Selected[p]) :
          results[i] = Eval!ResultOf(Eval!Selected[p], Gold[Eval!Selected[p]], k, obs)
    BY <2>1 DEF TryStands
  <2> DEFINE c == Eval!Selected[p]
  <2>3. PICK obs \in Eval!Observations(c) : results[i].case = c /\ results[i].obs = obs
    <3>1. \A gold, k, obs : /\ Eval!ResultOf(c, gold, k, obs).case = c
                            /\ Eval!ResultOf(c, gold, k, obs).obs = obs
      BY DEF Eval!ResultOf
    <3> QED
      BY <2>2, <3>1
  <2>4. c \in {Order[j] : j \in 1..Len(Order)}
    BY SelectedCases
  <2>5. /\ Gold[c].layer \in {"reducer", "readiness", "policy", "ui-contract", "extraction", "conversations"}
        /\ c \in {Eval!Selected[q] : q \in 1..Len(Eval!Selected)}
    BY <2>4, EvalAssumption
  <2> HIDE DEF c
  <2>6. Showing(obs.turns) /\ obs.skipped \in BOOLEAN /\ (obs.skipped <=> Skipping(c)) /\ (Skipping(c) => obs.turns = <<>>)
    BY <2>4, Observed
  <2> QED
    BY <2>3, <2>5, <2>6 DEF Tried
<1> QED
  BY <1>1, <1>2

\* The wrong writes of a try are counted ...
LEMMA WritesCounted ==
  ASSUME NEW i \in DOMAIN results, Tried(i)
  PROVE  Eval!WrongWrites(results[i]) \in Nat
<1> DEFINE G == Eval!Graded(results[i])
           W(j) == {o \in results[i].obs.turns[j].ops \ Gold[results[i].case].turns[j].ops :
                      o.field \in Gates.keyFields}
           f == [j \in G |-> Eval!Cardinality(W(j))]
<1>1. Showing(results[i].obs.turns)
  BY DEF Tried
<1>2. G \subseteq 1..Len(results[i].obs.turns) /\ IsFiniteSet(1..Len(results[i].obs.turns))
  <2>1. Len(results[i].obs.turns) \in Nat /\ DOMAIN results[i].obs.turns = 1..Len(results[i].obs.turns)
    BY <1>1 DEF Showing, IsList
  <2>2. G \subseteq 1..Len(results[i].obs.turns)
    BY <2>1 DEF Eval!Graded
  <2>3. \A n \in Nat : IsFiniteSet(1..n)
    BY FS_Interval
  <2> HIDE DEF G
  <2> QED
    BY <2>1, <2>2, <2>3
<1>3. IsFiniteSet(G)
  BY <1>2, FS_Subset
<1>4. ASSUME NEW j \in G PROVE Eval!Cardinality(W(j)) \in Nat
  <2>1. IsFiniteSet(results[i].obs.turns[j].ops) /\ W(j) \subseteq results[i].obs.turns[j].ops
    BY <1>1, <1>2 DEF Showing
  <2> HIDE DEF W
  <2> QED
    BY <2>1, FS_Subset, FS_CardinalityType, EvalCardinality
<1>5. Eval!WrongWrites(results[i]) = Joining!SumFunction(f)
  BY DEF Eval!WrongWrites, Eval!Sum, Eval!SumFunction, Eval!SumFunctionOnSet, Eval!FoldFunctionOnSet,
         Eval!MapThenFoldSet, Joining!SumFunction, Joining!SumFunctionOnSet, Joining!FoldFunctionOnSet,
         Joining!MapThenFoldSet
<1>6. DOMAIN f = G /\ \A j \in DOMAIN f : f[j] \in Nat
  BY <1>4
<1> HIDE DEF f, G
<1>7. Joining!SumFunction(f) \in Nat
  <2>1. Joining!IsFiniteSet(DOMAIN f)
    BY <1>3, <1>6, JoiningFinite
  <2> QED
    BY <1>6, <2>1, Joining!SumOfNaturals
<1> QED
  BY <1>5, <1>7

\* ... and if the layer has none, no try of the layer has one.
LEMMA LayerWrites ==
  ASSUME ReportInv, stage = "finished", NEW layer
  PROVE  /\ Eval!QualityOf(results, layer).wrong \in Nat
         /\ Eval!QualityOf(results, layer).wrong = 0 =>
              \A i \in Eval!Of(results, layer) : Eval!WrongWrites(results[i]) = 0
<1> DEFINE T == Eval!Of(results, layer)
           f == [i \in T |-> Eval!WrongWrites(results[i])]
<1>1. /\ T \subseteq DOMAIN results /\ DOMAIN results = 1..Len(results) /\ Len(results) \in Nat
      /\ \A i \in DOMAIN results : Tried(i)
  BY TriesTold DEF Eval!Of
<1>2. IsFiniteSet(T)
  <2>1. IsFiniteSet(1..Len(results))
    BY <1>1, FS_Interval
  <2> HIDE DEF T
  <2> QED
    BY <1>1, <2>1, FS_Subset
<1>3. \A i \in T : Eval!WrongWrites(results[i]) \in Nat
  BY <1>1, WritesCounted
<1>4. Eval!QualityOf(results, layer).wrong = Joining!SumFunction(f)
  BY DEF Eval!QualityOf, Eval!Sum, Eval!SumFunction, Eval!SumFunctionOnSet, Eval!FoldFunctionOnSet,
         Eval!MapThenFoldSet, Joining!SumFunction, Joining!SumFunctionOnSet, Joining!FoldFunctionOnSet,
         Joining!MapThenFoldSet
<1>5. DOMAIN f = T /\ \A i \in T : f[i] = Eval!WrongWrites(results[i])
  OBVIOUS
<1> HIDE DEF f, T
<1>6. Joining!SumFunction(f) \in Nat /\ (Joining!SumFunction(f) = 0 => \A i \in DOMAIN f : f[i] = 0)
  <2>1. Joining!IsFiniteSet(DOMAIN f) /\ \A i \in DOMAIN f : f[i] \in Nat
    BY <1>2, <1>3, <1>5, JoiningFinite
  <2> QED
    BY <2>1, Joining!SumOfNaturals
<1> QED
  BY <1>4, <1>5, <1>6 DEF T

\* Every case of a run that is over was tried.
LEMMA EachTried ==
  ASSUME ReportInv, stage = "finished", DOMAIN results # {}, NEW p \in 1..Len(Eval!Selected)
  PROVE  \E i \in DOMAIN results : results[i].case = Eval!Selected[p]
<1> DEFINE k == request.repeats
           L == Len(Eval!Selected)
           t == (p - 1) * k + 1
<1>1. k \in Nat /\ L \in Nat /\ Len(results) = L * k /\ DOMAIN results = 1..Len(results)
  BY SelectedCases, TriesTold DEF ReportInv, IsList, Asked, Eval!Tries
<1>2. k # 0
  <2>1. L * 0 = 0
    BY <1>1
  <2>2. Len(results) # 0
    BY <1>1
  <2> QED
    BY <1>1, <2>1, <2>2
<1> DEFINE a == p - 1
<1>3. a \in Nat /\ a + 1 <= L /\ p = a + 1
  BY <1>1
<1>4. p \in 1..L
  OBVIOUS
<1> HIDE DEF k, L, a
<1>5. a * k \in Nat /\ (a * k) \div k = a
  BY <1>1, <1>2, <1>3, FirstTry
<1>6. (a + 1) * k <= L * k
  BY <1>1, <1>3
<1>7. (a + 1) * k = a * k + k
  BY <1>1, <1>3
<1> DEFINE m == a * k
<1>8. m \in Nat /\ m + k <= L * k /\ k \in Nat \ {0} /\ L * k \in Nat
  BY <1>1, <1>2, <1>5, <1>6, <1>7
<1>9. m \div k = a
  BY <1>5
<1> DEFINE n == L * k
<1>10. n \in Nat /\ m + k <= n /\ Len(results) = n
  BY <1>1, <1>8
<1> HIDE DEF m, n
<1>11. m + 1 \in 1..Len(results) /\ (m + 1) - 1 = m
  BY <1>8, <1>10
<1>12. TryStands(m + 1)
  BY <1>11 DEF ReportInv
<1>13. results[m + 1].case = Eval!Selected[p]
  <2>1. ((m + 1) - 1) \div request.repeats + 1 = p
    BY <1>3, <1>9, <1>11 DEF k
  <2>2. \A c, gold, j, obs : Eval!ResultOf(c, gold, j, obs).case = c
    BY DEF Eval!ResultOf
  <2> QED
    BY <1>12, <2>1, <2>2 DEF TryStands
<1> QED
  BY <1>1, <1>11, <1>13

\* Gates that pass mean what the repetitions showed.
LEMMA Earned == ReportInv => Eval!PassIsEarned
<1> SUFFICES ASSUME ReportInv, stage = "finished", verdict.passed PROVE
      /\ request.live /\ request.db
      /\ \A i \in DOMAIN results :
           /\ results[i].vetoes = {}
           /\ Gold[results[i].case].layer \in Eval!DeterministicLayers => results[i].pass
           /\ Gold[results[i].case].layer \in Eval!ModelLayers => Eval!WrongWrites(results[i]) = 0
      /\ LET model  == {c \in Eval!ToSet(Eval!Selected) : Gold[c].layer = "extraction"}
             unsuccessful == {results[i].case : i \in {j \in DOMAIN results : ~results[j].pass}}
         IN  100 * Eval!Cardinality(model \ unsuccessful) >= Gates.caseSuccess * Eval!Cardinality(model)
  BY DEF Eval!PassIsEarned
<1> DEFINE layerOf(i) == Gold[results[i].case].layer
<1>1. DOMAIN results = 1..Len(results) /\ Len(results) \in Nat /\ \A i \in DOMAIN results : Tried(i)
  BY TriesTold
<1>2. /\ \A v \in Eval!Verdicts(results, MaxCalls) : v.passed /\ v.evaluable
      /\ \A layer \in Eval!DeterministicLayers :
           /\ Eval!CasesOf(results, layer) # {}
           /\ Eval!PassedOf(results, layer) = Eval!CasesOf(results, layer)
  <2> DEFINE says == Eval!Conclude(results, MaxCalls)
  <2>1. verdict = [passed |-> says]
    BY DEF ReportInv
  <2> HIDE DEF says
  <2>2. says
    BY <2>1
  <2> QED
    BY <2>2 DEF says, Eval!Conclude
<1>3. request.live /\ request.db /\ DOMAIN results # {}
  <2>1. Eval!Rate("provider_success",
          Eval!Cardinality({ij \in Eval!ProviderTurns(results) : ~Eval!TurnIn(results, ij).failed}),
          Eval!Cardinality(Eval!ProviderTurns(results)), Gates.provider).evaluable
    BY <1>2 DEF Eval!Verdicts, Eval!ProviderGates
  <2>2. Eval!Cardinality(Eval!ProviderTurns(results)) # 0
    BY <2>1 DEF Eval!Rate, Eval!Insufficient
  <2>3. PICK ij \in Eval!ProviderTurns(results) : TRUE
    BY <2>2, FS_EmptySet, EvalCardinality
  <2>4. PICK i \in DOMAIN results : layerOf(i) \in Eval!ModelLayers /\ DOMAIN results[i].obs.turns # {}
    BY <2>3 DEF Eval!ProviderTurns
  <2>5. ~Skipping(results[i].case)
    <3>1. DOMAIN <<>> = {}
      OBVIOUS
    <3> QED
      BY <1>1, <2>4, <3>1 DEF Tried
  <2> QED
    BY <2>4, <2>5 DEF Skipping, Eval!ModelLayers, ReportInv, Asked
<1>4. ASSUME NEW i \in DOMAIN results PROVE i \in Eval!Of(results, layerOf(i))
  BY <1>1, <1>3 DEF Tried, Skipping, Eval!Of
<1>5. ASSUME NEW i \in DOMAIN results PROVE results[i].vetoes = {}
  <2>1. Eval!Holds("veto_total", \A j \in DOMAIN results : results[j].vetoes = {}).passed
    BY <1>2 DEF Eval!Verdicts, Eval!TotalGates
  <2> QED
    BY <2>1 DEF Eval!Holds
<1>6. ASSUME NEW i \in DOMAIN results, layerOf(i) \in Eval!DeterministicLayers PROVE results[i].pass
  BY <1>2, <1>4, <1>6 DEF Eval!CasesOf, Eval!PassedOf
<1>7. ASSUME NEW i \in DOMAIN results, layerOf(i) \in Eval!ModelLayers
      PROVE  Eval!WrongWrites(results[i]) = 0
  <2> DEFINE ex == Eval!QualityOf(results, "extraction")
             cv == Eval!QualityOf(results, "conversations")
  <2>1. (IF ex.emitted + cv.emitted = 0 THEN Eval!Insufficient("key_field_wrong_write_total")
         ELSE Eval!Holds("key_field_wrong_write_total", ex.wrong + cv.wrong = 0)).passed
    BY <1>2 DEF Eval!Verdicts, Eval!TotalGates
  <2>2. /\ ex.wrong \in Nat /\ cv.wrong \in Nat
        /\ ex.wrong = 0 => \A j \in Eval!Of(results, "extraction") : Eval!WrongWrites(results[j]) = 0
        /\ cv.wrong = 0 => \A j \in Eval!Of(results, "conversations") : Eval!WrongWrites(results[j]) = 0
    BY LayerWrites
  <2> HIDE DEF ex, cv
  <2>3. ex.wrong + cv.wrong = 0
    BY <2>1 DEF Eval!Insufficient, Eval!Holds
  <2>4. ex.wrong = 0 /\ cv.wrong = 0
    BY <2>2, <2>3
  <2> QED
    BY <1>4, <1>7, <2>2, <2>4 DEF Eval!ModelLayers
<1> DEFINE model  == {c \in Eval!ToSet(Eval!Selected) : Gold[c].layer = "extraction"}
           unsuccessful == {results[i].case : i \in {j \in DOMAIN results : ~results[j].pass}}
<1>8. model = Eval!CasesOf(results, "extraction")
  <2>1. Eval!ToSet(Eval!Selected) = {Eval!Selected[p] : p \in 1..Len(Eval!Selected)}
    BY SelectedCases DEF Eval!ToSet, IsList
  <2>2. ASSUME NEW c \in model PROVE c \in Eval!CasesOf(results, "extraction")
    <3>1. PICK p \in 1..Len(Eval!Selected) : c = Eval!Selected[p]
      BY <2>1
    <3>2. PICK i \in DOMAIN results : results[i].case = c
      BY <1>3, <3>1, EachTried
    <3> QED
      BY <1>4, <3>2 DEF Eval!CasesOf
  <2>3. ASSUME NEW c \in Eval!CasesOf(results, "extraction") PROVE c \in model
    BY <1>1, <2>1 DEF Eval!CasesOf, Eval!Of, Tried
  <2> QED
    BY <2>2, <2>3
<1>9. model \ unsuccessful = Eval!PassedOf(results, "extraction")
  BY <1>4, <1>8 DEF Eval!PassedOf, Eval!CasesOf, Eval!Of
<1>10. 100 * Eval!Cardinality(model \ unsuccessful) >= Gates.caseSuccess * Eval!Cardinality(model)
  <2> DEFINE a == Eval!Cardinality(Eval!PassedOf(results, "extraction"))
             b == Eval!Cardinality(Eval!CasesOf(results, "extraction"))
  <2>1. Eval!Rate("case_success", a, b, Gates.caseSuccess).passed
    BY <1>2 DEF Eval!Verdicts, Eval!ExtractionGates
  <2>2. 100 * a >= Gates.caseSuccess * b
    BY <2>1 DEF Eval!Rate, Eval!Insufficient, Eval!Holds
  <2> QED
    BY <1>8, <1>9, <2>2
<1> QED
  BY <1>3, <1>5, <1>6, <1>7, <1>10

\* In every behaviour of the services gates that pass mean what the repetitions
\* showed: the run was live and had its database, every try of a deterministic
\* layer passed, no try had a veto or wrote a key field wrongly, and the share
\* of the extraction cases that passed in every try is the one the gates ask
\* for (requirement_v2_run.go:728); for any dataset, script and thresholds.
THEOREM PassesAreEarned == Spec => []PassIsEarned
<1>1. ReportInv => PassIsEarned
  BY Earned DEF PassIsEarned
<1> QED
  BY <1>1, ReportStands, PTL

\* A regression is among what a comparison says.
LEMMA Compared == ReportInv => Eval!RegressionsAreSeen
<1> SUFFICES ASSUME ReportInv, stage = "compared",
                    NEW i \in DOMAIN outcome.base, NEW j \in DOMAIN outcome.cand,
                    outcome.base[i].case = outcome.cand[j].case,
                    Gold[outcome.base[i].case].layer \in Eval!ModelLayers,
                    ~\E k \in DOMAIN outcome.base :
                       outcome.base[k].case = outcome.base[i].case /\ ~outcome.base[k].pass,
                    ~outcome.cand[j].pass
             PROVE  outcome.base[i].case \in outcome.says.regressed
  BY DEF Eval!RegressionsAreSeen
<1> DEFINE base == outcome.base
           cand == outcome.cand
           c == base[i].case
           b == Eval!FoldedPass(base)
           n == Eval!FoldedPass(cand)
<1>1. c \in DOMAIN b /\ b[c]
  BY DEF Eval!FoldedPass
<1>2. c \in DOMAIN n /\ ~n[c]
  BY DEF Eval!FoldedPass
<1>3. outcome.says = Eval!Paired(base, cand)
  BY DEF ReportInv
<1>4. Eval!Paired(base, cand).regressed =
        {d \in {e \in DOMAIN b \cap DOMAIN n : Gold[e].layer \in Eval!ModelLayers} : b[d] /\ ~n[d]}
  BY DEF Eval!Paired
<1>5. Gold[c].layer \in Eval!ModelLayers
  OBVIOUS
<1> HIDE DEF b, n, c
<1>6. c \in outcome.says.regressed
  BY <1>1, <1>2, <1>3, <1>4, <1>5
<1> QED
  BY <1>6 DEF c

\* In every behaviour of the services a comparison reports each case of the
\* model's layers that passed in every try of the base and failed in one of the
\* candidate, whatever is compared (requirement_v2_run.go:1638).
THEOREM RegressionsAreReported == Spec => []RegressionsAreSeen
<1>1. ReportInv => RegressionsAreSeen
  BY Compared DEF RegressionsAreSeen
<1> QED
  BY <1>1, ReportStands, PTL
=============================================================================
