------------------------------ MODULE PartsProofs ------------------------------
(***************************************************************************)
(* What is proved of the parts that MCParts runs side by side.  The wheel  *)
(* index and the requests for files have their invariants in modules of    *)
(* their own, which MCParts instantiates; here each is shown to hold       *)
(* whenever its part is the one that runs.  The migrations of the database *)
(* are proved about here.                                                  *)
(*                                                                         *)
(* Every database init_db may be given, by whatever program and after any  *)
(* number of starts that were cut off, is complete, exact and compacted    *)
(* when the server serves.  The invariant says, for each step of init_db,  *)
(* what the steps before it have achieved: nothing that a later step does  *)
(* undoes it.  Two facts hold throughout: statistics that are there are    *)
(* exact, and a database of today's version is of today's schema with no   *)
(* space owed.                                                             *)
(***************************************************************************)
EXTENDS MCParts, FiniteSetTheorems, TLAPS

(* Where a step is in the order of init_db; a process that is down has     *)
(* achieved nothing.                                                       *)
Rank(l) ==
  CASE l = "down" -> 0 [] l = "batch" -> 0 [] l = "metadata" -> 1 [] l = "responses" -> 2
    [] l = "alter" -> 3 [] l = "fill" -> 4 [] l = "order" -> 5 [] l = "backfill" -> 6
    [] l = "compact" -> 7 [] l = "version" -> 8 [] l = "serving" -> 9

BatchSet == {"projects", "project_links", "blobs", "idx_blobs_state_size",
             "idx_blobs_state_fetched_at", "project_responses", "project_stats",
             "root_stats_samples"}

Schema ==
  /\ startup_pc = "batch" => \A i \in 1 .. next - 1 : S!Batch[i] \in objects
  /\ Rank(startup_pc) >= 1 => BatchSet \subseteq objects
  /\ Rank(startup_pc) >= 2 =>
       /\ "idx_project_links_blob_lookup" \in objects /\ S!Redundant \notin objects
       /\ "raw_body" \notin traits /\ "unique_links" \notin traits
  /\ Rank(startup_pc) >= 3 => "unsized_responses" \notin traits
  /\ Rank(startup_pc) >= 4 => "no_access_time" \notin traits
  /\ Rank(startup_pc) >= 6 => "idx_blobs_state_last_accessed_at" \in objects

Rows ==
  /\ startup_pc # "down" => \A f \in {"projects", "links", "state"} : index[f] = kept[f]
  /\ \A p \in OldProjects : index.stats[p] # None => index.stats[p] = S!StatsOf(p, index)
  /\ Rank(startup_pc) >= 5 => \A b \in OldBlobs : index.state[b] = "ready" => index.accessed[b] # 0
  /\ Rank(startup_pc) >= 7 => \A p \in index.projects : index.stats[p] = S!StatsOf(p, index)

Space ==
  /\ owed => free
  /\ Rank(startup_pc) >= 8 => ~owed
  /\ version = S!CACHE_SCHEMA_VERSION => objects = S!Objects /\ traits = {} /\ ~owed

StartupInv == S!TypeOK /\ Schema /\ Rows /\ Space

-----------------------------------------------------------------------------
LEMMA BatchIs ==
  /\ Len(S!Batch) = 8 /\ DOMAIN S!Batch = 1 .. 8
  /\ S!Batch[1] = "projects" /\ S!Batch[2] = "project_links" /\ S!Batch[3] = "blobs"
  /\ S!Batch[4] = "idx_blobs_state_size" /\ S!Batch[5] = "idx_blobs_state_fetched_at"
  /\ S!Batch[6] = "project_responses" /\ S!Batch[7] = "project_stats"
  /\ S!Batch[8] = "root_stats_samples"
BY DEF S!Batch

LEMMA ObjectsIs ==
  /\ S!Objects = BatchSet \cup {"idx_project_links_blob_lookup", "idx_blobs_state_last_accessed_at"}
  /\ S!Redundant \notin S!Objects
<1>1. {S!Batch[i] : i \in DOMAIN S!Batch} = BatchSet
  <2>1. \A i \in DOMAIN S!Batch : S!Batch[i] \in BatchSet
    BY BatchIs DEF BatchSet
  <2>2. \A o \in BatchSet : \E i \in DOMAIN S!Batch : S!Batch[i] = o
    BY BatchIs DEF BatchSet
  <2>. QED  BY <2>1, <2>2
<1>. QED  BY <1>1 DEF S!Objects, S!Redundant, BatchSet

LEMMA StepNames ==
  {S!Steps[i] : i \in DOMAIN S!Steps} =
    {"batch", "metadata", "responses", "alter", "fill", "order", "backfill", "compact",
     "version", "serving"}
<1>1. /\ DOMAIN S!Steps = 1 .. 10
      /\ S!Steps[1] = "batch" /\ S!Steps[2] = "metadata" /\ S!Steps[3] = "responses"
      /\ S!Steps[4] = "alter" /\ S!Steps[5] = "fill" /\ S!Steps[6] = "order"
      /\ S!Steps[7] = "backfill" /\ S!Steps[8] = "compact" /\ S!Steps[9] = "version"
      /\ S!Steps[10] = "serving"
  BY DEF S!Steps
<1>2. \A i \in DOMAIN S!Steps :
        S!Steps[i] \in {"batch", "metadata", "responses", "alter", "fill", "order", "backfill",
                      "compact", "version", "serving"}
  BY <1>1
<1>3. \A s \in {"batch", "metadata", "responses", "alter", "fill", "order", "backfill",
                "compact", "version", "serving"} : \E i \in DOMAIN S!Steps : S!Steps[i] = s
  BY <1>1
<1>. QED  BY <1>2, <1>3

LEMMA Ranks ==
  /\ Rank("down") = 0 /\ Rank("batch") = 0 /\ Rank("metadata") = 1 /\ Rank("responses") = 2
  /\ Rank("alter") = 3 /\ Rank("fill") = 4 /\ Rank("order") = 5 /\ Rank("backfill") = 6
  /\ Rank("compact") = 7 /\ Rank("version") = 8 /\ Rank("serving") = 9
BY DEF Rank

LEMMA SameCardinality == \A T : S!Cardinality(T) = Cardinality(T)
BY DEF S!Cardinality, Cardinality

LEMMA StatsType ==
  ASSUME NEW p, NEW d
  PROVE  S!StatsOf(p, d) \in [files : Nat, cached : Nat]
<1>1. \A T \in SUBSET OldBlobs : IsFiniteSet(T) /\ S!Cardinality(T) \in Nat
  BY StartupAssumption, FS_Subset, FS_CardinalityType, SameCardinality
<1>2. S!LinksOf(p, d.links) \in SUBSET OldBlobs
  BY DEF S!LinksOf
<1>3. {b \in S!LinksOf(p, d.links) : d.state[b] = "ready"} \in SUBSET OldBlobs
  BY <1>2
<1>. QED  BY <1>1, <1>2, <1>3 DEF S!StatsOf

(* The statistics are a function of the links and the states.              *)
LEMMA StatsSame ==
  ASSUME NEW p, NEW d, NEW e, d.links = e.links, d.state = e.state
  PROVE  S!StatsOf(p, d) = S!StatsOf(p, e)
BY DEF S!StatsOf

(* Data whose statistics are exact: all there are, and those of ss.        *)
Exact(d, ss) ==
  /\ d \in S!Data
  /\ \A p \in OldProjects : d.stats[p] # None => d.stats[p] = S!StatsOf(p, d)
  /\ \A p \in ss : d.stats[p] = S!StatsOf(p, d)
Timed(d) == \A b \in OldBlobs : d.state[b] = "ready" => d.accessed[b] # 0

(* What a program stores is well typed and its statistics are exact.       *)
LEMMA StoredIs ==
  ASSUME NEW ps \in SUBSET OldProjects, NEW ls \in SUBSET (ps \X OldBlobs),
         NEW rs \in SUBSET ps, NEW ss \in SUBSET ps, NEW st \in [OldBlobs -> S!States],
         NEW timed
  PROVE  /\ Exact(S!Stored(ps, ls, rs, ss, st, timed), ss)
         /\ S!Stored(ps, ls, rs, ss, st, timed).projects = ps
<1>. DEFINE c == [projects |-> ps, links |-> ls, responses |-> rs, stats |-> <<>>, state |-> st,
                  accessed |-> [b \in OldBlobs |-> IF timed /\ st[b] = "ready" THEN 1 ELSE 0]]
            d == S!Stored(ps, ls, rs, ss, st, timed)
<1>1. d = [c EXCEPT !.stats = S!Counted(ss, c)]
  BY DEF S!Stored
<1>2. /\ d.projects = ps /\ d.links = ls /\ d.responses = rs /\ d.state = st
      /\ d.stats = S!Counted(ss, c) /\ d.accessed = c.accessed
      /\ d = [projects |-> ps, links |-> ls, responses |-> rs, stats |-> S!Counted(ss, c),
              state |-> st, accessed |-> c.accessed]
  BY <1>1
<1>3. S!Counted(ss, c) = [p \in OldProjects |-> IF p \in ss THEN S!StatsOf(p, c) ELSE None]
  BY DEF S!Counted
<1>4. \A p : S!StatsOf(p, c) = S!StatsOf(p, d)
  BY <1>2, StatsSame
<1>5. S!Counted(ss, c) \in [OldProjects -> [files : Nat, cached : Nat] \cup {None}]
  <2>. HIDE DEF c
  <2>1. \A p : S!StatsOf(p, c) \in [files : Nat, cached : Nat]
    BY StatsType
  <2>. QED  BY <1>3, <2>1
<1>6. c.accessed \in [OldBlobs -> {0, 1}]
  OBVIOUS
<1>7. ls \in SUBSET (OldProjects \X OldBlobs) /\ rs \in SUBSET OldProjects
  OBVIOUS
<1>8. d \in S!Data
  <2>. HIDE DEF c, d
  <2>. QED  BY <1>2, <1>5, <1>6, <1>7 DEF S!Data
<1>9. \A p \in OldProjects : d.stats[p] # None => d.stats[p] = S!StatsOf(p, d)
  <2>. HIDE DEF c, d
  <2>. QED  BY <1>2, <1>3, <1>4
<1>10. \A p \in ss : d.stats[p] = S!StatsOf(p, d)
  <2>. HIDE DEF c, d
  <2>. QED  BY <1>2, <1>3, <1>4
<1>. HIDE DEF c, d
<1>. QED
  <2>1. Exact(d, ss) /\ d.projects = ps
    BY <1>2, <1>8, <1>9, <1>10 DEF Exact
  <2>. QED  BY <2>1 DEF d

(* What a program with the column stores has an access time.               *)
LEMMA TimedIs ==
  ASSUME NEW ps, NEW ls, NEW rs, NEW ss, NEW st
  PROVE  Timed(S!Stored(ps, ls, rs, ss, st, TRUE))
<1>. DEFINE c == [projects |-> ps, links |-> ls, responses |-> rs, stats |-> <<>>, state |-> st,
                  accessed |-> [b \in OldBlobs |-> IF TRUE /\ st[b] = "ready" THEN 1 ELSE 0]]
<1>1. \A b \in OldBlobs : st[b] = "ready" => c.accessed[b] = 1
  OBVIOUS
<1>2. S!Stored(ps, ls, rs, ss, st, TRUE) = [c EXCEPT !.stats = S!Counted(ss, c)]
  BY DEF S!Stored
<1>. DEFINE d == S!Stored(ps, ls, rs, ss, st, TRUE)
<1>3. d.state = st /\ d.accessed = c.accessed
  BY <1>2
<1>. HIDE DEF c, d
<1>4. Timed(d)
  BY <1>1, <1>3 DEF Timed
<1>. QED  BY <1>4 DEF d

-----------------------------------------------------------------------------
LEMMA StartupBegins == ASSUME S!Init PROVE StartupInv
<1>1. PICK ps \in SUBSET OldProjects, st \in [OldBlobs -> S!States] :
      \E ls \in SUBSET (ps \X OldBlobs), rs \in SUBSET ps, ss \in SUBSET ps :
        index = S!Stored(ps, ls, rs, ss, st, "no_access_time" \notin traits)
  BY DEF S!Init, S!InitFile
<1>2. PICK ls \in SUBSET (ps \X OldBlobs), rs \in SUBSET ps, ss \in SUBSET ps :
        index = S!Stored(ps, ls, rs, ss, st, "no_access_time" \notin traits)
  BY <1>1
<1>3. /\ index \in S!Data
      /\ \A p \in OldProjects : index.stats[p] # None => index.stats[p] = S!StatsOf(p, index)
  <2>. DEFINE timed == "no_access_time" \notin traits
  <2>0. index = S!Stored(ps, ls, rs, ss, st, timed)
    BY <1>2
  <2>. HIDE DEF timed
  <2>1. Exact(index, ss)
    BY <2>0, StoredIs
  <2>. QED  BY <2>1 DEF Exact
<1>4. S!TypeOK
  <2>1. objects \subseteq S!Objects \cup {S!Redundant} /\ traits \subseteq S!Traits
    BY StartupAssumption DEF S!Init
  <2>2. startup_pc = "down" /\ 1 \in DOMAIN S!Batch /\ next = 1 /\ kept = index
    BY BatchIs DEF S!Init
  <2>3. changed \in BOOLEAN /\ free \in BOOLEAN /\ owed \in BOOLEAN
        /\ version \in 0 .. S!CACHE_SCHEMA_VERSION
    BY DEF S!Init
  <2>. QED  BY <1>3, <2>1, <2>2, <2>3 DEF S!TypeOK
<1>5. Schema /\ Rows /\ Space
  BY <1>3, Ranks DEF S!Init, S!InitFile, Schema, Rows, Space
<1>. QED  BY <1>4, <1>5 DEF StartupInv

LEMMA StartupStep == ASSUME StartupInv, [S!Next]_(S!vars) PROVE StartupInv'
<1>. USE Ranks DEF StartupInv
<1>t. /\ S!TypeOK /\ index \in S!Data /\ kept \in S!Data /\ next \in 1 .. 8
      /\ startup_pc \in {"down", "batch", "metadata", "responses", "alter", "fill", "order",
                         "backfill", "compact", "version", "serving"}
  BY BatchIs, StepNames DEF S!TypeOK
<1>r. \A l \in {"down", "batch", "metadata", "responses", "alter", "fill", "order", "backfill",
                "compact", "version", "serving"} :
        l \in {S!Steps[i] : i \in DOMAIN S!Steps} \cup {"down"}
  BY StepNames
<1>1. CASE S!Start
  <2>1. startup_pc' = "batch" /\ next' = 1 /\ kept' = index /\ UNCHANGED <<changed, S!fileVars>>
    BY <1>1 DEF S!Start
  <2>2. S!TypeOK'
    BY <1>r, <1>t, <2>1, BatchIs DEF S!TypeOK, S!fileVars
  <2>3. Schema' /\ Rows' /\ Space'
    BY <2>1 DEF Schema, Rows, Space, S!fileVars
  <2>. QED  BY <2>2, <2>3
<1>2. CASE S!Stop
  <2>1. startup_pc' = "down" /\ changed' = FALSE /\ UNCHANGED <<next, S!fileVars, kept>>
    BY <1>2 DEF S!Stop
  <2>2. S!TypeOK'
    BY <1>r, <1>t, <2>1 DEF S!TypeOK, S!fileVars
  <2>3. Schema' /\ Rows' /\ Space'
    BY <2>1 DEF Schema, Rows, Space, S!fileVars
  <2>. QED  BY <2>2, <2>3
<1>3. CASE S!Create
  <2>1. /\ startup_pc = "batch" /\ objects' = objects \cup {S!Batch[next]}
        /\ next' = IF next = 8 THEN 1 ELSE next + 1
        /\ startup_pc' = IF next = 8 THEN "metadata" ELSE startup_pc
        /\ UNCHANGED <<changed, traits, index, version, free, owed, kept>>
    BY <1>3, BatchIs DEF S!Create
  <2>2. S!Batch[next] \in S!Objects
    BY <1>t, BatchIs DEF S!Objects
  <2>3. S!TypeOK'
    BY <1>r, <1>t, <2>1, <2>2, BatchIs DEF S!TypeOK
  <2>4. \A i \in 1 .. next : S!Batch[i] \in objects'
    BY <1>t, <2>1 DEF Schema
  <2>5. Schema'
    <3>1. CASE next = 8
      <4>1. BatchSet \subseteq objects'
        BY <2>4, <3>1, BatchIs DEF BatchSet
      <4>. QED  BY <2>1, <3>1, <4>1 DEF Schema
    <3>2. CASE next # 8
      <4>1. startup_pc' = "batch" /\ next' - 1 = next
        BY <1>t, <2>1, <3>2
      <4>. QED  BY <2>4, <4>1 DEF Schema
    <3>. QED  BY <3>1, <3>2
  <2>6. Rows' /\ Space'
    <3>1. Rank(startup_pc') \in {0, 1} /\ startup_pc' # "down"
      BY <2>1
    <3>2. Rows'
      BY <2>1, <3>1 DEF Rows
    <3>3. (owed' <=> owed) /\ (free' <=> free) /\ version' = version
      BY <2>1
    <3>4. objects = S!Objects => objects' = S!Objects /\ traits' = traits
      BY <2>1, <2>2
    <3>5. Space'
      BY <3>1, <3>3, <3>4 DEF Space
    <3>. QED  BY <3>2, <3>5
  <2>. QED  BY <2>3, <2>5, <2>6
<1>4. CASE S!MigrateMetadata
  <2>. DEFINE some == S!MetadataTraits # {} \/ S!Has(S!Redundant)
  <2>1. /\ startup_pc = "metadata" /\ startup_pc' = "responses" /\ changed' = some
        /\ objects' = (objects \ {S!Redundant}) \cup {"idx_project_links_blob_lookup"}
        /\ traits' = traits \ {"raw_body", "unique_links"}
        /\ free' = (free \/ some) /\ owed' = (owed \/ some)
        /\ UNCHANGED <<next, index, version, kept>>
    BY <1>4 DEF S!MigrateMetadata, S!Freed
  <2>2. some \in BOOLEAN
    BY DEF S!Has
  <2>3. S!TypeOK'
    <3>1. objects' \subseteq S!Objects \cup {S!Redundant} /\ traits' \subseteq S!Traits
      BY <2>1, ObjectsIs DEF S!TypeOK
    <3>2. changed' \in BOOLEAN /\ free' \in BOOLEAN /\ owed' \in BOOLEAN
      BY <2>1, <2>2 DEF S!TypeOK
    <3>. QED  BY <1>r, <1>t, <2>1, <3>1, <3>2 DEF S!TypeOK
  <2>4. Schema'
    <3>1. BatchSet \subseteq objects'
      BY <2>1, ObjectsIs DEF Schema
    <3>2. "idx_project_links_blob_lookup" # S!Redundant
      BY DEF S!Redundant
    <3>. QED  BY <2>1, <3>1, <3>2 DEF Schema
  <2>5. Rows'
    BY <2>1 DEF Rows
  <2>6. Space'
    <3>1. version = S!CACHE_SCHEMA_VERSION => some = FALSE /\ objects' = objects /\ traits' = traits
      BY <2>1, ObjectsIs DEF Space, S!Has, S!MetadataTraits
    <3>2. (owed' <=> owed \/ some) /\ (free' <=> free \/ some) /\ Rank(startup_pc') = 2
      BY <2>1
    <3>. HIDE DEF some
    <3>. QED  BY <2>1, <3>1, <3>2 DEF Space
  <2>. QED  BY <2>3, <2>4, <2>5, <2>6
<1>5. CASE S!MigrateResponses
  <2>. /\ startup_pc = "responses" /\ startup_pc' = "alter"
       /\ UNCHANGED <<next, objects, version, kept>>
    BY <1>5 DEF S!MigrateResponses
  <2>1. CASE "unsized_responses" \in traits
    <3>1. /\ traits' = traits \ {"unsized_responses"}
          /\ index' = [index EXCEPT !.responses = {}] /\ changed' = TRUE
          /\ free' = (free \/ index.responses # {}) /\ owed' = (owed \/ index.responses # {})
      BY <1>5, <2>1 DEF S!MigrateResponses, S!Freed
    <3>2. /\ index' \in S!Data
          /\ \A f \in {"projects", "links", "state", "stats", "accessed"} : index'[f] = index[f]
      BY <1>t, <3>1 DEF S!Data
    <3>3. S!TypeOK'
      BY <1>r, <1>t, <3>1, <3>2 DEF S!TypeOK
    <3>4. Schema'
      BY <3>1 DEF Schema
    <3>5. \A p : S!StatsOf(p, index') = S!StatsOf(p, index)
      BY <3>2, StatsSame
    <3>6. Rows'
      BY <3>2, <3>5 DEF Rows
    <3>7. Space'
      <4>1. version = S!CACHE_SCHEMA_VERSION => FALSE
        BY <2>1 DEF Space
      <4>2. (owed' <=> owed \/ index.responses # {}) /\ (free' <=> free \/ index.responses # {})
            /\ Rank(startup_pc') = 3 /\ version' = version
        BY <3>1
      <4>. QED  BY <4>1, <4>2 DEF Space
    <3>. QED  BY <3>3, <3>4, <3>6, <3>7
  <2>2. CASE "unsized_responses" \notin traits
    <3>1. UNCHANGED <<traits, index, changed, free, owed>>
      BY <1>5, <2>2 DEF S!MigrateResponses
    <3>2. S!TypeOK'
      BY <1>r, <1>t, <3>1 DEF S!TypeOK
    <3>3. Schema' /\ Rows' /\ Space'
      BY <2>2, <3>1 DEF Schema, Rows, Space
    <3>. QED  BY <3>2, <3>3
  <2>. QED  BY <2>1, <2>2
<1>6. CASE S!AddAccessTimes
  <2>1. /\ startup_pc = "alter" /\ startup_pc' = "fill" /\ traits' = traits \ {"no_access_time"}
        /\ UNCHANGED <<next, changed, objects, index, version, free, owed, kept>>
    BY <1>6 DEF S!AddAccessTimes
  <2>2. S!TypeOK'
    BY <1>r, <1>t, <2>1 DEF S!TypeOK
  <2>3. Schema' /\ Rows' /\ Space'
    BY <2>1 DEF Schema, Rows, Space
  <2>. QED  BY <2>2, <2>3
<1>7. CASE S!FillAccessTimes
  <2>1. /\ startup_pc = "fill" /\ startup_pc' = "order"
        /\ index' = [index EXCEPT !.accessed =
                       [b \in OldBlobs |-> IF index.state[b] = "ready" THEN 1 ELSE @[b]]]
        /\ UNCHANGED <<next, changed, objects, traits, version, free, owed, kept>>
    BY <1>7 DEF S!FillAccessTimes
  <2>2. /\ index' \in S!Data
        /\ \A f \in {"projects", "links", "state", "stats"} : index'[f] = index[f]
        /\ \A b \in OldBlobs : index'.state[b] = "ready" => index'.accessed[b] # 0
    BY <1>t, <2>1 DEF S!Data
  <2>3. S!TypeOK'
    BY <1>r, <1>t, <2>1, <2>2 DEF S!TypeOK
  <2>4. \A p : S!StatsOf(p, index') = S!StatsOf(p, index)
    BY <2>2, StatsSame
  <2>5. Schema' /\ Space'
    BY <2>1 DEF Schema, Space
  <2>6. Rows'
    BY <2>1, <2>2, <2>4 DEF Rows
  <2>. QED  BY <2>3, <2>5, <2>6
<1>8. CASE S!IndexAccessTimes
  <2>1. /\ startup_pc = "order" /\ startup_pc' = "backfill"
        /\ objects' = objects \cup {"idx_blobs_state_last_accessed_at"}
        /\ UNCHANGED <<next, changed, traits, index, version, free, owed, kept>>
    BY <1>8 DEF S!IndexAccessTimes
  <2>2. S!TypeOK'
    BY <1>r, <1>t, <2>1, ObjectsIs DEF S!TypeOK
  <2>3. Schema'
    <3>1. "idx_blobs_state_last_accessed_at" # S!Redundant
      BY DEF S!Redundant
    <3>. QED  BY <2>1, <3>1 DEF Schema
  <2>4. Rows'
    BY <2>1 DEF Rows
  <2>5. Space'
    BY <2>1, ObjectsIs DEF Space
  <2>. QED  BY <2>2, <2>3, <2>4, <2>5
<1>9. CASE S!BackfillStats
  <2>1. /\ startup_pc = "backfill" /\ startup_pc' = "compact"
        /\ index' = [index EXCEPT !.stats =
                       [p \in OldProjects |-> IF p \in index.projects /\ @[p] = None
                                           THEN S!StatsOf(p, index) ELSE @[p]]]
        /\ UNCHANGED <<next, changed, objects, traits, version, free, owed, kept>>
    BY <1>9 DEF S!BackfillStats
  <2>2. \A p : S!StatsOf(p, index) \in [files : Nat, cached : Nat]
    BY StatsType
  <2>3. /\ index' \in S!Data
        /\ \A f \in {"projects", "links", "state", "accessed"} : index'[f] = index[f]
        /\ \A p \in OldProjects : index'.stats[p] = IF p \in index.projects /\ index.stats[p] = None
                                                 THEN S!StatsOf(p, index) ELSE index.stats[p]
    BY <1>t, <2>1, <2>2 DEF S!Data
  <2>4. S!TypeOK'
    BY <1>r, <1>t, <2>1, <2>3 DEF S!TypeOK
  <2>5. \A p : S!StatsOf(p, index') = S!StatsOf(p, index)
    BY <2>3, StatsSame
  <2>6. Schema' /\ Space'
    BY <2>1 DEF Schema, Space
  <2>7. index.projects \subseteq OldProjects
    BY <1>t DEF S!Data
  <2>8. Rows'
    BY <2>1, <2>3, <2>5, <2>7 DEF Rows
  <2>. QED  BY <2>4, <2>6, <2>8
<1>10. CASE S!Compact
  <2>1. /\ startup_pc = "compact" /\ startup_pc' = "version"
        /\ UNCHANGED <<next, changed, objects, traits, index, version, kept>>
        /\ \/ free' = FALSE /\ owed' = FALSE
           \/ ~S!ShouldCompact /\ UNCHANGED <<free, owed>>
    BY <1>10 DEF S!Compact
  <2>2. ~owed'
    <3>1. ~S!ShouldCompact /\ owed => version = S!CACHE_SCHEMA_VERSION
      BY DEF S!ShouldCompact, Space, S!TypeOK, S!CACHE_SCHEMA_VERSION
    <3>. QED  BY <2>1, <3>1 DEF Space
  <2>3. S!TypeOK'
    BY <1>r, <1>t, <2>1 DEF S!TypeOK
  <2>4. Schema' /\ Rows' /\ Space'
    BY <2>1, <2>2 DEF Schema, Rows, Space
  <2>. QED  BY <2>3, <2>4
<1>11. CASE S!SetVersion
  <2>1. /\ startup_pc = "version" /\ startup_pc' = "serving" /\ version' = S!CACHE_SCHEMA_VERSION
        /\ UNCHANGED <<next, changed, objects, traits, index, free, owed, kept>>
    BY <1>11 DEF S!SetVersion
  <2>2. S!TypeOK'
    BY <1>r, <1>t, <2>1 DEF S!TypeOK, S!CACHE_SCHEMA_VERSION
  <2>3. objects = S!Objects /\ traits = {}
    BY <2>1, ObjectsIs DEF Schema, S!TypeOK, S!Traits
  <2>4. Schema' /\ Rows' /\ Space'
    BY <2>1, <2>3 DEF Schema, Rows, Space
  <2>. QED  BY <2>2, <2>4
<1>12. CASE S!Serve
  <2>1. PICK ps \in SUBSET OldProjects, st \in [OldBlobs -> S!States] :
        \E ls \in SUBSET (ps \X OldBlobs), rs \in SUBSET ps :
          index' = S!Stored(ps, ls, rs, ps, st, TRUE)
    BY <1>12 DEF S!Serve
  <2>2. PICK ls \in SUBSET (ps \X OldBlobs), rs \in SUBSET ps :
          index' = S!Stored(ps, ls, rs, ps, st, TRUE)
    BY <2>1
  <2>3. /\ index' \in S!Data /\ index'.projects = ps
        /\ \A p \in OldProjects : index'.stats[p] # None => index'.stats[p] = S!StatsOf(p, index')
        /\ \A p \in ps : index'.stats[p] = S!StatsOf(p, index')
        /\ \A b \in OldBlobs : index'.state[b] = "ready" => index'.accessed[b] # 0
    <3>1. Exact(index', ps) /\ index'.projects = ps /\ Timed(index')
      <4>. DEFINE timed == TRUE
      <4>1. Timed(index')
        BY <2>2, TimedIs
      <4>2. ps \in SUBSET ps /\ index' = S!Stored(ps, ls, rs, ps, st, timed)
        BY <2>2
      <4>. HIDE DEF timed
      <4>3. Exact(S!Stored(ps, ls, rs, ps, st, timed), ps)
            /\ S!Stored(ps, ls, rs, ps, st, timed).projects = ps
        BY <4>2, StoredIs
      <4>. QED  BY <4>1, <4>2, <4>3
    <3>. QED  BY <3>1 DEF Exact, Timed
  <2>4. /\ startup_pc = "serving" /\ kept' = index' /\ free' \in BOOLEAN /\ (free => free')
        /\ UNCHANGED <<startup_pc, next, changed, objects, traits, version, owed>>
    BY <1>12 DEF S!Serve
  <2>5. S!TypeOK'
    BY <1>r, <1>t, <2>3, <2>4 DEF S!TypeOK
  <2>6. Schema' /\ Rows' /\ Space'
    BY <2>3, <2>4 DEF Schema, Rows, Space
  <2>. QED  BY <2>5, <2>6
<1>13. CASE UNCHANGED S!vars
  <2>1. S!TypeOK'
    BY <1>13 DEF S!TypeOK, S!vars, S!fileVars
  <2>2. Schema' /\ Rows' /\ Space'
    BY <1>13 DEF Schema, Rows, Space, S!vars, S!fileVars
  <2>. QED  BY <2>1, <2>2
<1>. QED
  BY <1>1, <1>2, <1>3, <1>4, <1>5, <1>6, <1>7, <1>8, <1>9, <1>10, <1>11, <1>12, <1>13
     DEF S!Next, S!InitDb

(* What the invariant gives of the two properties.                         *)
LEMMA ServedComplete == StartupInv => S!ServingReady
<1>. SUFFICES ASSUME StartupInv, startup_pc = "serving" PROVE S!ServingReady
  BY DEF S!ServingReady
<1>1. objects = S!Objects /\ traits = {}
  BY Ranks, ObjectsIs DEF StartupInv, Schema, S!TypeOK, S!Traits
<1>. QED  BY <1>1, Ranks DEF StartupInv, Rows, S!ServingReady

-----------------------------------------------------------------------------
(* Each part keeps its own invariant, and the parts that do not run stay   *)
(* as they are.                                                            *)
PartsInv ==
  /\ part = "files" => R!IInv
  /\ part = "flat" => F!IInv
  /\ part = "startup" => StartupInv

LEMMA PartsBegin == ASSUME MCInit PROVE PartsInv
<1>1. ASSUME part = "files" PROVE R!IInv
  <2>1. R!Init
    BY <1>1 DEF MCInit
  <2>. QED  BY <2>1, FilesAssumption, R!Initially
<1>2. ASSUME part = "flat" PROVE F!IInv
  <2>1. F!Init
    BY <1>2 DEF MCInit
  <2>. QED  BY <2>1, FlatAssumption, F!Initially
<1>3. ASSUME part = "startup" PROVE StartupInv
  <2>1. S!Init
    BY <1>3 DEF MCInit
  <2>. QED  BY <2>1, StartupBegins
<1>. QED  BY <1>1, <1>2, <1>3 DEF PartsInv

(* A step of the composition is a step of the part that runs.              *)
LEMMA PartSteps ==
  ASSUME [MCNext]_mcVars
  PROVE  /\ part' = part
         /\ part = "files" => [R!Next]_(R!vars)
         /\ part = "flat" => [F!Next]_(F!vars)
         /\ part = "startup" => [S!Next]_(S!vars)
<1>1. UNCHANGED mcVars => part' = part /\ UNCHANGED <<fileVars, flatVars, startupVars>>
  BY DEF mcVars
<1>2. UNCHANGED fileVars => UNCHANGED R!vars
  BY DEF fileVars, R!vars, R!handlerVars
<1>3. UNCHANGED flatVars => UNCHANGED F!vars
  BY DEF flatVars, F!vars, F!upVars, F!storeVars, F!callVars
<1>4. UNCHANGED startupVars => UNCHANGED S!vars
  BY DEF startupVars, S!vars, S!fileVars
<1>5. CASE MCNext
  BY <1>1, <1>2, <1>3, <1>4, <1>5 DEF MCNext, Converted
<1>6. CASE UNCHANGED mcVars
  BY <1>1, <1>2, <1>3, <1>4, <1>6
<1>. QED  BY <1>5, <1>6

LEMMA PartsStep == ASSUME PartsInv, [MCNext]_mcVars PROVE PartsInv'
<1>1. ASSUME part = "files" PROVE R!IInv'
  <2>1. R!IInv /\ [R!Next]_(R!vars)
    BY <1>1, PartSteps DEF PartsInv
  <2>. QED  BY <2>1, FilesAssumption, R!Inductive
<1>2. ASSUME part = "flat" PROVE F!IInv'
  <2>1. F!IInv /\ [F!Next]_(F!vars)
    BY <1>2, PartSteps DEF PartsInv
  <2>. QED  BY <2>1, FlatAssumption, F!Inductive
<1>3. ASSUME part = "startup" PROVE StartupInv'
  <2>1. StartupInv /\ [S!Next]_(S!vars)
    BY <1>3, PartSteps DEF PartsInv
  <2>. QED  BY <2>1, StartupStep
<1>. QED  BY <1>1, <1>2, <1>3, PartSteps DEF PartsInv

LEMMA PartsInvariance == MCSpec => []PartsInv
BY PartsBegin, PartsStep, PTL DEF MCSpec

(* A file that a page offers is answered with its bytes (see               *)
(* FileRequestsProofs, Serving).                                           *)
THEOREM PartServes == MCSpec => []ShownIsServed
<1>1. PartsInv => ShownIsServed
  BY R!ShownByInvariant DEF PartsInv, ShownIsServed
<1>. QED  BY <1>1, PartsInvariance, PTL

(* A link in memory is the index's but for the named races (see            *)
(* FileRequestsProofs, Current).                                           *)
THEOREM PartCurrent == MCSpec => []HotLinkIsCurrent
<1>1. PartsInv => HotLinkIsCurrent
  BY DEF PartsInv, HotLinkIsCurrent, R!IInv
<1>. QED  BY <1>1, PartsInvariance, PTL

(* A wheel page answered from memory was current a time to live ago (see   *)
(* FlatIndexProofs, Recent).                                               *)
THEOREM PartRecent == MCSpec => []FreshIsRecent
<1>1. PartsInv => FreshIsRecent
  BY FlatAssumption, F!Recency DEF PartsInv, FreshIsRecent
<1>. QED  BY <1>1, PartsInvariance, PTL

(* The links of a wheel project never go back to an older page (see        *)
(* FlatIndexProofs, Advances).                                             *)
THEOREM PartAdvances == MCSpec => RowAdvances
<1>1. PartsInv /\ [MCNext]_mcVars => [part = "flat" => F!LinksAdvance]_flatVars
  <2>. SUFFICES ASSUME PartsInv, [MCNext]_mcVars, part = "flat" PROVE F!LinksAdvance
    OBVIOUS
  <2>1. F!IInv /\ [F!Next]_(F!vars)
    BY PartSteps DEF PartsInv
  <2>. QED  BY <2>1, FlatAssumption, F!StepAdvances
<1>. QED  BY <1>1, PartsInvariance, PTL DEF MCSpec, RowAdvances

(* The samples are read from anchors and files such as PagesReadBack is    *)
(* about.                                                                  *)
LEMMA Short ==
  ASSUME NEW T, NEW a \in T, NEW b \in T
  PROVE  <<a>> \in Seq(T) /\ <<a, b>> \in Seq(T)
  OBVIOUS

LEMMA TextsAre == \A t \in Texts : R!IsText(t, Words)
<1>1. /\ "" \in Words /\ "true" \in Words /\ "TRUE" \in Words /\ "false" \in Words
      /\ "sha256" \in Words /\ "m1" \in Words
  BY DEF Words
<1> HIDE DEF Words
<1>2. /\ <<"">> \in Seq(Words) /\ <<"true">> \in Seq(Words) /\ <<"TRUE">> \in Seq(Words)
      /\ <<"false">> \in Seq(Words) /\ <<"sha256", "m1">> \in Seq(Words)
      /\ <<"sha256", "">> \in Seq(Words)
  BY <1>1, Short
<1> QED BY <1>2 DEF Texts, R!IsText

LEMMA HashesAre == \A t \in Hashes : R!IsText(t, Words)
<1>1. /\ "" \in Words /\ "sha256" \in Words /\ "SHA256" \in Words /\ "md5" \in Words
      /\ "s0" \in Words /\ "s1" \in Words /\ "x" \in Words
  BY DEF Words
<1> HIDE DEF Words
<1>2. /\ <<"sha256">> \in Seq(Words) /\ <<"sha256", "s1">> \in Seq(Words)
      /\ <<"SHA256", "s0">> \in Seq(Words) /\ <<"sha256", "">> \in Seq(Words)
      /\ <<"md5", "x">> \in Seq(Words)
  BY <1>1, Short
<1> QED BY <1>2 DEF Hashes, R!IsText

LEMMA StringIs == \A t : R!String(t).is = "string" /\ R!String(t).text = t
  BY DEF R!String, R!Null

LEMMA FieldsAre == \A fs \in Fields : R!IsFields(fs, Words)
<1>1. /\ "sha256" \in Words /\ "md5" \in Words /\ "s1" \in Words /\ "x" \in Words
  BY DEF Words
<1> HIDE DEF Words
<1>2. R!IsFields(<<>>, Words)
  <2>1. DOMAIN <<>> = {}
    OBVIOUS
  <2> QED BY <2>1 DEF R!IsFields
<1>3. ASSUME NEW a, NEW u, NEW b, NEW v,
             u.is = "string" => a \in Words /\ u.text[1] \in Words,
             v.is = "string" => b \in Words /\ v.text[1] \in Words
      PROVE  R!IsFields(<<<<a, u>>, <<b, v>>>>, Words)
  <2> DEFINE fs == <<<<a, u>>, <<b, v>>>>
  <2>1. DOMAIN fs = {1, 2} /\ fs[1][1] = a /\ fs[1][2] = u /\ fs[2][1] = b /\ fs[2][2] = v
    OBVIOUS
  <2> HIDE DEF fs
  <2>2. R!IsFields(fs, Words)
    BY <1>3, <2>1 DEF R!IsFields
  <2> QED BY <2>2 DEF fs
<1>4. /\ R!String(<<"x">>).text[1] = "x" /\ R!String(<<"s1">>).text[1] = "s1"
      /\ R!Null.is = "null"
  BY StringIs DEF R!Null
<1>5. R!IsFields(<<<<"md5", R!String(<<"x">>)>>, <<"sha256", R!String(<<"s1">>)>>>>, Words)
  BY <1>1, <1>3, <1>4
<1>6. R!IsFields(<<<<"sha256", R!Null>>, <<"md5", R!String(<<"x">>)>>>>, Words)
  BY <1>1, <1>3, <1>4
<1> QED BY <1>2, <1>5, <1>6 DEF Fields

LEMMA ValuesAre == \A v \in Values : R!IsValue(v, Words)
<1>1. R!Null.is = "null" /\ R!Bool(TRUE).is = "true" /\ R!Bool(FALSE).is = "false"
  BY DEF R!Null, R!Bool
<1>2. \A t \in Texts \ {None} : R!String(t).is = "string" /\ R!String(t).text \in Seq(Words)
  BY StringIs, TextsAre DEF R!IsText
<1> HIDE DEF Words
<1>3. ASSUME NEW v \in Values PROVE R!IsValue(v, Words)
  <2>1. v.is # "object" /\ (v.is = "string" => v.text \in Seq(Words))
    BY <1>1, <1>2 DEF Values
  <2> QED BY <2>1 DEF R!IsValue
<1> QED BY <1>3

LEMMA SampleLinks ==
  ASSUME NEW l \in {R!parse_anchor(a) : a \in Anchors} \cup {R!parse_file(f) : f \in Files}
  PROVE  R!IsLink(l, Words)
<1>1. ASSUME NEW a \in Anchors PROVE R!IsAnchor(a, Words)
  <2>1. /\ a.fragment \in Hashes /\ a.yanked \in {None, <<"">>, <<"why">>}
        /\ a.dist_info_metadata \in Texts /\ a.core_metadata \in {None, <<"true">>}
    BY DEF Anchors
  <2>2. <<"">> \in Seq(Words) /\ <<"why">> \in Seq(Words)
    <3>1. "" \in Words /\ "why" \in Words
      BY DEF Words
    <3> HIDE DEF Words
    <3> QED BY <3>1, Short
  <2>3. <<"true">> \in Texts
    BY DEF Texts
  <2>4. R!IsText(a.core_metadata, Words)
    BY <2>1, <2>3, TextsAre DEF R!IsText
  <2>5. R!IsText(a.yanked, Words)
    BY <2>1, <2>2 DEF R!IsText
  <2> QED BY <2>1, <2>4, <2>5, TextsAre, HashesAre DEF R!IsAnchor
<1>2. ASSUME NEW f \in Files PROVE R!IsFile(f, Words)
  <2>1. /\ f.fragment \in Hashes /\ f.hashes \in Fields \cup {None} /\ f.yanked \in Values
        /\ f.gpg_sig \in {None, <<FALSE>>} /\ f.core_metadata \in Values
        /\ f.dist_info_metadata \in {R!Null} \cup {R!Object(fs) : fs \in Fields}
    BY DEF Files
  <2>2. R!IsValue(f.dist_info_metadata, Words)
    <3>1. R!Null.is = "null" /\ \A fs : R!Object(fs).is = "object" /\ R!Object(fs).fields = fs
      BY DEF R!Null, R!Object
    <3>2. CASE f.dist_info_metadata = R!Null
      BY <3>1, <3>2 DEF R!IsValue
    <3>3. ASSUME NEW fs \in Fields, f.dist_info_metadata = R!Object(fs)
          PROVE  R!IsValue(f.dist_info_metadata, Words)
      BY <3>1, <3>3, FieldsAre DEF R!IsValue
    <3> QED BY <2>1, <3>2, <3>3
  <2> QED BY <2>1, <2>2, HashesAre, FieldsAre, ValuesAre DEF R!IsFile
<1>3. R!TextsOK(Words)
  BY FilesAssumption
<1> HIDE DEF Words
<1>4. \A a \in Anchors : R!IsLink(R!parse_anchor(a), Words)
  BY <1>1, R!AnchorIsLink
<1>5. \A f \in Files : R!IsLink(R!parse_file(f), Words)
  BY <1>2, <1>3, R!FileIsLink
<1> QED BY <1>4, <1>5

(* Every sample of a link reads back from the pages made of it, and every  *)
(* sample of a header is parsed to the bytes it means (see                 *)
(* FileRequestsProofs, PagesReadBack and Parses, which are about all links *)
(* and headers).                                                           *)
THEOREM PartReads == MCSpec => []ReadsBack
<1>1. ASSUME MCInit PROVE ReadsBack
  <2>. SUFFICES ASSUME part = "samples"
                PROVE  IF "header" \in DOMAIN sample THEN R!Exact(sample.header, sample.size)
                       ELSE R!Readable(sample)
    BY DEF ReadsBack
  <2>1. sample \in Samples
    BY <1>1 DEF MCInit
  <2>2. CASE sample \in [header : Headers, size : 0 .. 3]
    <3>1. "header" \in DOMAIN sample /\ sample.header \in R!Header /\ sample.size \in Nat
      <4>1. -2 .. 4 \subseteq R!Word
        BY DEF R!Word, R!Empty, R!Bad
      <4>2. sample.header \in Headers /\ sample.size \in 0 .. 3 /\ "header" \in DOMAIN sample
        BY <2>2
      <4>3. Headers \subseteq R!Header
        BY <4>1 DEF Headers, R!Header
      <4>. QED  BY <4>2, <4>3
    <3>. QED  BY <3>1, R!Parses
  <2>3. CASE sample \notin [header : Headers, size : 0 .. 3]
    <3>1. R!IsLink(sample, Words)
      BY <2>1, <2>3, SampleLinks DEF Samples
    <3>2. "header" \notin DOMAIN sample
      BY <3>1 DEF R!IsLink, R!Fields
    <3>3. R!TextsOK(Words)
      BY FilesAssumption
    <3>. QED  BY <3>1, <3>2, <3>3, R!PagesReadBack
  <2>. QED  BY <2>2, <2>3
<1>2. ReadsBack /\ [MCNext]_mcVars => ReadsBack'
  BY DEF MCNext, Converted, mcVars, ReadsBack
<1>. QED  BY <1>1, <1>2, PTL DEF MCSpec

(* When the server serves, the schema is today's, nothing is lost, the     *)
(* statistics are exact, and every cached file has an access time, however *)
(* often a start was cut off before (init_db).                             *)
THEOREM Served == MCSpec => []ServingReady
<1>1. PartsInv => ServingReady
  BY ServedComplete DEF PartsInv, ServingReady
<1>. QED  BY <1>1, PartsInvariance, PTL

(* A database that counts as migrated has given back the space that any    *)
(* migration freed (finish_project_metadata_migration).                    *)
THEOREM Compacted == MCSpec => []MigratedIsCompacted
<1>1. PartsInv => MigratedIsCompacted
  BY DEF PartsInv, StartupInv, Space, MigratedIsCompacted, S!MigratedIsCompacted
<1>. QED  BY <1>1, PartsInvariance, PTL

(* The database and the place of init_db are well typed throughout.        *)
THEOREM StartupTyped == MCSpec => [](part = "startup" => S!TypeOK)
<1>1. PartsInv => (part = "startup" => S!TypeOK)
  BY DEF PartsInv, StartupInv
<1>. QED  BY <1>1, PartsInvariance, PTL
=============================================================================
