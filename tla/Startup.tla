------------------------------ MODULE Startup ------------------------------
(***************************************************************************)
(* init_db: what CacheStore::initialize does to the SQLite file before the *)
(* server serves.  The file may be new, or left by an older program: with  *)
(* page bodies in projects, a unique index or a redundant index on the     *)
(* links, rendered bodies without sizes, blobs without an access time,     *)
(* projects without statistics.                                            *)
(*                                                                         *)
(* Every statement is a transaction of its own, except the two migrations  *)
(* that begin one.  The process may be killed, or fail and exit, between   *)
(* any two, and what it knew of the migrations it did is gone.             *)
(*                                                                         *)
(* Abstracted: columns that are only carried along; sizes; the pages of    *)
(* the file, of which one bit remains, whether the free list has any.      *)
(***************************************************************************)
EXTENDS Naturals, Sequences, FiniteSets

CONSTANTS
  Projects, Blobs,
  Legacies,   \* sets of objects that databases of older programs had
  None

CACHE_SCHEMA_VERSION == 2

VARIABLES
  pc,         \* "down", a step of init_db, or "serving"
  next,       \* which statement of the first batch comes next
  changed,    \* a migration of this start changed the schema
  objects,    \* tables and indexes of the database
  traits,     \* what is left of older programs in the tables
  index,      \* the data: projects, links, rendered pages, statistics, blobs
  version,    \* PRAGMA user_version
  free,       \* PRAGMA freelist_count > 0
  \* what happened, for the properties only
  owed,       \* the file has pages of data that an older program stored and none uses
  kept        \* projects, links and blobs when the process started

fileVars == <<objects, traits, index, version, free, owed>>
vars == <<pc, next, changed, fileVars, kept>>

\* The statements of the first batch, each IF NOT EXISTS.
Batch == <<"projects", "project_links", "blobs", "idx_blobs_state_size",
           "idx_blobs_state_fetched_at", "project_responses", "project_stats",
           "root_stats_samples">>
Tables == {"projects", "project_links", "blobs"}
Objects == {Batch[i] : i \in DOMAIN Batch}
           \cup {"idx_project_links_blob_lookup", "idx_blobs_state_last_accessed_at"}
Redundant == "idx_project_links_project_order"
Traits == {"raw_body", "unique_links", "unsized_responses", "no_access_time"}

States == {"none", "pending", "ready"}
LinksOf(p, links) == {b \in Blobs : <<p, b>> \in links}

\* The statistics of a project: how many files it has, and how many are cached.
StatsOf(p, d) ==
  [files |-> Cardinality(LinksOf(p, d.links)),
   cached |-> Cardinality({b \in LinksOf(p, d.links) : d.state[b] = "ready"})]
Counted(ps, d) == [p \in Projects |-> IF p \in ps THEN StatsOf(p, d) ELSE None]

\* accessed[b] is 0 for a blob nobody has recorded an access of.
Data ==
  [projects : SUBSET Projects, links : SUBSET (Projects \X Blobs),
   responses : SUBSET Projects, stats : [Projects -> [files : Nat, cached : Nat] \cup {None}],
   state : [Blobs -> States], accessed : [Blobs -> {0, 1}]]

\* What a program that serves leaves: links of projects it knows, exact statistics of
\* the projects in withStats, an access time for every ready blob if there is a column.
Stored(ps, ls, rs, withStats, st, timed) ==
  LET d == [projects |-> ps, links |-> ls, responses |-> rs, stats |-> <<>>, state |-> st,
            accessed |-> [b \in Blobs |-> IF timed /\ st[b] = "ready" THEN 1 ELSE 0]]
  IN [d EXCEPT !.stats = Counted(withStats, d)]

Has(o) == o \in objects

\* A new file, a file of this program, or one of an older program.
InitFile ==
  /\ \E ps \in SUBSET Projects, st \in [Blobs -> States] :
     \E ls \in SUBSET (ps \X Blobs), rs \in SUBSET ps, ss \in SUBSET ps :
       /\ index = Stored(ps, ls, rs, ss, st, "no_access_time" \notin traits)
       /\ Tables \cap objects = {} => ps = {} /\ \A b \in Blobs : st[b] = "none"
       /\ ~Has("project_responses") => rs = {}
       /\ ~Has("project_stats") => ss = {}
       /\ version = CACHE_SCHEMA_VERSION => ss = ps
  /\ version = CACHE_SCHEMA_VERSION => objects = Objects /\ traits = {} /\ ~owed
  /\ objects = {} => version = 0 /\ traits = {} /\ ~free
  /\ "unsized_responses" \in traits => Has("project_responses")
  /\ "no_access_time" \in traits => ~Has("idx_blobs_state_last_accessed_at")
  /\ owed => free

Init ==
  /\ pc = "down" /\ next = 1 /\ changed = FALSE
  /\ objects \in Legacies \cup {{}, Objects} /\ traits \in SUBSET Traits
  /\ version \in 0 .. CACHE_SCHEMA_VERSION /\ free \in BOOLEAN /\ owed \in BOOLEAN
  /\ InitFile
  /\ kept = index

-----------------------------------------------------------------------------
Start ==
  /\ pc = "down"
  /\ pc' = "batch" /\ next' = 1 /\ kept' = index
  /\ UNCHANGED <<changed, fileVars>>

\* A process that is killed, or whose statement fails: the database is as it was.
Stop ==
  /\ pc # "down"
  /\ pc' = "down" /\ changed' = FALSE
  /\ UNCHANGED <<next, fileVars, kept>>

Create ==
  /\ pc = "batch"
  /\ objects' = objects \cup {Batch[next]}
  /\ next' = IF next = Len(Batch) THEN 1 ELSE next + 1
  /\ pc' = IF next = Len(Batch) THEN "metadata" ELSE pc
  /\ UNCHANGED <<changed, traits, index, version, free, owed, kept>>

\* Pages are freed: by a table that is dropped if it held anything.
Freed(some) == /\ free' = (free \/ some)
               /\ owed' = (owed \/ some)

MetadataTraits == traits \cap {"raw_body", "unique_links"}

MigrateUnwrapped ==   \* for a mutant: the migration is not a transaction
  /\ pc = "metadata"
  /\ \/ /\ pc' = "responses"
        /\ changed' = (MetadataTraits # {} \/ Has(Redundant))
        /\ objects' = (objects \ {Redundant}) \cup {"idx_project_links_blob_lookup"}
        /\ traits' = traits \ {"raw_body", "unique_links"}
        /\ UNCHANGED index
     \/ /\ "unique_links" \in traits
        /\ index' = [index EXCEPT !.links = {}] /\ traits' = traits \ {"unique_links"}
        /\ UNCHANGED <<pc, changed, objects>>
  /\ Freed(MetadataTraits # {} \/ Has(Redundant))
  /\ UNCHANGED <<next, version, kept>>

\* One transaction: the projects without their bodies and the links without their
\* unique index are copied to new tables, the redundant index goes, the lookup index
\* comes (a table that is dropped takes its indexes with it).
MigrateMetadata ==
  /\ pc = "metadata" /\ pc' = "responses"
  /\ changed' = (MetadataTraits # {} \/ Has(Redundant))
  /\ objects' = (objects \ {Redundant}) \cup {"idx_project_links_blob_lookup"}
  /\ traits' = traits \ {"raw_body", "unique_links"}
  /\ Freed(MetadataTraits # {} \/ Has(Redundant))
  /\ UNCHANGED <<next, index, version, kept>>

\* One transaction: rendered bodies without sizes are dropped; they are rendered again.
MigrateResponses ==
  /\ pc = "responses" /\ pc' = "alter"
  /\ IF "unsized_responses" \in traits
       THEN /\ traits' = traits \ {"unsized_responses"}
            /\ index' = [index EXCEPT !.responses = {}]
            /\ changed' = TRUE
            /\ Freed(index.responses # {})
       ELSE UNCHANGED <<traits, index, changed, free, owed>>
  /\ UNCHANGED <<next, objects, version, kept>>

AddAndFillOnce ==   \* for a mutant: an existing column is taken to be filled
  /\ pc = "alter" /\ pc' = IF "no_access_time" \in traits THEN "fill" ELSE "order"
  /\ traits' = traits \ {"no_access_time"}
  /\ UNCHANGED <<next, changed, objects, index, version, free, owed, kept>>

\* ALTER TABLE: every blob gets the access time 0.
AddAccessTimes ==
  /\ pc = "alter" /\ pc' = "fill"
  /\ traits' = traits \ {"no_access_time"}
  /\ UNCHANGED <<next, changed, objects, index, version, free, owed, kept>>

FillAccessTimes ==
  /\ pc = "fill" /\ pc' = "order"
  /\ index' = [index EXCEPT !.accessed =
                 [b \in Blobs |-> IF index.state[b] = "ready" THEN 1 ELSE @[b]]]
  /\ UNCHANGED <<next, changed, objects, traits, version, free, owed, kept>>

IndexAccessTimes ==
  /\ pc = "order" /\ pc' = "backfill"
  /\ objects' = objects \cup {"idx_blobs_state_last_accessed_at"}
  /\ UNCHANGED <<next, changed, traits, index, version, free, owed, kept>>

\* Only projects without statistics get them; ON CONFLICT DO NOTHING.
BackfillStats ==
  /\ pc = "backfill" /\ pc' = "compact"
  /\ index' = [index EXCEPT !.stats =
                 [p \in Projects |-> IF p \in index.projects /\ @[p] = None
                                     THEN StatsOf(p, index) ELSE @[p]]]
  /\ UNCHANGED <<next, changed, objects, traits, version, free, owed, kept>>

ShouldCompactChanged == changed   \* for a mutant: only what this start migrated
ShouldCompact == changed \/ (version < CACHE_SCHEMA_VERSION /\ free)

Compact ==
  /\ pc = "compact" /\ pc' = "version"
  /\ IF ShouldCompact THEN free' = FALSE /\ owed' = FALSE ELSE UNCHANGED <<free, owed>>
  /\ UNCHANGED <<next, changed, objects, traits, index, version, kept>>

SetVersion ==
  /\ pc = "version" /\ pc' = "serving"
  /\ version' = CACHE_SCHEMA_VERSION
  /\ UNCHANGED <<next, changed, objects, traits, index, free, owed, kept>>

InitDb ==
  \/ Create \/ MigrateMetadata \/ MigrateResponses \/ AddAccessTimes \/ FillAccessTimes
  \/ IndexAccessTimes \/ BackfillStats \/ Compact \/ SetVersion

\* What the server stores is consistent (CacheIndex), and rows it deletes free pages.
Serve ==
  /\ pc = "serving"
  /\ \E ps \in SUBSET Projects, st \in [Blobs -> States] :
     \E ls \in SUBSET (ps \X Blobs), rs \in SUBSET ps :
       index' = Stored(ps, ls, rs, ps, st, TRUE)
  /\ free' \in BOOLEAN /\ (free => free')
  /\ kept' = index'
  /\ UNCHANGED <<pc, next, changed, objects, traits, version, owed>>

Next == Start \/ Stop \/ InitDb \/ Serve

Spec == Init /\ [][Next]_vars

-----------------------------------------------------------------------------
Steps == <<"batch", "metadata", "responses", "alter", "fill", "order", "backfill",
           "compact", "version", "serving">>
TypeOK ==
  /\ pc \in {Steps[i] : i \in DOMAIN Steps} \cup {"down"} /\ next \in DOMAIN Batch
  /\ changed \in BOOLEAN /\ free \in BOOLEAN /\ owed \in BOOLEAN
  /\ objects \subseteq Objects \cup {Redundant} /\ traits \subseteq Traits
  /\ index \in Data /\ kept \in Data
  /\ version \in 0 .. CACHE_SCHEMA_VERSION

\* However often a start was cut off before, and whichever program left the database:
\* when the server serves, the schema is today's, every project, link and blob is
\* still there, every project has exact statistics, and no cached file looks as if it
\* had never been used (init_db).
ServingReady ==
  pc = "serving" =>
    /\ objects = Objects /\ traits = {}
    /\ \A f \in {"projects", "links", "state"} : index[f] = kept[f]
    /\ \A p \in index.projects : index.stats[p] = StatsOf(p, index)
    /\ \A b \in Blobs : index.state[b] = "ready" => index.accessed[b] # 0

\* Space that a migration set free is given back before the database counts as
\* migrated, although a start that is cut off forgets that it migrated anything
\* (finish_project_metadata_migration).
MigratedIsCompacted == version = CACHE_SCHEMA_VERSION => ~owed
=============================================================================
