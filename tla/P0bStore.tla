------------------------------ MODULE P0bStore ------------------------------
(***************************************************************************)
(* The D1 tables that every P0-B worker shares, and the statements more    *)
(* than one worker issues against them.                                    *)
(*                                                                         *)
(* A candidate is one fetched record as one source offers it.  Sha gives   *)
(* its candidate_sha256: two sources may offer the same record, and the    *)
(* UNIQUE constraints of the tables are on the digest.  A bundle is named  *)
(* by its B2 URI, which determines its bundle_sha256 and its manifest.     *)
(***************************************************************************)
CONSTANTS
    Candidate,   \* (candidate_sha256, source_id) pairs that polls may offer
    Sha,         \* candidate -> candidate_sha256
    Uri,         \* B2 URIs of the bundles that may be built
    Manifest,    \* URI -> the candidates sealed in that bundle
    NoUri,       \* SQL NULL, or no row, where a URI is expected
    Nobody       \* SQL NULL where the holder of a lease is expected

ASSUME StoreAssumption ==
    /\ Manifest \in [Uri -> SUBSET Candidate]
    /\ \A u \in Uri : Manifest[u] # {}
    /\ \A u \in Uri : \A c, d \in Manifest[u] : Sha[c] = Sha[d] => c = d
    /\ NoUri \notin Uri

VARIABLES
    bundleState,  \* ingestion_spool_bundles.state, "NONE" where there is no row
    rowUri,       \* ingestion_spool_queue.b2_spool_uri, NoUri where there is no row
    rowState,     \* ingestion_spool_queue.state, "NONE" where there is no row
    article       \* normalized_articles.b2_archive_uri, NoUri where there is no row

storeVars == <<bundleState, rowUri, rowState, article>>

BundleState == {"NONE", "PENDING", "PROCESSING", "RETRY", "D1_COMMITTED", "DEAD_LETTER"}
Terminal    == {"D1_COMMITTED", "DEAD_LETTER"}
RowState    == {"NONE", "PENDING", "D1_COMMITTED"}

StoreTypeOK ==
    /\ bundleState \in [Uri -> BundleState]
    /\ rowUri \in [Candidate -> Uri \cup {NoUri}]
    /\ rowState \in [Candidate -> RowState]
    /\ article \in [Candidate -> Uri \cup {NoUri}]

StoreInit ==
    /\ bundleState = [u \in Uri |-> "NONE"]
    /\ rowUri = [c \in Candidate |-> NoUri]
    /\ rowState = [c \in Candidate |-> "NONE"]
    /\ article = [c \in Candidate |-> NoUri]

-----------------------------------------------------------------------------

\* SELECT ... FROM ingestion_spool_queue WHERE b2_spool_uri = u
JournalOf(u) == {c \in Candidate : rowUri[c] = u}

\* Some row holds c's digest: an INSERT for c hits ON CONFLICT DO NOTHING.
Journaled(c) == \E d \in Candidate : Sha[d] = Sha[c] /\ rowUri[d] # NoUri
Admitted(c)  == \E d \in Candidate : Sha[d] = Sha[c] /\ article[d] # NoUri

UpsertBatch(u) ==
    /\ bundleState' = [bundleState EXCEPT ![u] = IF @ = "NONE" THEN "PENDING" ELSE @]
    /\ rowUri' = [c \in Candidate |-> IF c \in Manifest[u] THEN u ELSE rowUri[c]]
    /\ rowState' = [c \in Candidate |-> IF c \in Manifest[u] THEN "PENDING" ELSE rowState[c]]
    /\ UNCHANGED article

(* The ingestion part of the producer's db.batch: the bundle row and one   *)
(* row per manifest item, each ON CONFLICT DO NOTHING, in one transaction. *)
JournalBatch(u) ==
    /\ bundleState' = [bundleState EXCEPT ![u] = IF @ = "NONE" THEN "PENDING" ELSE @]
    /\ rowUri' = [c \in Candidate |->
                    IF c \in Manifest[u] /\ ~Journaled(c) THEN u ELSE rowUri[c]]
    /\ rowState' = [c \in Candidate |->
                    IF c \in Manifest[u] /\ ~Journaled(c) THEN "PENDING" ELSE rowState[c]]
    /\ UNCHANGED article
=============================================================================
