--------------------------- MODULE MCP0bProducer ---------------------------
(***************************************************************************)
(* storm and stormToo are one record that two sources offer; the poll      *)
(* windows overlap, so batches, digests and sources collide.               *)
(***************************************************************************)
EXTENDS P0bProducer

CONSTANTS storm, flood, stormToo

\* Two sources: <<flood, stormToo>> is one poll of both.
RaceCandidate == {storm, flood, stormToo}
RaceSha       == [c \in RaceCandidate |-> IF c = flood THEN 2 ELSE 1]
RaceSource    == [c \in RaceCandidate |-> IF c = stormToo THEN 2 ELSE 1]
RaceFetch     == {<<storm, flood>>, <<flood, stormToo>>}

\* One source, whose window grows from storm to storm and flood.
PairCandidate == {storm, flood}
PairSha       == [c \in PairCandidate |-> IF c = flood THEN 2 ELSE 1]
PairSource    == [c \in PairCandidate |-> 1]
PairFetch     == {<<storm>>, <<storm, flood>>}

\* One source, a poll of each of two records, one record to a bundle.
QueueFetch == {<<storm>>, <<flood>>}

\* Two sources that offer one record: only one of them gets its row.
TwinCandidate == {storm, stormToo}
TwinSha       == [c \in TwinCandidate |-> 1]
TwinSource    == [c \in TwinCandidate |-> IF c = storm THEN 1 ELSE 2]
TwinFetch     == {<<storm>>, <<stormToo>>}

Lists(C, sha, n) == {s \in UNION {[1..i -> C] : i \in 1..n} :
                       \A i, j \in DOMAIN s : sha[s[i]] = sha[s[j]] => i = j}
RaceUri       == Lists(RaceCandidate, RaceSha, 2)
RaceManifest  == [u \in RaceUri |-> ToSet(u)]
RaceConsumed  == {<<storm, flood>>, <<flood, stormToo>>}
TwinUri       == Lists(TwinCandidate, TwinSha, 1)
TwinManifest  == [u \in TwinUri |-> ToSet(u)]
QueueUri      == Lists(PairCandidate, PairSha, 1)
QueueManifest == [u \in QueueUri |-> ToSet(u)]
PairUri       == Lists(PairCandidate, PairSha, 2)
PairManifest  == [u \in PairUri |-> ToSet(u)]
=============================================================================
