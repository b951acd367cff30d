-------------------------- MODULE MCChunkExchange --------------------------
(***************************************************************************)
(* Small instances of ChunkExchange.  Every seeder announces every chunk.  *)
(***************************************************************************)
EXTENDS ChunkExchange

CONSTANTS full, part

\* One has the model, the other only its first chunk.
StoredBySeeder == [s \in Seeder |-> IF s = part THEN {0} ELSE Chunk]

=============================================================================
