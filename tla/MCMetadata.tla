----------------------------- MODULE MCMetadata -----------------------------
(***************************************************************************)
(* Metadata for TLC.  The peers take ut_metadata under the id that         *)
(* Digitalis uses itself; MetadataArrives fails with any other one.        *)
(***************************************************************************)
EXTENDS Metadata

SameId  == [s \in Sessions |-> utMetadataID]
=============================================================================
