---------------------------- MODULE MCChunkUpload ----------------------------
(***************************************************************************)
(* ChunkUpload on one upload of two chunks, so that one chunk can be whole *)
(* while another is not, under one or two concurrent requests.             *)
(***************************************************************************)
EXTENDS ChunkUpload
=============================================================================
