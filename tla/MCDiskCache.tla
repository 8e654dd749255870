----------------------------- MODULE MCDiskCache -----------------------------
(***************************************************************************)
(* DiskCache with the URLs, the temporary files and the fetches of a cfg.  *)
(***************************************************************************)
EXTENDS DiskCache
=============================================================================
