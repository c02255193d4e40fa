--------------------------- MODULE MCBlobDownload ---------------------------
(* A finite instance of BlobDownload alone. *)
EXTENDS BlobDownload
=============================================================================
