--------------------------- MODULE MCCoapDownload ---------------------------
(***************************************************************************)
(* Small downloads: a file that ends within a block, with and without a    *)
(* stated length, one the caller takes to be longer or shorter than it is, *)
(* one that fits in a block, and an empty one.                             *)
(***************************************************************************)
EXTENDS CoapDownload

Download(len, file_size, size2) == [len |-> len, file_size |-> file_size, size2 |-> size2]

SmallDownloads ==
    {Download(7, 7, FALSE), Download(5, 0, TRUE), Download(4, 7, FALSE), Download(4, 2, FALSE),
     Download(3, 0, FALSE), Download(2, 0, TRUE), Download(0, 0, TRUE)}
=============================================================================
