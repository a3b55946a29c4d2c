------------------------- MODULE MCMultipartUpload --------------------------
(***************************************************************************)
(* Uploads of small files, for TLC.  Parts are five bytes, a header two    *)
(* and a tag one, so that an encrypted file of up to MaxSize bytes has up  *)
(* to four parts, and its last part every length a last part can have.    *)
(***************************************************************************)
EXTENDS MultipartUpload

CONSTANT MaxSize   \* bound: the largest file

MCUploads == [size : 0 .. MaxSize, encrypted : BOOLEAN]

=============================================================================
