---------------------------- MODULE UploadParts -----------------------------
(***************************************************************************)
(* How the web client cuts a file into the parts of a multipart upload:    *)
(* plain slices (shared/uploadPaste.ts), or one encryption chunk per part  *)
(* (frontend/utils/encryptionCore.ts), where the first part also carries   *)
(* the header and every chunk an authentication tag.                       *)
(*                                                                         *)
(* Bytes are counted, not represented.  A file is a record of its size and *)
(* of whether it is encrypted.                                             *)
(***************************************************************************)
EXTENDS Integers

CONSTANTS
  PartSize,     \* DIRECT_UPLOAD_MAX_BYTES, also ENCRYPTION_PART_SIZE
  HeaderSize,   \* ENCRYPTION_HEADER_SIZE
  TagSize       \* ENCRYPTION_TAG_SIZE

ASSUME SizesAssumption ==
  /\ PartSize \in Nat /\ HeaderSize \in Nat /\ TagSize \in Nat
  /\ HeaderSize + TagSize < PartSize

Files == [size : Nat, encrypted : BOOLEAN]

Ceiling(n, d) == (n + d - 1) \div d
Smaller(a, b) == IF a < b THEN a ELSE b
Larger(a, b) == IF a < b THEN b ELSE a

-----------------------------------------------------------------------------
(* Encryption chunks: intervals of the plaintext.                          *)

\* As FirstPlaintextSize, but the header is not allowed for.
HeaderlessFirstPlaintextSize == PartSize - TagSize

FirstPlaintextSize == PartSize - HeaderSize - TagSize
FollowingPlaintextSize == PartSize - TagSize

ChunkCount(size) ==
  1 + Ceiling(Larger(0, size - FirstPlaintextSize), FollowingPlaintextSize)

\* As ChunkStart, but the first chunk is taken to be as long as the others.
UniformChunkStart(index) == index * FollowingPlaintextSize

ChunkStart(index) ==
  IF index = 0 THEN 0 ELSE FirstPlaintextSize + (index - 1) * FollowingPlaintextSize

ChunkBounds(size, index) ==
  [start |-> ChunkStart(index),
   end   |-> Smaller(size, ChunkStart(index) +
               IF index = 0 THEN FirstPlaintextSize ELSE FollowingPlaintextSize)]

EncryptedFileSize(size) == HeaderSize + size + ChunkCount(size) * TagSize

-----------------------------------------------------------------------------
(* Plain slices, and the parts of either kind of file.                     *)

SliceBounds(size, index) ==
  [start |-> Smaller(size, index * PartSize), end |-> Smaller(size, (index + 1) * PartSize)]

StoredSize(file) == IF file.encrypted THEN EncryptedFileSize(file.size) ELSE file.size

PartCount(file) ==
  IF file.encrypted THEN ChunkCount(file.size) ELSE Ceiling(file.size, PartSize)

Indices(file) == 0 .. PartCount(file) - 1

PartBounds(file, index) ==
  IF file.encrypted THEN ChunkBounds(file.size, index) ELSE SliceBounds(file.size, index)

\* The bytes a part has in R2.
PartLength(file, index) ==
  LET content == PartBounds(file, index).end - PartBounds(file, index).start IN
  content + (IF file.encrypted THEN TagSize ELSE 0)
          + (IF file.encrypted /\ index = 0 THEN HeaderSize ELSE 0)
=============================================================================
