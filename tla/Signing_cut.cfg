\* Digests of three bytes, inputs of up to six (the bytes are complements), and any write cut off.
CONSTANTS
  BadChar = BadChar
  None = None
  Piece = Piece
  DigestLen = 3
  Path = path
  Bases = {1, 2}
  Drvs = {d1}
  ByteValues = {53, 202}
  MaxBytes = 6
  MaxKeys = 2
SPECIFICATION Spec
INVARIANTS
  EncodingInverts
  SignaturesFitClient
  PublishedKeyVerifies
  OneSignature
  ContentKept
\* Every behaviour may end with the file as it is.
CHECK_DEADLOCK FALSE
