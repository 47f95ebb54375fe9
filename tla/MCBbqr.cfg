CONSTANTS
  plain = plain
  zipped = zipped
  hexed = hexed
  large = large
  draft = draft
  rezipped = rezipped
  None = None
  HeaderLen = 8
  MaxParts = 1295
  File <- MCFile
  FileType <- MCFileType
  Encoding <- MCEncoding
  RawLen <- MCRawLen
  StoredLen <- MCStoredLen
  MaxPartLen <- MCMaxPartLen
  Bytes <- MCBytes
  MaxFileLen = 16
SPECIFICATION Spec
INVARIANTS Accounted CompleteWhenAllSeen
PROPERTY Reassembles
