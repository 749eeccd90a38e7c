\* Buffers, classes and UTF-8.
CONSTANTS
  Values = {a, b}
  NUL = NUL
  Junk = Junk
  Texts <- TheTexts
  MaxSize = 5
  Objects = {o1, o2}
  Fields <- TheFields
  FieldValues = {c}
  Nil = Nil
  FieldLimit = 2
  MaxDepth = 3
  Unichars = {0, 127, 128, 2047, 2048, 65535, 65536, 1114111, 1114112}
  Octets = {65, 169, 195, 226, 240, 255}
  Memory = 6
  MaxChars = 3
SPECIFICATION LibSpec
INVARIANTS Capacity Contents ObjectsFit FieldsKeep GoneForGood ReadsBack ReadsInside
PROPERTY OverrunOnlyFresh
\* A program may stop at any time, and ends after an error.
CHECK_DEADLOCK FALSE
