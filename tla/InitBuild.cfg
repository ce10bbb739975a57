SPECIFICATION Spec
CONSTANTS
  Builders = {b1, b2}
  Names <- MCNames
  NameLen <- MCNameLen
  Trailer <- MCTrailer
  Wrap = 7
  Jobs <- MCJobs
  BodyLen <- MCBodyLen
  Library = Library
  LibraryNames <- MCLibraryNames
  MaxRecords = 2
SYMMETRY MCSymmetry
INVARIANTS TypeOK HeadersFound ParentsFirst OkMeansPacked OverlapConverges
