SPECIFICATION Spec
CONSTANTS
  Clients = {c1, c2}
  Texts = {page, oops}
  Binaries = {image}
  Folder = folder
  Stem = stem
  NoName = noname
  Page = page
  Index = page
  ErrorPage = oops
  MaxFds = 2
  Usual = 2
  MaxSize = 3
  Window = 1
  MaxEdits = 1
  MaxAhead = 1
  c1 = c1
  c2 = c2
  page = page
  oops = oops
  image = image
  folder = folder
  stem = stem
  noname = noname
INVARIANTS
  WholeFile
  NoForeignBytes
  AnswersOnlyAsked
CHECK_DEADLOCK FALSE
PROPERTIES
  Served
