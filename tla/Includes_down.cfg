CONSTANTS
  url1 = url1
  url2 = url2
  file1 = file1
  Local = {file1}
  Url = {url1, url2}
  Wanted <- Directives
  MaxVersion = 2
  Long = {1}
SPECIFICATION IncludesSpec
INVARIANTS StillRehashes
CHECK_DEADLOCK FALSE
