CONSTANTS
  Fetchers = {1, 2, 3, 4}
  Home <- MCHome
  Urls = {"u1", "u2", "u3"}
  BodyLen <- MCBodyLen
  NoLength = {"u3"}
  HeaderLen <- MCHeaderLen
  LengthAt <- MCLengthAt
  Cuts = {5}
  BufSize = 10
  Served <- MCServed
  NameOf <- MCNameOf
  Requests <- MCRequests
  Client <- MCClient
  Leavers = {1}
  HostOf <- MCHostOf
  List <- MCList
  Newline = TRUE
SPECIFICATION Spec
INVARIANTS
  EveryLineIsFetched
