SPECIFICATION MCSpec
CONSTANTS
  Rows = {r1, r2, r3, r4}
  Urls = {u1, u2}
  Requests = {c1, c2}
  MaxEndpoints = 2
  Calls = {c1, c2}
  Channels = {r1, r2, r3, r4}
  ChannelUrls = {u1, u2}
  MaxChannels = 2
  MaxKeyChanges = 1
  Posts = {u1, u2}
  MaxViews = 3
  Notes = {u1, u2}
  Readers = {u1, u2}
  Accounts = {u1, u2}
  Emails = {u1, u2}
SYMMETRY RegistrySymmetry
INVARIANTS
  LimitOvershoot UrlCopies
  ChannelOvershoot ChannelUrlCopies
  ViewsCounted
  MarkerCopies ReadAllCovers
  WithdrawnUnlessLate
PROPERTIES
  ChannelsAreSoftDeleted PostsAreSoftDeleted NotesAreSoftDeleted AccountsAreSoftDeleted
CHECK_DEADLOCK FALSE
