SPECIFICATION FairIdentitySpec
CONSTANTS
  Rooms = {r1}
  Ids = {1, 2}
  Endpoints = {a, b}
  Nobody = nobody
  NoMember = none
  OldSocket = old
  NoRoom = noroom
  Timely = TRUE
  MAX_ROOMS = 2
  MEMBERS_PER_ROOM = 2
  MEMBER_TIMEOUT = 1
  ADVERT_TIMEOUT = 0
INVARIANTS
  IdentityTypeOK
  

  
