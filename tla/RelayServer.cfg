SPECIFICATION Spec
CONSTANTS
  Rooms = {r1, r2, r3}
  Ids = {v1, v2, v3}
  Endpoints = {a, b, c, d}
  Nobody = nobody
  NoMember = none
  MAX_ROOMS = 2
  MEMBERS_PER_ROOM = 2
  MEMBER_TIMEOUT = 0
  ADVERT_TIMEOUT = 0
SYMMETRY Symmetry
INVARIANTS
  TypeOK
  TablesAgree
  HearEachOther
PROPERTIES
  KeepsWhoIsHeard
  ListingIsHeld
