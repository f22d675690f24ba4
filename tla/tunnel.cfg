SPECIFICATION FairSpec
CONSTANTS
  Convids = {65534, 65535}
  MaxConns = 3
  MaxAccepts = 2
  MaxLinkdowns = 1
INVARIANTS
  TypeOK
  MemberUsable
PROPERTIES
  LinkdownClosesOwnSlot
  StaleMemberLeaves
  OrphanDropped
  MembersMeet
CHECK_DEADLOCK FALSE
