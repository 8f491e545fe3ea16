SPECIFICATION FairSpec
CONSTANTS
  Users = {u1, u2, u3}
  Callers = {c1, c2, c3}
  NoUser = NoUser
  NoOctet = NoOctet
  ReservedOctets <- Reserved
  MinTenantOctet = 2
  MaxTenantOctet = 3
INVARIANTS
  NoOctetWasted
  SubnetsDisjoint
PROPERTIES
  RefinesPlan
  CallsReturn
