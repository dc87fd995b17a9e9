\* Three users, two organizations and two invitations.
CONSTANTS
  None = None
  Users = {"u1", "u2", "u3"}
  Orgs = {"o1", "o2"}
  Invs = {"i1", "i2"}
  Plans <- MCPlans
SPECIFICATION Spec
INVARIANTS
  TypeOK
  KeepsOwner
  InvitationsHold
