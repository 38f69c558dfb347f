\* Two groups, one of which may become a member of the other while a walk is on.
CONSTANTS
  root = root
  bob = bob
  staff = staff
  ops = ops
  home = home
  Requests = {h1, h2}
  Users = {bob}
  Apps = {root}
  Groups = {staff, ops}
  AllUsers = all
  Resources = {"*", home}
  Privileges = {"admin", "list"}
  Policies <- ThePolicies
  FirstMembers <- TheMembers
  FirstGrants <- TheGrants
  MaxEdits = 2
  MaxPending = 2
SPECIFICATION FairSpec
INVARIANTS TypeOK NoGroupIsMissed NoGroupIsInvented ReportIsComplete
PROPERTIES LoadingEnds
