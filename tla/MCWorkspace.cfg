\* Members and sharing, decision cards, relevance and accounts of a project.
\* Every part ends where its bounded history does: requests, cards and runs are spent.
CONSTANTS
  o1 = o1
  o2 = o2
  s1 = s1
  s2 = s2
  r1 = r1
  r2 = r2
  w1 = w1
  w2 = w2
  a1 = a1
  a2 = a2
  Projects = {1, 2}
  Actors = {o1, o2}
  Roles = {"owner", "admin"}
  Sessions = {s1, s2}
  FirstMembers <- MCFirstMembers
  MaxTime = 3
  MaxGrants = 1
  NoRole = NoRole
  NoRequest = NoRequest
  Cards = {"c1", "c2"}
  LegacyCards = {"c2"}
  Subjects = {"s1", "s2"}
  LegacySubject = "s1"
  Profiles = {"p1", "p2"}
  SubjectOf <- MCSubjectOf
  Contents = {"ok", "unknown"}
  Cleared = {"ok"}
  Values = {1}
  MaxPublications = 1
  MaxObservations = 2
  NoCard = NoCard
  NoSubject = NoSubject
  NoProfile = NoProfile
  NoBinding = NoBinding
  NoReview = NoReview
  Runs = {r1, r2}
  Videos = {"v1"}
  Texts <- MCTexts
  TermSets <- MCTermSets
  NoRow = NoRow
  ActionKeys = {"k1"}
  OnceOnly = OnceOnly
  NoDecision = NoDecision
  Relations = {a1, a2}
  Grants = {"g1"}
  Writers = {w1, w2}
  Unverified = {"proposed", "revoked"}
  Ended = {"revoked"}
  Windows <- MCWindows
  MaxClock = 1
  NoGrant = NoGrant
  NoImage = NoImage
SPECIFICATION MCSpec
CHECK_DEADLOCK FALSE
INVARIANTS AccessAsAgreed CardsAreGrounded DecisionsHold GrantsFollowRelation
