\* Invitations made and answered by two requests at a time; bill changes delivered by one and two instances.
CONSTANTS
  api1 = api1
  api2 = api2
  Owner = owner
  Guests = {g1, g2}
  Invitations = {1, 2, 3}
  Requests = {r1, r2}
  MaximumPendingInvitations = 1
  MaximumInvitationAttemptsPerDay = 3
  Loads <- MCLoads
  Instances = {api1, api2}
  Fleets <- MCFleets
  NoInstance = NoInstance
  BatchSize = 1
  Capacity = 1
  Remembered = 2
SPECIFICATION DeliveryFairSpec
INVARIANTS HouseholdTypeOK AuditTellsMembership InvitedOnce ProcessedIsPublished NewestIsKept
PROPERTIES AnswerStands EventsAreProcessed PageCatchesUp
CHECK_DEADLOCK FALSE
