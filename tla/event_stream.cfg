\* A heartbeat of the event stream falls due while an event arrives.
CONSTANTS
  api1 = api1
  api2 = api2
  Owner = owner
  Guests = {g1, g2}
  Invitations = {1, 2, 3}
  Requests = {r1, r2}
  MaximumPendingInvitations = 1
  MaximumInvitationAttemptsPerDay = 3
  Loads <- MCLoads
  Instances = {api1, api2}
  Fleets <- MCFleets
  NoInstance = NoInstance
  BatchSize = 1
  Capacity = 1
  Remembered = 2
SPECIFICATION DeliverySpec
INVARIANTS NewestIsStreamed
CHECK_DEADLOCK FALSE
