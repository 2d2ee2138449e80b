SPECIFICATION FairSpec
CONSTANTS
  Tenants = {t1}
  Handlers = {h1, h2}
  Workers = {w1, w2}
  NoTenant = NoTenant
  MaxQueue = 1
  MaxTenantQueue = 1
  MaxRequests = 3
  MaxRetries = 1
  MaxFaults = 1
INVARIANTS TypeOK OvershootBounded UndershootBounded DriftIsLeaked
PROPERTIES CapacityReturns TenantLifts
CHECK_DEADLOCK FALSE
