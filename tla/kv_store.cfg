\* Two keys, and times to live shorter and longer than the collector's interval.
CONSTANTS
  Keys = {k1, k2}
  Values = {v1, v2}
  Ttls <- AwkwardTtls
  Null = Null
  GcInterval = 2
  Epoch = 2
  MaxTime = 9
SPECIFICATION StoreFairSpec
INVARIANTS StoreTypeOK CollectorIsScheduled
PROPERTIES ImplementsTtlStore ExpiredItemsLeave
