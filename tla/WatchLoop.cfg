SPECIFICATION FairSpec
CONSTANTS
  t1 = t1
  t2 = t2
  u1 = u1
  crypto = crypto
  weather = weather
  Tickers = {t1, t2, u1}
  Series = {crypto, weather}
  SeriesOf <- SeriesOfTicker
  MaxListed = 1
  MaxQuoted = 1
  MaxPreferred = 2
  Refresh = 3
  Retry = 1
  StreamMax = 1
  Initial = 1
  MaxBackoff = 2
  Healthy = 0
INVARIANTS TypeOK CatalogSoonRight DiscoveryInTime
PROPERTIES CandidatesStreamed SeriesServed
