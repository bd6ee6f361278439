SPECIFICATION FairSpec
CONSTANTS
  Content <- MCContent
  ServeSize = 2
  Thread = {t1, t2, t3}
  Conn = {c1}
  NoConn = NoConn
INVARIANTS NoCorruption FetchedOnce OneSequencePerFetch
PROPERTIES FetchReturns
