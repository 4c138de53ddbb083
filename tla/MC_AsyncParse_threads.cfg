SPECIFICATION Spec
CONSTANTS
  o1 = o1
  t1 = t1
  m1 = m1
  http = http
  AsyncOp <- OneAsync
  ThreadOp <- OneThread
  MainOp <- OneMain
  Signals <- MCSignals
  Scheme <- MCScheme
  SchemeOf <- MCSchemeOf
  PoolSize = 1
  SetMax = 1
INVARIANTS TypeOK RefAccounting MutualExclusion DeliveredOnReturn StoppedEarly OptionsWhole
PROPERTY KeepsPromise
CHECK_DEADLOCK FALSE
