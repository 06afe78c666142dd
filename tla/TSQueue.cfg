\* main pushes and waits, another thread only pushes, three threads pop.
SPECIFICATION Spec
CONSTANTS
  main = main  w1 = w1  w2 = w2  w3 = w3  w4 = w4
  m1 = m1  m2 = m2
  Producers <- TwoProducers
  Consumers <- ThreeWorkers
  Waiters <- Main
  Messages <- TwoMessages
  NoMessage = NoMessage
  Sizes <- EmptyOrOne
  MaxLen = 3
INVARIANTS TypeOK NoLostPopWakeup NoLostEmptyWakeup
PROPERTY ImplementsFifo
