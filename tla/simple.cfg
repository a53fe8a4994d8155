CONSTANTS
  c1 = c1  c2 = c2   n1 = n1  h1 = h1
  k1 = k1  e1 = e1  t1 = t1
  Commands = {c1, c2}
  Notifications = {n1}
  Handlers = {h1}
  Keys = {k1, e1}
  Topics = {t1}
  KeyOf <- MCKeyOf
  TopicOf <- MCTopicOf
  TopicOfKey <- MCTopicOfKey
  EventKeys = {e1}
  MaxUnsolicited = 1
  MaxStops = 2
  Nobody = Nobody
SPECIFICATION FairSpec
INVARIANTS OwnAnswer AnswerKept EventsReachHandlers
PROPERTY StopEndsWait
CHECK_DEADLOCK FALSE
