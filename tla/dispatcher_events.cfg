CONSTANTS
  c1 = c1  c2 = c2  c3 = c3  n1 = n1  h1 = h1
  k1 = k1  k2 = k2  e1 = e1  t1 = t1  t2 = t2
  Commands = {c1}
  Notifications = {n1}
  Handlers = {h1}
  Keys = {k1, k2, e1}
  Topics = {t1, t2}
  KeyOf <- MCKeyOf
  TopicOf <- MCTopicOf
  TopicOfKey <- MCTopicOfKey
  EventLike = {k1, e1}
  EventKeys = {e1}
  MaxUnsolicited = 1
  Nobody = Nobody
SPECIFICATION FairSpec
CHECK_DEADLOCK FALSE
INVARIANTS LateAnswersOnly NoCallAfterUnregister
PROPERTIES ImplementsContract StopEndsRun StopReleasesCallers
