SPECIFICATION FairSpec
CONSTANTS
  Hole = {"url"}
  Payload = {"url"}
  Layout = {l1, l2}
  Seeded = l1
  Framed = {"url"}
  Mail = {m1}
  Request = {r1, r2}
  Worker = {w1, w2}
  None = None
  Attempts = 3
  MaxStalls = 1
  MaxEdits = 1
  Updates <- SomeUpdates
INVARIANTS MailsAreComplete CopiesAreBounded
PROPERTIES EveryMailSettles
CHECK_DEADLOCK FALSE
