CONSTANTS
  Client = {c1, c2}
  Node = {n1}
  Name = {a, b}
  NoName = NoName
  MaxContent = 2
  MaxId = 1
  MaxObjects = 3
  MaxRequests = 4
  Content <- MCContent
SPECIFICATION FairSpec
CHECK_DEADLOCK FALSE
INVARIANTS TypeOK MapsAgree ToldIdKept ViewsAgree
PROPERTIES AllAnswered
