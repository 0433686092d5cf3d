CONSTANTS
  MAX_TYPE = 2
  MAX_CNT = 2
  Main = Main
  NoThread = NoThread
  MayFail = {"malloc"}
SPECIFICATION FairSpec
INVARIANTS TypeOK InOrder LastConsumerStays MainAsksAll
PROPERTY MainLeaves
CONSTRAINT OneIsLate
CHECK_DEADLOCK FALSE
