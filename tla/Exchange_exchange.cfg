SPECIFICATION FairSpec
CONSTANTS
  Size = 5
  DmaLen = 4
  Byte <- ShortBytes
  Blank = "zero"
  Script <- ShortScript
  Code <- Alike
  Once = {"date"}
  Damaged = "damaged"
  Polls = 2
  MaxLoad = 5
  MaxLine = 8
INVARIANTS TypeOK AnswerIsFresh AnswerTaken
PROPERTIES RingIsAQueue ExchangeEnds
