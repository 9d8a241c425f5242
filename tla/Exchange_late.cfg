SPECIFICATION Spec
CONSTANTS
  Size = 7
  DmaLen = 5
  Byte <- MCBytes
  Blank = "zero"
  Script <- MCScript
  Code <- Kaskad
  Once = {"serial", "date"}
  Damaged = "damaged"
  Polls = 2
  MaxLoad = 5
  MaxLine = 8
INVARIANTS AnswerOfItsCommand
