SPECIFICATION ClientSpec
CONSTANTS
  Caller = {c1, c2}
  Attempts = 2
  Threshold = 2
  Reset = 2
PROPERTIES StaysOpen
