CONSTANTS
  Digit = {"0", "2", "3", "4", "5", "6", "7", "8", "9", "11"}
  Letter = {"v", "V", "rc", "Linux", "linux", "EN", "en", "US", "UTF"}
  VLetter = {"v", "V"}
  Fold <- MCFold
  IdLen = 2
  Cases <- MCCases
  Nonce <- MCNonce
  Identity = {"dev1", "dev2"}
  Answers <- MCAnswers
  Pads <- MCPads
  Alias = "support"
  Reserved <- MCReserved
  Hex <- MCHex
  GITHUB_URL_LENGTH_THRESHOLD = 22
  MaxPayload = 30
  MaxResponse = 5
  Chunk = 2
  MaxAttempts = 2
  BaseBackoff = 2
  MaxBackoff = 1
  MinJitter = 1
  MaxJitter = 0
  Timeout = 1
SPECIFICATION Spec
INVARIANTS ReadsWhatWasSent CoarseOnly OnlyRecipientsRead OnionSentMeansAccepted Bounded
\* One report: the developer may have read it, or nothing arrives.
CHECK_DEADLOCK FALSE
