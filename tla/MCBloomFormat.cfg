CONSTANTS
  BytePower = 1
  Word = 64
  IntValues = 2
  DigestBytes = {2, 3}
  HashBits = {4, 5, 6, 8}
  BloomBits = {0, 2, 3}
  Ks = {1, 2, 3, 33}
  Comments = {2}
  Digests <- MCDigests
  Given <- MCGiven
  InfoEvery = 2
  MaxAdds = 3
SPECIFICATION FormatSpec
INVARIANTS
  AddedAreFound
  HeaderRoundTrips
  StatisticsAgree
CHECK_DEADLOCK FALSE
