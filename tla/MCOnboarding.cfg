SPECIFICATION Spec
CONSTANTS
  Oids = {"a", "b"}
  Tickers = {"T1", "T2"}
  Leis = {"la", "lb"}
  Isins = {"i1", "i2", "i3", "i4", "i5"}
  None = None
  Absent = Absent
  MatchOf <- MCMatchOf
  Instruments <- MCInstruments
  Capped = {"la"}
  CandidateCap = 2
  Rank <- MCRank
  Embeds <- MCEmbeds
  Reference <- MCReference
  Rulings <- MCRulings
  Sectored = {"T1", "T2"}
  Listed0 <- MCListed0
  MaxChanges = 1
  MaxFaults = 1
INVARIANTS TypeOK IsinVouched
PROPERTIES LegsKept
