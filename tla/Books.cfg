CONSTANTS
  Requests = {r1, r2, r3}
  Start = p0
  FirstSpan <- MCFirstSpan
  OldEntries = {e0, e1}
  OldEntry <- MCOldEntry
  e0 = e0
  e1 = e1
  a1 = a1
  a2 = a2
  Accounts = {a1, a2}
  Days = {1, 2, 3}
  Spans <- MCSpans
  Journals <- MCJournals
  Cent = 999
  Largest = 32767
  Off = 16
  Round <- MCRound
  Null = null
SPECIFICATION Spec
INVARIANTS TypeOK PeriodsDisjoint BooksBalance ReportsAgree
PROPERTIES PostedIntoOpenPeriods
