--------------------------------- MODULE Books ---------------------------------
(***************************************************************************)
(* Journal entries and fiscal periods: JournalEntryService and             *)
(* FiscalPeriodService run by concurrent requests, and the two reports of  *)
(* FinanceService over what they have posted.                              *)
(*                                                                         *)
(* Every request writes one row in one statement, which sets columns to    *)
(* values and compares nothing; waiting for the row and then writing it is *)
(* the same as coming later, so that the statement and the COMMIT after it *)
(* are one step.  What matters is what a request read before: the row, the *)
(* drafts of the period, the period of the entry, and the row again in     *)
(* save(), which writes the columns that differ.  READ COMMITTED.          *)
(*                                                                         *)
(* Amounts are in cents, as numeric(14,2) keeps them, and PostgreSQL sums  *)
(* them exactly.  JavaScript computes in floating point: its numbers are   *)
(* counted in grains, a unit so small that a cent and every double are     *)
(* whole numbers of it, and every operation ends with a rounding.  Debits  *)
(* and credits may be negative: CreateJournalLineDto asks for a number, no *)
(* more.  Rows are of one tenant, and named after the request that creates *)
(* them.                                                                   *)
(***************************************************************************)
EXTENDS Integers, Sequences, FiniteSets, Functions

CONSTANTS
  Requests,
  Start,     \* the period there is at the start, open
  FirstSpan, \* its first and last day
  OldEntries, OldEntry, \* the entries there are at the start, and their rows
  Accounts,
  Days,      \* a set of natural numbers
  Spans,     \* what a request gives as the first and last day of a period
  Journals,  \* what a request gives as lines: sequences of [account, debit, credit]
  Cent,      \* the grains in a cent
  Largest,   \* the largest amount considered, in grains, and
  Off,       \* how far from a number up to there the double next to it can be
  Round,     \* the double a number of grains is rounded to
  Null

Periods == Requests \cup {Start}
Entries == Requests \cup OldEntries
PeriodRows == [first: Days, last: Days, closed: BOOLEAN]
EntryStatuses == {"DRAFT", "POSTED", "VOIDED"}
EntryRows == [date: Days, lines: Journals, status: EntryStatuses, created: Nat]

ASSUME BooksAssumption ==
  /\ IsFiniteSet(Entries) /\ IsFiniteSet(Accounts) /\ Start \notin Requests /\ OldEntries \cap Requests = {}
  /\ OldEntry \in [OldEntries -> EntryRows]
  /\ Days \subseteq Nat /\ Spans \subseteq Days \X Days /\ FirstSpan \in Spans
  /\ Journals \subseteq Seq([account: Accounts, debit: Int, credit: Int])
  /\ Cent \in Nat \ {0} /\ Largest \in Nat /\ Off \in Nat
  /\ Round \in [-Largest .. Largest -> Int]
  /\ \A x \in -Largest .. Largest : Round[x] - x \in -Off .. Off
  /\ Null \notin Periods \cup Entries \cup PeriodRows \cup EntryRows

VARIABLES
  periods,   \* fiscal_periods: the row of each period, or Null
  entries,   \* journal_entries with their lines: of each entry, or Null
  pc,        \* where each request is, or how it was answered
  doc,       \* the period or the entry it works on, or Null
  held,      \* the row it has read and changed, or Null
  differs,   \* save() has found the columns that differ
  moved,     \* history: the periods that were given other days
  together,  \* history: the pairs of periods created at once
  disturbed  \* history: a period was written after the request had looked it up

rows == <<periods, entries>>
history == <<moved, together, disturbed>>
vars == <<rows, pc, doc, held, differs, history>>

Creating == {"insertPeriod", "insertEntry"}
OfPeriod == {"countDrafts", "selectPeriod", "writePeriod"}
OfEntry == {"lookPeriod", "selectEntry", "writeEntry"}
Working == Creating \cup OfPeriod \cup OfEntry
Answered == {"ok", "refused", "lost"}

--------------------------------------------------------------------------------

PeriodExists(p) == periods[p] # Null
EntryExists(e) == entries[e] # Null
Covers(p, day) == PeriodExists(p) /\ periods[p].first <= day /\ day <= periods[p].last

\* MUTANT of Overlaps: periods that share one day only are not seen to overlap.
OverlapsInside(p, span) ==
  PeriodExists(p) /\ periods[p].first < span[2] /\ span[1] < periods[p].last
Overlaps(p, span) ==
  PeriodExists(p) /\ periods[p].first <= span[2] /\ span[1] <= periods[p].last

DraftsIn(row) ==
  {e \in Entries : EntryExists(e) /\ entries[e].status = "DRAFT"
                    /\ row.first <= entries[e].date /\ entries[e].date <= row.last}

Imbalance(lines) ==
  SumFunction([i \in DOMAIN lines |-> lines[i].debit])
    - SumFunction([i \in DOMAIN lines |-> lines[i].credit])

\* MUTANT of MayBalance: the sums are not compared.
MayBalanceAlways(lines) == TRUE
\* Sums of floating point numbers, compared with a tolerance of one cent: off by
\* a cent they balance or not, as the rounding of the amounts has it.
MayBalance(lines) == Imbalance(lines) \in -1 .. 1
MustBalance(lines) == Imbalance(lines) = 0

--------------------------------------------------------------------------------

Answer(r, how) ==
  /\ pc' = [pc EXCEPT ![r] = how]
  /\ doc' = [doc EXCEPT ![r] = Null]
  /\ held' = [held EXCEPT ![r] = Null]
  /\ differs' = [differs EXCEPT ![r] = {}]

Refuse(r) == Answer(r, "refused") /\ UNCHANGED <<rows, history>>

Goes(r, next) == pc' = [pc EXCEPT ![r] = next]
Holds(r, d, row) == doc' = [doc EXCEPT ![r] = d] /\ held' = [held EXCEPT ![r] = row]
AtWorkOn(r, next, d, row) ==
  /\ Goes(r, next) /\ Holds(r, d, row)
  /\ UNCHANGED <<rows, differs, history>>

\* FiscalPeriodService.create: overlapping periods are looked for, not locked out.
CreatePeriod(r) ==
  /\ pc[r] = "idle"
  /\ \E span \in Spans :
       \/ (\E p \in Periods : Overlaps(p, span)) /\ Refuse(r)
       \/ /\ \A p \in Periods : ~Overlaps(p, span)
          /\ AtWorkOn(r, "insertPeriod", r,
                      [first |-> span[1], last |-> span[2], closed |-> FALSE])

\* FiscalPeriodService.update does not look for overlapping periods.
UpdatePeriod(r) ==
  /\ pc[r] = "idle"
  /\ \E p \in Periods, span \in Spans :
       \/ (PeriodExists(p) => periods[p].closed) /\ Refuse(r)
       \/ /\ PeriodExists(p) /\ ~periods[p].closed
          /\ AtWorkOn(r, "selectPeriod", p,
                      [periods[p] EXCEPT !.first = span[1], !.last = span[2]])

\* By force without counting the drafts.
ClosePeriod(r) ==
  /\ pc[r] = "idle"
  /\ \E p \in Periods, force \in BOOLEAN :
       \/ (PeriodExists(p) => periods[p].closed) /\ Refuse(r)
       \/ /\ PeriodExists(p) /\ ~periods[p].closed
          /\ AtWorkOn(r, IF force THEN "selectPeriod" ELSE "countDrafts", p,
                      [periods[p] EXCEPT !.closed = TRUE])

CountDrafts(r) ==
  /\ pc[r] = "countDrafts"
  /\ \/ DraftsIn(held[r]) # {} /\ Refuse(r)
     \/ /\ DraftsIn(held[r]) = {} /\ Goes(r, "selectPeriod")
        /\ UNCHANGED <<rows, doc, held, differs, history>>

ReopenPeriod(r) ==
  /\ pc[r] = "idle"
  /\ \E p \in Periods :
       \/ (PeriodExists(p) => ~periods[p].closed) /\ Refuse(r)
       \/ /\ PeriodExists(p) /\ periods[p].closed
          /\ AtWorkOn(r, "selectPeriod", p, [periods[p] EXCEPT !.closed = FALSE])

\* createJournalEntry: the lines are not compared, the period not looked up.
CreateEntry(r) ==
  /\ pc[r] = "idle"
  /\ \/ Refuse(r) \* an account is unknown, or the database supplies no tenant
     \/ \E day \in Days, lines \in Journals :
          AtWorkOn(r, "insertEntry", r, [date |-> day, lines |-> lines, status |-> "DRAFT",
                                         created |-> Cardinality({e \in Entries : EntryExists(e)})])

\* JournalEntryService.post reads the entry and adds up its lines,
PostEntry(r) ==
  /\ pc[r] = "idle"
  /\ \E e \in Entries :
       \/ (EntryExists(e) => entries[e].status = "POSTED") /\ Refuse(r)
       \/ EntryExists(e) /\ ~MustBalance(entries[e].lines) /\ Refuse(r)
       \/ /\ EntryExists(e) /\ entries[e].status # "POSTED" /\ MayBalance(entries[e].lines)
          /\ AtWorkOn(r, "lookPeriod", e, entries[e])

\* MUTANT of PostsInto: a closed period is good enough.
PostsIntoAny(p) == TRUE
\* and then takes any period the date is in,
PostsInto(p) == ~periods[p].closed
LookPeriod(r) ==
  /\ pc[r] = "lookPeriod"
  /\ LET found == {p \in Periods : Covers(p, held[r].date)} IN
     \/ (found = {} \/ \E p \in found : ~PostsInto(p)) /\ Refuse(r)
     \/ /\ \E p \in found : PostsInto(p)
        /\ held' = [held EXCEPT ![r].status = "POSTED"]
        /\ Goes(r, "selectEntry")
        /\ UNCHANGED <<rows, doc, differs, history>>

--------------------------------------------------------------------------------
(* save()                                                                     *)

SelectPeriod(r) ==
  /\ pc[r] = "selectPeriod"
  /\ differs' = [differs EXCEPT ![r] =
       {c \in {"first", "last", "closed"} : periods[doc[r]][c] # held[r][c]}]
  /\ Goes(r, "writePeriod")
  /\ UNCHANGED <<rows, doc, held, history>>

SelectEntry(r) ==
  /\ pc[r] = "selectEntry"
  /\ differs' = [differs EXCEPT ![r] =
       {c \in {"status"} : entries[doc[r]][c] # held[r][c]}]
  /\ Goes(r, "writeEntry")
  /\ UNCHANGED <<rows, doc, held, history>>

Posting == {o \in Requests : pc[o] \in {"selectEntry", "writeEntry"}}

InsertPeriod(r) ==
  /\ pc[r] = "insertPeriod"
  /\ periods' = [periods EXCEPT ![r] = held[r]]
  /\ together' = together \cup {{r, o} : o \in {q \in Requests \ {r} : pc[q] = "insertPeriod"}}
  /\ disturbed' = disturbed \cup Posting
  /\ Answer(r, "ok")
  /\ UNCHANGED <<entries, moved>>

\* MUTANT of Written: what is posted is given the status of a period.
WrittenAsPeriod(row, r) ==
  [c \in DOMAIN row |-> IF c = "status" /\ c \in differs[r] THEN "CLOSED"
                        ELSE IF c \in differs[r] THEN held[r][c] ELSE row[c]]
Written(row, r) == [c \in DOMAIN row |-> IF c \in differs[r] THEN held[r][c] ELSE row[c]]

WritePeriod(r) ==
  /\ pc[r] = "writePeriod"
  /\ periods' = [periods EXCEPT ![doc[r]] = Written(@, r)]
  /\ moved' = moved \cup {p \in {doc[r]} : differs[r] \cap {"first", "last"} # {}}
  /\ disturbed' = disturbed \cup Posting
  /\ Answer(r, "ok")
  /\ UNCHANGED <<entries, together>>

InsertEntry(r) ==
  /\ pc[r] = "insertEntry"
  /\ entries' = [entries EXCEPT ![r] = held[r]]
  /\ Answer(r, "ok")
  /\ UNCHANGED <<periods, history>>

WriteEntry(r) ==
  /\ pc[r] = "writeEntry"
  /\ entries' = [entries EXCEPT ![doc[r]] = Written(@, r)]
  /\ Answer(r, "ok")
  /\ UNCHANGED <<periods, history>>

\* The server stops: the database rolls back what is not committed.
ServerCrash ==
  /\ \E r \in Requests : pc[r] \in Working
  /\ pc' = [r \in Requests |-> IF pc[r] \in Working THEN "lost" ELSE pc[r]]
  /\ doc' = [r \in Requests |-> Null] /\ held' = [r \in Requests |-> Null]
  /\ differs' = [r \in Requests |-> {}]
  /\ UNCHANGED <<rows, history>>

--------------------------------------------------------------------------------

Init ==
  /\ periods = [p \in Periods |->
       IF p = Start THEN [first |-> FirstSpan[1], last |-> FirstSpan[2], closed |-> FALSE]
       ELSE Null]
  /\ entries = [e \in Entries |-> IF e \in OldEntries THEN OldEntry[e] ELSE Null]
  /\ pc = [r \in Requests |-> "idle"]
  /\ doc = [r \in Requests |-> Null] /\ held = [r \in Requests |-> Null]
  /\ differs = [r \in Requests |-> {}]
  /\ moved = {} /\ together = {} /\ disturbed = {}

Receive(r) ==
  \/ CreatePeriod(r) \/ UpdatePeriod(r) \/ ClosePeriod(r) \/ ReopenPeriod(r)
  \/ CreateEntry(r) \/ PostEntry(r)

Step(r) ==
  \/ CountDrafts(r) \/ LookPeriod(r) \/ SelectPeriod(r) \/ SelectEntry(r)
  \/ InsertPeriod(r) \/ WritePeriod(r) \/ InsertEntry(r) \/ WriteEntry(r)

\* Every request has been answered.
Settled == (\A r \in Requests : pc[r] \in Answered) /\ UNCHANGED vars

Next ==
  \/ \E r \in Requests : Receive(r) \/ Step(r)
  \/ ServerCrash
  \/ Settled

Spec == Init /\ [][Next]_vars

--------------------------------------------------------------------------------
(* The reports, of the days from .. to.                                       *)

InRange(day, from, to) == from <= day /\ day <= to

\* The lines of posted entries: pairs of an entry and a place in it.
PostedLines(from, to) ==
  UNION {{<<e, i>> : i \in DOMAIN entries[e].lines} :
         e \in {x \in Entries : EntryExists(x) /\ entries[x].status = "POSTED"
                                 /\ InRange(entries[x].date, from, to)}}
LineAt(l) == entries[l[1]].lines[l[2]]
OfAccount(a, ls) == {l \in ls : LineAt(l).account = a}

\* Number() of a decimal string; the double nearest to the amount.
Number(cents) == Round[Cent * cents]
Minus(x, y) == Round[x - y]
Plus(x, y) == Round[x + y]

\* getTrialBalance: the sums that PostgreSQL computes for each account, exact, and
\* their difference, which is taken of their doubles.
TrialBalance(from, to) ==
  [a \in Accounts |->
    LET ls == OfAccount(a, PostedLines(from, to))
        debit == SumFunction([l \in ls |-> LineAt(l).debit])
        credit == SumFunction([l \in ls |-> LineAt(l).credit])
    IN [debit |-> debit, credit |-> credit, balance |-> Minus(Number(debit), Number(credit))]]

\* The order of getGeneralLedger: by date, then by creation; the lines of one
\* entry come in an order of PostgreSQL's, here that of their places.
Before(k, l) ==
  LET e == entries[k[1]]
      f == entries[l[1]]
  IN \/ e.date < f.date
     \/ e.date = f.date /\ e.created < f.created
     \/ e.date = f.date /\ e.created = f.created
          /\ (k[1] = l[1] /\ k[2] < l[2])

\* MUTANT of Running: the sign of a credit.
RunningUnsigned(balance, line) == Plus(balance, Plus(Number(line.debit), Number(line.credit)))
Running(balance, line) == Plus(balance, Minus(Number(line.debit), Number(line.credit)))

\* getGeneralLedger: the lines in their order, and the balance after each.
GeneralLedger(a, from, to) ==
  LET ls == OfAccount(a, PostedLines(from, to))
      order == CHOOSE s \in [1 .. Cardinality(ls) -> ls] :
                 \A i, j \in 1 .. Cardinality(ls) : i < j => s[i] # s[j] /\ ~Before(s[j], s[i])
      balance[i \in 0 .. Cardinality(ls)] ==
        IF i = 0 THEN 0 ELSE Running(balance[i - 1], LineAt(order[i]))
  IN [i \in 1 .. Cardinality(ls) |-> [line |-> order[i], balance |-> balance[i]]]
Closing(ledger) == IF ledger = <<>> THEN 0 ELSE ledger[Len(ledger)].balance

--------------------------------------------------------------------------------
(* What a reader of the code relies on.                                       *)

TypeOK ==
  /\ periods \in [Periods -> PeriodRows \cup {Null}]
  /\ entries \in [Entries -> EntryRows \cup {Null}]
  /\ pc \in [Requests -> {"idle"} \cup Working \cup Answered]
  /\ doc \in [Requests -> Periods \cup Entries \cup {Null}]
  /\ held \in [Requests -> PeriodRows \cup EntryRows \cup {Null}]
  /\ differs \in [Requests -> SUBSET {"first", "last", "closed", "status"}]
  /\ moved \subseteq Periods /\ together \subseteq SUBSET Requests /\ disturbed \subseteq Requests

\* Two periods have a day in common only when one of them was given other days,
\* which update never checks, or when both were created at once, which create
\* cannot see.
PeriodsDisjoint ==
  \A p, q \in Periods \ moved :
    p # q /\ PeriodExists(p) /\ PeriodExists(q)
      /\ periods[p].first <= periods[q].last /\ periods[q].first <= periods[p].last
      /\ periods[p].first <= periods[p].last /\ periods[q].first <= periods[q].last
      => {p, q} \in together

\* An entry is posted into an open period of its date, unless a period was
\* written after the posting had looked it up: a closing that commits in between
\* is not seen, one that committed before always is.
PostedIntoOpenPeriods ==
  [][\A r \in Requests : pc[r] = "writeEntry" /\ pc'[r] = "ok" /\ r \notin disturbed =>
       \E p \in Periods : Covers(p, held[r].date) /\ ~periods[p].closed]_vars

\* The trial balance of any days is off by at most a cent for each entry posted
\* in them, whoever posted while periods and entries were written: so much do the
\* debits and credits it lists differ, which are exact.
BooksBalance ==
  \A from, to \in Days :
    LET net == [a \in Accounts |-> TrialBalance(from, to)[a].debit - TrialBalance(from, to)[a].credit]
        n == Cardinality({l[1] : l \in PostedLines(from, to)})
    IN SumFunction(net) \in -n .. n

Within(x, y, bound) == x - y \in -bound .. bound

Magnitude(x) == IF x < 0 THEN -x ELSE x
\* Amounts so small that no number of the two reports leaves the range in which Off
\* bounds a rounding.
InReach(a, from, to) ==
  LET ls == OfAccount(a, PostedLines(from, to))
      turnover == SumFunction([l \in ls |-> Magnitude(LineAt(l).debit) + Magnitude(LineAt(l).credit)])
  IN Cent * turnover + (4 * Cardinality(ls) + 3) * Off <= Largest

\* The two reports are about the same amount.  They are not equal, as each adds in
\* its own way (0.1 + 0.2 in the ledger, 0.3 in the trial balance): the trial
\* balance is three roundings from the exact difference, and the ledger, which
\* carries its error along, four for each of its lines.  The ledgers of consecutive
\* days add up with no greater error.
ReportsAgree ==
  \A a \in Accounts, from, mid, to \in Days : InReach(a, from, to) =>
    LET total == TrialBalance(from, to)[a]
        exact == Cent * (total.debit - total.credit)
        drift == 4 * Cardinality(OfAccount(a, PostedLines(from, to))) * Off
    IN /\ Within(total.balance, exact, 3 * Off)
       /\ Within(Closing(GeneralLedger(a, from, to)), exact, drift)
       /\ from <= mid /\ mid <= to =>
            Within(Closing(GeneralLedger(a, from, mid)) + Closing(GeneralLedger(a, mid + 1, to)),
                   exact, drift)
================================================================================
