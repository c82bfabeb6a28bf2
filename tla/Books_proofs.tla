------------------------------- MODULE Books_proofs ------------------------------
(***************************************************************************)
(* Theorems about Books: type correctness, when two periods may have a day *)
(* in common, into which periods entries are posted, that what is posted   *)
(* has passed the comparison of its sums, and what the two reports add up. *)
(***************************************************************************)
EXTENDS Books, Sums, SequenceTheorems, TLAPS

USE DEF Working, Creating, OfPeriod, OfEntry, Answered

\* What a request has in hand at each place.
Placed(r) ==
  /\ pc[r] = "insertPeriod" => held[r] \in PeriodRows
  /\ pc[r] = "insertEntry" => held[r] \in EntryRows /\ held[r].status = "DRAFT"
  /\ pc[r] \in OfPeriod => doc[r] \in Periods /\ PeriodExists(doc[r]) /\ held[r] \in PeriodRows
  /\ pc[r] \in OfEntry => doc[r] \in Entries /\ EntryExists(doc[r]) /\ held[r] \in EntryRows
  /\ pc[r] = "writePeriod" => differs[r] \subseteq {"first", "last", "closed"}
  /\ pc[r] = "writeEntry" => differs[r] \subseteq {"status"}
  /\ pc[r] \in {"idle", "insertEntry"} => entries[r] = Null

TypeInv == TypeOK /\ \A r \in Requests : Placed(r)

\* Periods that a period about to be inserted has a day in common with have been
\* inserted since it was looked up.
Unseen ==
  \A r \in Requests, p \in Periods \ moved :
    pc[r] = "insertPeriod" /\ Overlaps(p, <<held[r].first, held[r].last>>) => {p, r} \in together

\* The period an entry is about to be posted into is still open.
StillOpen ==
  \A r \in Requests \ disturbed :
    pc[r] \in {"selectEntry", "writeEntry"} =>
      \E p \in Periods : Covers(p, held[r].date) /\ ~periods[p].closed

\* Whatever is posted, or about to be, has been compared.
PostedMayBalance ==
  \A e \in Entries : EntryExists(e) /\ entries[e].status = "POSTED" => MayBalance(entries[e].lines)
AboutToBalance == \A r \in Requests : pc[r] \in OfEntry => MayBalance(entries[doc[r]].lines)

BooksInv == TypeInv /\ PeriodsDisjoint /\ Unseen /\ StillOpen
--------------------------------------------------------------------------------

LEMMA NullApart ==
  /\ Null \notin PeriodRows /\ Null \notin EntryRows
  /\ Requests \subseteq Periods /\ Requests \subseteq Entries /\ Start \in Periods /\ Start \notin Requests
BY BooksAssumption DEF Periods, Entries

LEMMA WrittenPeriod ==
  ASSUME NEW row \in PeriodRows, NEW r, held[r] \in PeriodRows, differs[r] \subseteq {"first", "last", "closed"}
  PROVE  /\ Written(row, r) \in PeriodRows
         /\ "first" \notin differs[r] => Written(row, r).first = row.first
         /\ "last" \notin differs[r] => Written(row, r).last = row.last
BY DEF Written, PeriodRows

LEMMA WrittenEntry ==
  ASSUME NEW row \in EntryRows, NEW r, held[r] \in EntryRows, differs[r] \subseteq {"status"}
  PROVE  /\ Written(row, r) \in EntryRows
         /\ Written(row, r).lines = row.lines /\ Written(row, r).date = row.date
         /\ Written(row, r).status \in {row.status, held[r].status}
BY DEF Written, EntryRows

\* Every other request stays where it is.
Moves(r) ==
  \A o \in Requests \ {r} :
    pc'[o] = pc[o] /\ doc'[o] = doc[o] /\ held'[o] = held[o] /\ differs'[o] = differs[o]

LEMMA MovesTyped ==
  ASSUME TypeInv, NEW r \in Requests, Moves(r), TypeOK', Placed(r)',
         \A p \in Periods : PeriodExists(p) => PeriodExists(p)',
         \A e \in Entries : EntryExists(e) => EntryExists(e)',
         \A o \in Requests \ {r} : entries[o] = Null => entries'[o] = Null
  PROVE  TypeInv'
<1>1. ASSUME NEW o \in Requests \ {r} PROVE Placed(o)'
  <2>1. Placed(o)
    BY DEF TypeInv
  <2> QED
    BY <2>1 DEF Placed, Moves
<1> QED
  BY <1>1 DEF TypeInv

LEMMA RefuseTyped ==
  ASSUME TypeInv, NEW r \in Requests, Refuse(r)
  PROVE  TypeInv' /\ Moves(r) /\ pc'[r] = "refused"
<1>1. /\ pc' = [pc EXCEPT ![r] = "refused"] /\ doc' = [doc EXCEPT ![r] = Null]
      /\ held' = [held EXCEPT ![r] = Null] /\ differs' = [differs EXCEPT ![r] = {}]
      /\ UNCHANGED <<rows, history>>
  BY DEF Refuse, Answer
<1>2. TypeOK'
  BY <1>1 DEF TypeInv, TypeOK, rows, history
<1>3. Moves(r) /\ pc'[r] = "refused"
  BY <1>1 DEF Moves, TypeInv, TypeOK
<1>4. Placed(r)'
  BY <1>3 DEF Placed
<1> QED
  BY <1>1, <1>2, <1>3, <1>4, MovesTyped DEF rows, PeriodExists, EntryExists

LEMMA AtWorkTyped ==
  ASSUME TypeInv, NEW r \in Requests, NEW next \in Working, NEW d \in Periods \cup Entries,
         NEW row \in PeriodRows \cup EntryRows, AtWorkOn(r, next, d, row),
         next = "insertPeriod" => row \in PeriodRows,
         next = "insertEntry" => row \in EntryRows /\ row.status = "DRAFT" /\ entries[r] = Null,
         next \in OfPeriod => d \in Periods /\ PeriodExists(d) /\ row \in PeriodRows,
         next \in OfEntry => d \in Entries /\ EntryExists(d) /\ row \in EntryRows,
         next \notin {"writePeriod", "writeEntry"}
  PROVE  TypeInv' /\ Moves(r) /\ pc'[r] = next /\ doc'[r] = d /\ held'[r] = row
<1>1. /\ pc' = [pc EXCEPT ![r] = next] /\ doc' = [doc EXCEPT ![r] = d]
      /\ held' = [held EXCEPT ![r] = row] /\ UNCHANGED <<rows, differs, history>>
  BY DEF AtWorkOn, Goes, Holds
<1>2. TypeOK'
  BY <1>1 DEF TypeInv, TypeOK, rows, history
<1>3. Moves(r) /\ pc'[r] = next /\ doc'[r] = d /\ held'[r] = row
  BY <1>1 DEF Moves, TypeInv, TypeOK
<1>4. PeriodExists(d)' = PeriodExists(d) /\ EntryExists(d)' = EntryExists(d) /\ entries' = entries
  BY <1>1 DEF rows, PeriodExists, EntryExists
<1>5. Placed(r)'
  BY <1>3, <1>4 DEF Placed
<1> QED
  BY <1>1, <1>2, <1>3, <1>5, MovesTyped DEF rows, PeriodExists, EntryExists

LEMMA ReadOnly ==
  ASSUME BooksInv, NEW r \in Requests, Moves(r), UNCHANGED <<rows, history>>, TypeInv',
         pc'[r] = "insertPeriod" =>
           \A p \in Periods : ~Overlaps(p, <<held'[r].first, held'[r].last>>),
         pc'[r] \in {"selectEntry", "writeEntry"} /\ r \notin disturbed =>
           \E p \in Periods : Covers(p, held'[r].date) /\ ~periods[p].closed
  PROVE  BooksInv'
<1>1. /\ periods' = periods /\ entries' = entries /\ moved' = moved /\ together' = together
      /\ disturbed' = disturbed
  BY DEF rows, history
<1>2. PeriodsDisjoint'
  BY <1>1 DEF BooksInv, PeriodsDisjoint, PeriodExists
<1>3. Unseen'
  BY <1>1 DEF BooksInv, Unseen, Overlaps, PeriodExists, Moves
<1>4. StillOpen'
  BY <1>1 DEF BooksInv, StillOpen, Covers, PeriodExists, Moves
<1> QED
  BY <1>2, <1>3, <1>4 DEF BooksInv

LEMMA RefuseBooks ==
  ASSUME BooksInv, NEW r \in Requests, Refuse(r)
  PROVE  BooksInv'
<1>1. TypeInv' /\ Moves(r) /\ pc'[r] = "refused"
  BY RefuseTyped DEF BooksInv
<1> QED
  BY <1>1, ReadOnly DEF Refuse

LEMMA CreatePeriodBooks ==
  ASSUME BooksInv, NEW r \in Requests, CreatePeriod(r)
  PROVE  BooksInv'
<1> SUFFICES ASSUME NEW span \in Spans, \A p \in Periods : ~Overlaps(p, span),
                    AtWorkOn(r, "insertPeriod", r,
                             [first |-> span[1], last |-> span[2], closed |-> FALSE])
             PROVE  BooksInv'
  BY RefuseBooks DEF CreatePeriod
<1> DEFINE row == [first |-> span[1], last |-> span[2], closed |-> FALSE]
<1>1. row \in PeriodRows /\ row.first = span[1] /\ row.last = span[2]
  BY BooksAssumption DEF PeriodRows
<1>2. AtWorkOn(r, "insertPeriod", r, row)
  OBVIOUS
<1> HIDE DEF row
<1>3. TypeInv' /\ Moves(r) /\ pc'[r] = "insertPeriod" /\ held'[r] = row
  BY <1>1, <1>2, NullApart, AtWorkTyped DEF BooksInv
<1>4. \A p \in Periods : ~Overlaps(p, <<held'[r].first, held'[r].last>>)
  BY <1>1, <1>3 DEF Overlaps
<1> QED
  BY <1>2, <1>3, <1>4, ReadOnly DEF AtWorkOn

\* A request that has found its period, and will save it changed.
LEMMA ChangePeriodBooks ==
  ASSUME BooksInv, NEW r \in Requests, NEW next \in {"countDrafts", "selectPeriod"},
         NEW p \in Periods, PeriodExists(p), NEW row \in PeriodRows, AtWorkOn(r, next, p, row)
  PROVE  BooksInv'
<1>1. TypeInv' /\ Moves(r) /\ pc'[r] = next
  BY AtWorkTyped DEF BooksInv
<1> QED
  BY <1>1, ReadOnly DEF AtWorkOn

LEMMA PeriodTyped ==
  ASSUME TypeInv, NEW p \in Periods, PeriodExists(p)
  PROVE  periods[p] \in PeriodRows
BY DEF TypeInv, TypeOK, PeriodExists

LEMMA EntryTyped ==
  ASSUME TypeInv, NEW e \in Entries, EntryExists(e)
  PROVE  entries[e] \in EntryRows
BY DEF TypeInv, TypeOK, EntryExists

LEMMA UpdatePeriodBooks ==
  ASSUME BooksInv, NEW r \in Requests, UpdatePeriod(r)
  PROVE  BooksInv'
<1> SUFFICES ASSUME NEW p \in Periods, NEW span \in Spans, PeriodExists(p),
                    AtWorkOn(r, "selectPeriod", p,
                             [periods[p] EXCEPT !.first = span[1], !.last = span[2]])
             PROVE  BooksInv'
  BY RefuseBooks DEF UpdatePeriod
<1> DEFINE row == [periods[p] EXCEPT !.first = span[1], !.last = span[2]]
<1>1. row \in PeriodRows
  BY PeriodTyped, BooksAssumption DEF PeriodRows, BooksInv
<1>2. AtWorkOn(r, "selectPeriod", p, row)
  OBVIOUS
<1> HIDE DEF row
<1> QED
  BY <1>1, <1>2, ChangePeriodBooks

LEMMA ClosePeriodBooks ==
  ASSUME BooksInv, NEW r \in Requests, ClosePeriod(r)
  PROVE  BooksInv'
<1> SUFFICES ASSUME NEW p \in Periods, NEW force \in BOOLEAN, PeriodExists(p),
                    AtWorkOn(r, IF force THEN "selectPeriod" ELSE "countDrafts", p,
                             [periods[p] EXCEPT !.closed = TRUE])
             PROVE  BooksInv'
  BY RefuseBooks DEF ClosePeriod
<1> DEFINE row == [periods[p] EXCEPT !.closed = TRUE]
<1> DEFINE next == IF force THEN "selectPeriod" ELSE "countDrafts"
<1>1. row \in PeriodRows /\ next \in {"countDrafts", "selectPeriod"}
  BY PeriodTyped DEF PeriodRows, BooksInv
<1>2. AtWorkOn(r, next, p, row)
  OBVIOUS
<1> HIDE DEF row, next
<1> QED
  BY <1>1, <1>2, ChangePeriodBooks

LEMMA ReopenPeriodBooks ==
  ASSUME BooksInv, NEW r \in Requests, ReopenPeriod(r)
  PROVE  BooksInv'
<1> SUFFICES ASSUME NEW p \in Periods, PeriodExists(p),
                    AtWorkOn(r, "selectPeriod", p, [periods[p] EXCEPT !.closed = FALSE])
             PROVE  BooksInv'
  BY RefuseBooks DEF ReopenPeriod
<1> DEFINE row == [periods[p] EXCEPT !.closed = FALSE]
<1>1. row \in PeriodRows
  BY PeriodTyped DEF PeriodRows, BooksInv
<1>2. AtWorkOn(r, "selectPeriod", p, row)
  OBVIOUS
<1> HIDE DEF row
<1> QED
  BY <1>1, <1>2, ChangePeriodBooks

LEMMA CreatedTyped ==
  ASSUME NEW day \in Days, NEW lines \in Journals
  PROVE  [date |-> day, lines |-> lines, status |-> "DRAFT",
          created |-> Cardinality({e \in Entries : EntryExists(e)})] \in EntryRows
<1>1. IsFiniteSet({e \in Entries : EntryExists(e)})
  BY BooksAssumption, FS_Subset
<1>2. Cardinality({e \in Entries : EntryExists(e)}) \in Nat
  BY <1>1, FS_CardinalityType
<1> QED
  BY <1>2 DEF EntryRows, EntryStatuses

LEMMA CreateEntryBooks ==
  ASSUME BooksInv, NEW r \in Requests, CreateEntry(r)
  PROVE  BooksInv'
<1> SUFFICES ASSUME NEW day \in Days, NEW lines \in Journals,
                    AtWorkOn(r, "insertEntry", r,
                             [date |-> day, lines |-> lines, status |-> "DRAFT",
                              created |-> Cardinality({e \in Entries : EntryExists(e)})])
             PROVE  BooksInv'
  BY RefuseBooks DEF CreateEntry
<1> DEFINE row == [date |-> day, lines |-> lines, status |-> "DRAFT",
                   created |-> Cardinality({e \in Entries : EntryExists(e)})]
<1>1. row \in EntryRows /\ row.status = "DRAFT"
  BY CreatedTyped
<1>2. AtWorkOn(r, "insertEntry", r, row)
  OBVIOUS
<1> HIDE DEF row
<1>3. entries[r] = Null
  BY DEF BooksInv, TypeInv, Placed, CreateEntry
<1>4. TypeInv' /\ Moves(r) /\ pc'[r] = "insertEntry"
  BY <1>1, <1>2, <1>3, NullApart, AtWorkTyped DEF BooksInv
<1> QED
  BY <1>2, <1>4, ReadOnly DEF AtWorkOn

LEMMA PostEntryBooks ==
  ASSUME BooksInv, NEW r \in Requests, PostEntry(r)
  PROVE  BooksInv'
<1> SUFFICES ASSUME NEW e \in Entries, EntryExists(e), AtWorkOn(r, "lookPeriod", e, entries[e])
             PROVE  BooksInv'
  BY RefuseBooks DEF PostEntry
<1>1. TypeInv' /\ Moves(r) /\ pc'[r] = "lookPeriod"
  BY EntryTyped, AtWorkTyped DEF BooksInv
<1> QED
  BY <1>1, ReadOnly DEF AtWorkOn

\* A step that keeps the document and the rows.
LEMMA StepTyped ==
  ASSUME TypeInv, NEW r \in Requests, UNCHANGED <<rows, doc, history>>, TypeOK', Moves(r), Placed(r)'
  PROVE  TypeInv'
BY MovesTyped DEF rows, PeriodExists, EntryExists

LEMMA CountDraftsBooks ==
  ASSUME BooksInv, NEW r \in Requests, CountDrafts(r)
  PROVE  BooksInv'
<1> SUFFICES ASSUME pc' = [pc EXCEPT ![r] = "selectPeriod"], UNCHANGED <<rows, doc, held, differs, history>>
             PROVE  BooksInv'
  BY RefuseBooks DEF CountDrafts, Goes
<1>1. TypeOK' /\ Moves(r) /\ pc'[r] = "selectPeriod"
  BY DEF BooksInv, TypeInv, TypeOK, Moves, rows, history
<1>2. Placed(r)'
  BY <1>1 DEF BooksInv, TypeInv, Placed, CountDrafts, PeriodExists, rows
<1>3. TypeInv'
  BY <1>1, <1>2, StepTyped DEF BooksInv
<1> QED
  BY <1>1, <1>3, ReadOnly

LEMMA LookPeriodBooks ==
  ASSUME BooksInv, NEW r \in Requests, LookPeriod(r)
  PROVE  BooksInv'
<1> DEFINE found == {p \in Periods : Covers(p, held[r].date)}
<1> SUFFICES ASSUME \E p \in found : PostsInto(p),
                    held' = [held EXCEPT ![r].status = "POSTED"],
                    pc' = [pc EXCEPT ![r] = "selectEntry"], UNCHANGED <<rows, doc, differs, history>>
             PROVE  BooksInv'
  BY RefuseBooks DEF LookPeriod, Goes
<1>1. held[r] \in EntryRows /\ EntryExists(doc[r]) /\ doc[r] \in Entries
  BY DEF BooksInv, TypeInv, Placed, LookPeriod
<1>2. held' = [held EXCEPT ![r] = [held[r] EXCEPT !.status = "POSTED"]]
  OBVIOUS
<1>3. /\ [held[r] EXCEPT !.status = "POSTED"] \in EntryRows
      /\ [held[r] EXCEPT !.status = "POSTED"].date = held[r].date
  BY <1>1 DEF EntryRows, EntryStatuses
<1>4. held'[r] \in EntryRows /\ held'[r].date = held[r].date
  BY <1>2, <1>3 DEF BooksInv, TypeInv, TypeOK
<1>5. TypeOK'
  BY <1>2, <1>3 DEF BooksInv, TypeInv, TypeOK, rows, history
<1>6. Moves(r) /\ pc'[r] = "selectEntry"
  BY DEF BooksInv, TypeInv, TypeOK, Moves
<1>7. Placed(r)'
  BY <1>1, <1>4, <1>6 DEF Placed, EntryExists, rows
<1>8. TypeInv'
  BY <1>5, <1>6, <1>7, StepTyped DEF BooksInv
<1>9. \E p \in Periods : Covers(p, held'[r].date) /\ ~periods[p].closed
  BY <1>4 DEF PostsInto
<1> QED
  BY <1>6, <1>8, <1>9, ReadOnly

LEMMA SelectPeriodBooks ==
  ASSUME BooksInv, NEW r \in Requests, SelectPeriod(r)
  PROVE  BooksInv'
<1> DEFINE new == {c \in {"first", "last", "closed"} : periods[doc[r]][c] # held[r][c]}
<1>1. differs' = [differs EXCEPT ![r] = new] /\ new \subseteq {"first", "last", "closed"}
  BY DEF SelectPeriod
<1> HIDE DEF new
<1>2. pc' = [pc EXCEPT ![r] = "writePeriod"] /\ UNCHANGED <<rows, doc, held, history>>
  BY DEF SelectPeriod, Goes
<1>3. TypeOK'
  BY <1>1, <1>2 DEF BooksInv, TypeInv, TypeOK, rows, history
<1>4. Moves(r) /\ pc'[r] = "writePeriod" /\ differs'[r] = new
  BY <1>1, <1>2 DEF BooksInv, TypeInv, TypeOK, Moves
<1>5. Placed(r)'
  BY <1>1, <1>2, <1>4 DEF BooksInv, TypeInv, Placed, SelectPeriod, PeriodExists, rows
<1>6. TypeInv'
  BY <1>2, <1>3, <1>4, <1>5, StepTyped DEF BooksInv
<1> QED
  BY <1>2, <1>4, <1>6, ReadOnly

LEMMA SelectEntryBooks ==
  ASSUME BooksInv, NEW r \in Requests, SelectEntry(r)
  PROVE  BooksInv'
<1> DEFINE new == {c \in {"status"} : entries[doc[r]][c] # held[r][c]}
<1>1. differs' = [differs EXCEPT ![r] = new] /\ new \subseteq {"status"}
  BY DEF SelectEntry
<1> HIDE DEF new
<1>2. pc' = [pc EXCEPT ![r] = "writeEntry"] /\ UNCHANGED <<rows, doc, held, history>> /\ pc[r] = "selectEntry"
  BY DEF SelectEntry, Goes
<1>3. TypeOK'
  BY <1>1, <1>2 DEF BooksInv, TypeInv, TypeOK, rows, history
<1>4. Moves(r) /\ pc'[r] = "writeEntry" /\ differs'[r] = new
  BY <1>1, <1>2 DEF BooksInv, TypeInv, TypeOK, Moves
<1>5. Placed(r)'
  BY <1>1, <1>2, <1>4 DEF BooksInv, TypeInv, Placed, EntryExists, rows
<1>6. TypeInv'
  BY <1>2, <1>3, <1>4, <1>5, StepTyped DEF BooksInv
<1>7. r \notin disturbed => \E p \in Periods : Covers(p, held[r].date) /\ ~periods[p].closed
  BY <1>2 DEF BooksInv, StillOpen
<1> QED
  BY <1>2, <1>4, <1>6, <1>7, ReadOnly

\* After a period was written nobody who is posting counts on what it has seen.
LEMMA PeriodWritten ==
  ASSUME StillOpen, NEW r \in Requests, Moves(r), disturbed' = disturbed \cup Posting,
         pc'[r] \notin {"selectEntry", "writeEntry"}
  PROVE  StillOpen'
BY DEF StillOpen, Moves, Posting

LEMMA InsertPeriodBooks ==
  ASSUME BooksInv, NEW r \in Requests, InsertPeriod(r)
  PROVE  BooksInv'
<1> DEFINE others == {q \in Requests \ {r} : pc[q] = "insertPeriod"}
<1>1. /\ pc[r] = "insertPeriod" /\ periods' = [periods EXCEPT ![r] = held[r]]
      /\ together' = together \cup {{r, o} : o \in others}
      /\ disturbed' = disturbed \cup Posting /\ UNCHANGED <<entries, moved>>
      /\ pc' = [pc EXCEPT ![r] = "ok"] /\ doc' = [doc EXCEPT ![r] = Null]
      /\ held' = [held EXCEPT ![r] = Null] /\ differs' = [differs EXCEPT ![r] = {}]
  BY DEF InsertPeriod, Answer
<1>2. held[r] \in PeriodRows /\ held[r] # Null /\ r \in Periods
  BY <1>1, NullApart DEF BooksInv, TypeInv, Placed
<1>3. TypeOK'
  <2>1. together' \subseteq SUBSET Requests /\ disturbed' \subseteq Requests
    BY <1>1 DEF BooksInv, TypeInv, TypeOK, Posting
  <2>2. periods' \in [Periods -> PeriodRows \cup {Null}]
    BY <1>1, <1>2 DEF BooksInv, TypeInv, TypeOK
  <2> QED
    BY <1>1, <2>1, <2>2 DEF BooksInv, TypeInv, TypeOK
<1>4. Moves(r) /\ pc'[r] = "ok"
  BY <1>1 DEF BooksInv, TypeInv, TypeOK, Moves
<1>5. periods'[r] = held[r] /\ \A p \in Periods \ {r} : periods'[p] = periods[p]
  BY <1>1, <1>2 DEF BooksInv, TypeInv, TypeOK
<1>6. TypeInv'
  <2>1. \A p \in Periods : PeriodExists(p) => PeriodExists(p)'
    BY <1>2, <1>5 DEF PeriodExists
  <2>2. Placed(r)'
    BY <1>4 DEF Placed
  <2> QED
    BY <1>1, <1>3, <1>4, <2>1, <2>2, MovesTyped DEF BooksInv, EntryExists
<1>7. \A p \in Periods \ moved : p # r =>
        (PeriodExists(p) /\ periods[p].first <= held[r].last /\ held[r].first <= periods[p].last
           => {p, r} \in together)
  BY <1>1 DEF BooksInv, Unseen, Overlaps
<1>8. PeriodsDisjoint'
  <2> SUFFICES ASSUME NEW p \in Periods \ moved, NEW q \in Periods \ moved, p # q,
                      PeriodExists(p)', PeriodExists(q)',
                      periods'[p].first <= periods'[q].last, periods'[q].first <= periods'[p].last,
                      periods'[p].first <= periods'[p].last, periods'[q].first <= periods'[q].last
               PROVE  {p, q} \in together'
    BY <1>1 DEF PeriodsDisjoint
  <2>1. CASE p = r
    <3>1. {q, r} \in together
      BY <1>5, <1>7, <2>1 DEF PeriodExists
    <3> QED
      BY <1>1, <2>1, <3>1
  <2>2. CASE q = r
    BY <1>1, <1>5, <1>7, <2>2 DEF PeriodExists
  <2>3. CASE p # r /\ q # r
    BY <1>1, <1>5, <2>3 DEF BooksInv, PeriodsDisjoint, PeriodExists
  <2> QED
    BY <2>1, <2>2, <2>3
<1>9. Unseen'
  <2> SUFFICES ASSUME NEW o \in Requests, NEW p \in Periods \ moved, pc'[o] = "insertPeriod",
                      Overlaps(p, <<held[o].first, held[o].last>>)'
               PROVE  {p, o} \in together'
    BY <1>1 DEF Unseen
  <2>1. o \in others /\ pc[o] = "insertPeriod" /\ held'[o] = held[o]
    BY <1>4 DEF Moves
  <2>2. CASE p = r
    BY <1>1, <2>1, <2>2
  <2>3. CASE p # r
    <3>1. Overlaps(p, <<held[o].first, held[o].last>>)
      BY <1>5, <2>1, <2>3 DEF Overlaps, PeriodExists
    <3> QED
      BY <1>1, <2>1, <3>1 DEF BooksInv, Unseen
  <2> QED
    BY <2>2, <2>3
<1>10. StillOpen'
  BY <1>1, <1>4, PeriodWritten DEF BooksInv
<1> QED
  BY <1>6, <1>8, <1>9, <1>10 DEF BooksInv

LEMMA WritePeriodBooks ==
  ASSUME BooksInv, NEW r \in Requests, WritePeriod(r)
  PROVE  BooksInv'
<1> DEFINE d == doc[r]
<1> DEFINE row == Written(periods[d], r)
<1>1. /\ pc[r] = "writePeriod" /\ periods' = [periods EXCEPT ![d] = row]
      /\ moved' = moved \cup {p \in {d} : differs[r] \cap {"first", "last"} # {}}
      /\ disturbed' = disturbed \cup Posting /\ UNCHANGED <<entries, together>>
      /\ pc' = [pc EXCEPT ![r] = "ok"] /\ doc' = [doc EXCEPT ![r] = Null]
      /\ held' = [held EXCEPT ![r] = Null] /\ differs' = [differs EXCEPT ![r] = {}]
  BY DEF WritePeriod, Answer
<1>2. /\ d \in Periods /\ PeriodExists(d) /\ held[r] \in PeriodRows
      /\ differs[r] \subseteq {"first", "last", "closed"}
  BY <1>1 DEF BooksInv, TypeInv, Placed
<1>3. periods[d] \in PeriodRows
  BY <1>2, PeriodTyped DEF BooksInv
<1>4. /\ row \in PeriodRows
      /\ "first" \notin differs[r] => row.first = periods[d].first
      /\ "last" \notin differs[r] => row.last = periods[d].last
  BY <1>2, <1>3, WrittenPeriod
<1> HIDE DEF row, d
<1>5. TypeOK'
  <2>1. moved' \subseteq Periods /\ disturbed' \subseteq Requests
    BY <1>1, <1>2 DEF BooksInv, TypeInv, TypeOK, Posting
  <2>2. periods' \in [Periods -> PeriodRows \cup {Null}]
    BY <1>1, <1>4 DEF BooksInv, TypeInv, TypeOK
  <2> QED
    BY <1>1, <2>1, <2>2 DEF BooksInv, TypeInv, TypeOK
<1>6. Moves(r) /\ pc'[r] = "ok"
  BY <1>1 DEF BooksInv, TypeInv, TypeOK, Moves
<1>7. periods'[d] = row /\ \A p \in Periods \ {d} : periods'[p] = periods[p]
  BY <1>1, <1>2 DEF BooksInv, TypeInv, TypeOK
<1>8. \A p \in Periods : PeriodExists(p)' <=> PeriodExists(p)
  BY <1>2, <1>4, <1>7, NullApart DEF PeriodExists
<1>9. TypeInv'
  <2>1. Placed(r)'
    BY <1>6 DEF Placed
  <2> QED
    BY <1>1, <1>5, <1>6, <1>8, <2>1, MovesTyped DEF BooksInv, EntryExists
<1>10. \A p \in Periods \ moved' :
         p \notin moved /\ periods'[p].first = periods[p].first /\ periods'[p].last = periods[p].last
  <2>1. ASSUME NEW p \in Periods \ moved'
        PROVE  periods'[p].first = periods[p].first /\ periods'[p].last = periods[p].last
    <3>1. CASE p = d
      <4>1. "first" \notin differs[r] /\ "last" \notin differs[r]
        BY <1>1, <2>1, <3>1
      <4> QED
        BY <1>4, <1>7, <3>1, <4>1
    <3>2. CASE p # d
      BY <1>7, <3>2
    <3> QED
      BY <3>1, <3>2
  <2> QED
    BY <1>1, <2>1
<1>11. PeriodsDisjoint'
  BY <1>1, <1>8, <1>10 DEF BooksInv, PeriodsDisjoint
<1>12. Unseen'
  BY <1>1, <1>6, <1>8, <1>10 DEF BooksInv, Unseen, Overlaps, Moves
<1>13. StillOpen'
  BY <1>1, <1>6, PeriodWritten DEF BooksInv
<1> QED
  BY <1>9, <1>11, <1>12, <1>13 DEF BooksInv

\* Entries are written; periods and what is known of them stay.
LEMMA EntryWritten ==
  ASSUME BooksInv, NEW r \in Requests, Moves(r), UNCHANGED <<periods, history>>, TypeInv', pc'[r] = "ok"
  PROVE  BooksInv'
<1>1. moved' = moved /\ together' = together /\ disturbed' = disturbed
  BY DEF history
<1>2. PeriodsDisjoint'
  BY <1>1 DEF BooksInv, PeriodsDisjoint, PeriodExists
<1>3. Unseen'
  BY <1>1 DEF BooksInv, Unseen, Overlaps, PeriodExists, Moves
<1>4. StillOpen'
  BY <1>1 DEF BooksInv, StillOpen, Covers, PeriodExists, Moves
<1> QED
  BY <1>2, <1>3, <1>4 DEF BooksInv

LEMMA InsertEntryTyped ==
  ASSUME TypeInv, NEW r \in Requests, InsertEntry(r)
  PROVE  /\ TypeInv' /\ Moves(r) /\ pc'[r] = "ok" /\ entries[r] = Null
         /\ entries'[r] = held[r] /\ held[r].status = "DRAFT"
         /\ \A e \in Entries \ {r} : entries'[e] = entries[e]
<1>1. /\ pc[r] = "insertEntry" /\ entries' = [entries EXCEPT ![r] = held[r]]
      /\ UNCHANGED <<periods, history>>
      /\ pc' = [pc EXCEPT ![r] = "ok"] /\ doc' = [doc EXCEPT ![r] = Null]
      /\ held' = [held EXCEPT ![r] = Null] /\ differs' = [differs EXCEPT ![r] = {}]
  BY DEF InsertEntry, Answer
<1>2. held[r] \in EntryRows /\ held[r] # Null /\ r \in Entries /\ entries[r] = Null /\ held[r].status = "DRAFT"
  BY <1>1, NullApart DEF TypeInv, Placed
<1>3. TypeOK'
  <2>1. entries' \in [Entries -> EntryRows \cup {Null}]
    BY <1>1, <1>2 DEF TypeInv, TypeOK
  <2> QED
    BY <1>1, <2>1 DEF TypeInv, TypeOK, history
<1>4. Moves(r) /\ pc'[r] = "ok"
  BY <1>1 DEF TypeInv, TypeOK, Moves
<1>5. entries'[r] = held[r] /\ \A e \in Entries \ {r} : entries'[e] = entries[e]
  BY <1>1, <1>2 DEF TypeInv, TypeOK
<1>6. TypeInv'
  <2>1. /\ \A e \in Entries : EntryExists(e) => EntryExists(e)'
        /\ \A p \in Periods : PeriodExists(p) => PeriodExists(p)'
        /\ \A o \in Requests \ {r} : entries[o] = Null => entries'[o] = Null
    BY <1>1, <1>2, <1>5, NullApart DEF EntryExists, PeriodExists
  <2>2. Placed(r)'
    BY <1>4 DEF Placed
  <2> QED
    BY <1>3, <1>4, <2>1, <2>2, MovesTyped
<1> QED
  BY <1>2, <1>4, <1>5, <1>6

LEMMA WriteEntryTyped ==
  ASSUME TypeInv, NEW r \in Requests, WriteEntry(r)
  PROVE  /\ TypeInv' /\ Moves(r) /\ pc'[r] = "ok" /\ doc[r] \in Entries
         /\ entries'[doc[r]].lines = entries[doc[r]].lines
         /\ \A e \in Entries \ {doc[r]} : entries'[e] = entries[e]
<1> DEFINE d == doc[r]
<1> DEFINE row == Written(entries[d], r)
<1>1. /\ pc[r] = "writeEntry" /\ entries' = [entries EXCEPT ![d] = row]
      /\ UNCHANGED <<periods, history>>
      /\ pc' = [pc EXCEPT ![r] = "ok"] /\ doc' = [doc EXCEPT ![r] = Null]
      /\ held' = [held EXCEPT ![r] = Null] /\ differs' = [differs EXCEPT ![r] = {}]
  BY DEF WriteEntry, Answer
<1>2. d \in Entries /\ EntryExists(d) /\ held[r] \in EntryRows /\ differs[r] \subseteq {"status"}
  BY <1>1 DEF TypeInv, Placed
<1>3. row \in EntryRows /\ row.lines = entries[d].lines
  BY <1>2, EntryTyped, WrittenEntry
<1> HIDE DEF row
<1>4. TypeOK'
  <2>1. entries' \in [Entries -> EntryRows \cup {Null}]
    BY <1>1, <1>3 DEF TypeInv, TypeOK
  <2> QED
    BY <1>1, <2>1 DEF TypeInv, TypeOK, history
<1>5. Moves(r) /\ pc'[r] = "ok"
  BY <1>1 DEF TypeInv, TypeOK, Moves
<1>6. entries'[d] = row /\ \A e \in Entries \ {d} : entries'[e] = entries[e]
  BY <1>1, <1>2 DEF TypeInv, TypeOK
<1>7. TypeInv'
  <2>1. /\ \A e \in Entries : EntryExists(e) => EntryExists(e)'
        /\ \A p \in Periods : PeriodExists(p) => PeriodExists(p)'
        /\ \A o \in Requests \ {r} : entries[o] = Null => entries'[o] = Null
    BY <1>1, <1>2, <1>3, <1>6, NullApart DEF EntryExists, PeriodExists
  <2>2. Placed(r)'
    BY <1>5 DEF Placed
  <2> QED
    BY <1>4, <1>5, <2>1, <2>2, MovesTyped
<1> QED
  BY <1>2, <1>3, <1>5, <1>6, <1>7

LEMMA StepBooks ==
  ASSUME BooksInv, NEW r \in Requests, Step(r)
  PROVE  BooksInv'
<1>1. CASE InsertEntry(r)
  <2>1. TypeInv' /\ Moves(r) /\ pc'[r] = "ok"
    BY <1>1, InsertEntryTyped DEF BooksInv
  <2> QED
    BY <1>1, <2>1, EntryWritten DEF InsertEntry
<1>2. CASE WriteEntry(r)
  <2>1. TypeInv' /\ Moves(r) /\ pc'[r] = "ok"
    BY <1>2, WriteEntryTyped DEF BooksInv
  <2> QED
    BY <1>2, <2>1, EntryWritten DEF WriteEntry
<1> QED
  BY <1>1, <1>2, CountDraftsBooks, LookPeriodBooks, SelectPeriodBooks, SelectEntryBooks,
     InsertPeriodBooks, WritePeriodBooks DEF Step

LEMMA CrashBooks ==
  ASSUME BooksInv, ServerCrash
  PROVE  BooksInv'
<1>1. /\ pc' = [r \in Requests |-> IF pc[r] \in Working THEN "lost" ELSE pc[r]]
      /\ doc' = [r \in Requests |-> Null] /\ held' = [r \in Requests |-> Null]
      /\ differs' = [r \in Requests |-> {}] /\ UNCHANGED <<rows, history>>
  BY DEF ServerCrash
<1>2. TypeOK'
  BY <1>1 DEF BooksInv, TypeInv, TypeOK, rows, history
<1>3. \A r \in Requests : pc'[r] \notin Working /\ (pc'[r] = "idle" => pc[r] = "idle")
  BY <1>1 DEF BooksInv, TypeInv, TypeOK
<1>4. \A r \in Requests : Placed(r)'
  BY <1>1, <1>3 DEF BooksInv, TypeInv, Placed, rows
<1>5. PeriodsDisjoint'
  BY <1>1 DEF BooksInv, PeriodsDisjoint, PeriodExists, rows, history
<1>6. Unseen' /\ StillOpen'
  BY <1>3 DEF Unseen, StillOpen
<1> QED
  BY <1>2, <1>4, <1>5, <1>6 DEF BooksInv, TypeInv

LEMMA InitBooks ==
  ASSUME Init
  PROVE  BooksInv
<1>1. [first |-> FirstSpan[1], last |-> FirstSpan[2], closed |-> FALSE] \in PeriodRows
  BY BooksAssumption DEF PeriodRows
<1>2. TypeOK
  BY <1>1, BooksAssumption DEF Init, TypeOK, Entries
<1>3. \A r \in Requests : Placed(r)
  BY BooksAssumption DEF Init, Placed, Entries
<1>4. PeriodsDisjoint
  BY DEF Init, PeriodsDisjoint, PeriodExists
<1>5. Unseen /\ StillOpen
  BY DEF Init, Unseen, StillOpen
<1> QED
  BY <1>2, <1>3, <1>4, <1>5 DEF BooksInv, TypeInv

\* In every state each request holds what its place calls for, and knows of
\* periods what the history says it may still rely on.
THEOREM BooksInOrder == Spec => []BooksInv
<1>1. Init => BooksInv
  BY InitBooks
<1>2. BooksInv /\ [Next]_vars => BooksInv'
  <2> SUFFICES ASSUME BooksInv, [Next]_vars
               PROVE  BooksInv'
    OBVIOUS
  <2>1. CASE UNCHANGED vars
    BY <2>1 DEF vars, rows, history, BooksInv, TypeInv, TypeOK, Placed, PeriodsDisjoint, Unseen,
                StillOpen, Overlaps, Covers, PeriodExists, EntryExists
  <2>2. ASSUME NEW r \in Requests, Receive(r) PROVE BooksInv'
    BY <2>2, CreatePeriodBooks, UpdatePeriodBooks, ClosePeriodBooks, ReopenPeriodBooks,
       CreateEntryBooks, PostEntryBooks DEF Receive
  <2> QED
    BY <2>1, <2>2, StepBooks, CrashBooks DEF Next, Settled
<1> QED
  BY <1>1, <1>2, PTL DEF Spec

\* Periods and entries keep their columns' types, whichever stale rows are saved.
THEOREM BooksTypes == Spec => []TypeOK
<1>1. BooksInv => TypeOK
  BY DEF BooksInv, TypeInv
<1> QED
  BY <1>1, BooksInOrder, PTL

\* Two periods have a day in common only if one was given other days, or both
\* were created at once.
THEOREM PeriodsAreDisjoint == Spec => []PeriodsDisjoint
<1>1. BooksInv => PeriodsDisjoint
  BY DEF BooksInv
<1> QED
  BY <1>1, BooksInOrder, PTL

\* An entry is posted into an open period of its date, unless a period was
\* written after the posting had looked it up.
THEOREM PostingsFindOpenPeriods == Spec => PostedIntoOpenPeriods
<1>1. BooksInv /\ [Next]_vars =>
        [\A r \in Requests : pc[r] = "writeEntry" /\ pc'[r] = "ok" /\ r \notin disturbed =>
           \E p \in Periods : Covers(p, held[r].date) /\ ~periods[p].closed]_vars
  BY DEF BooksInv, StillOpen
<1> QED
  BY <1>1, BooksInOrder, PTL DEF Spec, PostedIntoOpenPeriods

--------------------------------------------------------------------------------
(* What is posted has been compared: the lines of an entry never change.      *)

Compared == PostedMayBalance /\ AboutToBalance

\* Where nothing new is posted, and nobody new is about to post.
LEMMA LinesStay ==
  ASSUME Compared, TypeInv, NEW r \in Requests, Moves(r),
         \A e \in Entries : EntryExists(e) => entries'[e] = entries[e],
         \A e \in Entries : EntryExists(e)' /\ ~EntryExists(e) => entries'[e].status = "DRAFT",
         pc'[r] \in OfEntry => MayBalance(entries'[doc'[r]].lines)
  PROVE  Compared'
<1>1. PostedMayBalance'
  <2> SUFFICES ASSUME NEW e \in Entries, EntryExists(e)', entries'[e].status = "POSTED"
               PROVE  MayBalance(entries'[e].lines)
    BY DEF PostedMayBalance
  <2>1. EntryExists(e) /\ entries'[e] = entries[e]
    OBVIOUS
  <2> QED
    BY <2>1 DEF Compared, PostedMayBalance
<1>2. AboutToBalance'
  <2> SUFFICES ASSUME NEW o \in Requests, pc'[o] \in OfEntry
               PROVE  MayBalance(entries'[doc'[o]].lines)
    BY DEF AboutToBalance
  <2>1. CASE o # r
    <3>1. pc[o] \in OfEntry /\ doc'[o] = doc[o]
      BY <2>1 DEF Moves
    <3>2. doc[o] \in Entries /\ EntryExists(doc[o])
      BY <3>1 DEF TypeInv, Placed
    <3>3. entries'[doc[o]] = entries[doc[o]]
      BY <3>2
    <3> QED
      BY <3>1, <3>3 DEF Compared, AboutToBalance
  <2> QED
    BY <2>1
<1> QED
  BY <1>1, <1>2 DEF Compared

\* A step that leaves the rows alone, and keeps what the request works on.
LEMMA LooksCompared ==
  ASSUME Compared, BooksInv, NEW r \in Requests, Moves(r), UNCHANGED rows,
         pc'[r] \in OfEntry => MayBalance(entries[doc'[r]].lines)
  PROVE  Compared'
<1>1. entries' = entries
  BY DEF rows
<1> QED
  BY <1>1, LinesStay DEF BooksInv, EntryExists

LEMMA RefuseCompared ==
  ASSUME Compared, BooksInv, NEW r \in Requests, Refuse(r)
  PROVE  Compared'
<1>1. Moves(r) /\ pc'[r] = "refused"
  BY RefuseTyped DEF BooksInv
<1> QED
  BY <1>1, LooksCompared DEF Refuse

LEMMA GoesCompared ==
  ASSUME Compared, BooksInv, NEW r \in Requests, NEW next, Goes(r, next), UNCHANGED rows,
         \A o \in Requests \ {r} : doc'[o] = doc[o] /\ held'[o] = held[o] /\ differs'[o] = differs[o],
         next \in OfEntry => MayBalance(entries[doc'[r]].lines)
  PROVE  Compared'
<1>1. Moves(r) /\ pc'[r] = next
  BY DEF Goes, Moves, BooksInv, TypeInv, TypeOK
<1> QED
  BY <1>1, LooksCompared

LEMMA AtWorkCompared ==
  ASSUME Compared, BooksInv, NEW r \in Requests, NEW next, NEW d, NEW row, AtWorkOn(r, next, d, row),
         next \in OfEntry => MayBalance(entries[d].lines)
  PROVE  Compared'
<1>1. /\ Goes(r, next) /\ UNCHANGED rows
      /\ doc' = [doc EXCEPT ![r] = d] /\ held' = [held EXCEPT ![r] = row] /\ differs' = differs
  BY DEF AtWorkOn, Holds
<1>2. /\ \A o \in Requests \ {r} : doc'[o] = doc[o] /\ held'[o] = held[o] /\ differs'[o] = differs[o]
      /\ doc'[r] = d
  BY <1>1 DEF BooksInv, TypeInv, TypeOK
<1> QED
  BY <1>1, <1>2, GoesCompared

LEMMA ReceiveCompared ==
  ASSUME Compared, BooksInv, NEW r \in Requests, Receive(r)
  PROVE  Compared'
<1>1. CASE CreatePeriod(r)
  BY <1>1, RefuseCompared, AtWorkCompared DEF CreatePeriod
<1>2. CASE UpdatePeriod(r)
  BY <1>2, RefuseCompared, AtWorkCompared DEF UpdatePeriod
<1>3. CASE ClosePeriod(r)
  <2> SUFFICES ASSUME NEW p \in Periods, NEW force \in BOOLEAN,
                      AtWorkOn(r, IF force THEN "selectPeriod" ELSE "countDrafts", p,
                               [periods[p] EXCEPT !.closed = TRUE])
               PROVE  Compared'
    BY <1>3, RefuseCompared DEF ClosePeriod
  <2>1. (IF force THEN "selectPeriod" ELSE "countDrafts") \notin OfEntry
    OBVIOUS
  <2> QED
    BY <2>1, AtWorkCompared
<1>4. CASE ReopenPeriod(r)
  BY <1>4, RefuseCompared, AtWorkCompared DEF ReopenPeriod
<1>5. CASE CreateEntry(r)
  <2> SUFFICES ASSUME NEW row, AtWorkOn(r, "insertEntry", r, row)
               PROVE  Compared'
    BY <1>5, RefuseCompared DEF CreateEntry
  <2> QED
    BY AtWorkCompared
<1>6. CASE PostEntry(r)
  BY <1>6, RefuseCompared, AtWorkCompared DEF PostEntry
<1> QED
  BY <1>1, <1>2, <1>3, <1>4, <1>5, <1>6 DEF Receive

LEMMA WriteCompared ==
  ASSUME Compared, BooksInv, NEW r \in Requests, WriteEntry(r)
  PROVE  Compared'
<1>1. /\ TypeInv' /\ Moves(r) /\ pc'[r] = "ok" /\ doc[r] \in Entries
      /\ entries'[doc[r]].lines = entries[doc[r]].lines
      /\ \A e \in Entries \ {doc[r]} : entries'[e] = entries[e]
  BY WriteEntryTyped DEF BooksInv
<1>2. pc[r] = "writeEntry" /\ EntryExists(doc[r])
  BY DEF WriteEntry, BooksInv, TypeInv, Placed
<1>3. MayBalance(entries'[doc[r]].lines)
  BY <1>1, <1>2 DEF Compared, AboutToBalance
<1>4. \A e \in Entries : EntryExists(e)' /\ e # doc[r] => EntryExists(e) /\ entries'[e] = entries[e]
  BY <1>1 DEF EntryExists
<1>5. PostedMayBalance'
  <2> SUFFICES ASSUME NEW e \in Entries, EntryExists(e)', entries'[e].status = "POSTED"
               PROVE  MayBalance(entries'[e].lines)
    BY DEF PostedMayBalance
  <2>1. CASE e = doc[r]
    BY <1>3, <2>1
  <2>2. CASE e # doc[r]
    BY <1>4, <2>2 DEF Compared, PostedMayBalance
  <2> QED
    BY <2>1, <2>2
<1>6. AboutToBalance'
  <2> SUFFICES ASSUME NEW o \in Requests, pc'[o] \in OfEntry
               PROVE  MayBalance(entries'[doc'[o]].lines)
    BY DEF AboutToBalance
  <2>1. pc[o] \in OfEntry /\ doc'[o] = doc[o] /\ doc[o] \in Entries
    BY <1>1 DEF Moves, BooksInv, TypeInv, Placed
  <2>2. MayBalance(entries[doc[o]].lines)
    BY <2>1 DEF Compared, AboutToBalance
  <2>3. CASE doc[o] = doc[r]
    BY <1>3, <2>1, <2>3
  <2>4. CASE doc[o] # doc[r]
    BY <1>1, <2>1, <2>2, <2>4
  <2> QED
    BY <2>3, <2>4
<1> QED
  BY <1>5, <1>6 DEF Compared

LEMMA StepCompared ==
  ASSUME Compared, BooksInv, NEW r \in Requests, Step(r)
  PROVE  Compared'
<1>1. CASE CountDrafts(r)
  BY <1>1, RefuseCompared, GoesCompared DEF CountDrafts
<1>2. CASE LookPeriod(r)
  <2> SUFFICES ASSUME held' = [held EXCEPT ![r].status = "POSTED"], Goes(r, "selectEntry"),
                      UNCHANGED <<rows, doc, differs>>
               PROVE  Compared'
    BY <1>2, RefuseCompared DEF LookPeriod
  <2>1. MayBalance(entries[doc[r]].lines)
    BY <1>2 DEF LookPeriod, Compared, AboutToBalance
  <2>2. \A o \in Requests \ {r} : held'[o] = held[o]
    BY DEF BooksInv, TypeInv, TypeOK
  <2> QED
    BY <2>1, <2>2, GoesCompared
<1>3. CASE SelectPeriod(r)
  <2>1. \A o \in Requests \ {r} : differs'[o] = differs[o]
    BY <1>3 DEF SelectPeriod, BooksInv, TypeInv, TypeOK
  <2> QED
    BY <1>3, <2>1, GoesCompared DEF SelectPeriod
<1>4. CASE SelectEntry(r)
  <2>1. \A o \in Requests \ {r} : differs'[o] = differs[o]
    BY <1>4 DEF SelectEntry, BooksInv, TypeInv, TypeOK
  <2>2. MayBalance(entries[doc[r]].lines)
    BY <1>4 DEF SelectEntry, Compared, AboutToBalance
  <2> QED
    BY <1>4, <2>1, <2>2, GoesCompared DEF SelectEntry
<1>5. CASE InsertPeriod(r)
  <2>1. Moves(r) /\ pc'[r] = "ok" /\ entries' = entries
    BY <1>5 DEF InsertPeriod, Answer, Moves, BooksInv, TypeInv, TypeOK
  <2> QED
    BY <2>1, LinesStay DEF BooksInv, EntryExists
<1>6. CASE WritePeriod(r)
  <2>1. Moves(r) /\ pc'[r] = "ok" /\ entries' = entries
    BY <1>6 DEF WritePeriod, Answer, Moves, BooksInv, TypeInv, TypeOK
  <2> QED
    BY <2>1, LinesStay DEF BooksInv, EntryExists
<1>7. CASE InsertEntry(r)
  <2>1. /\ Moves(r) /\ pc'[r] = "ok" /\ entries[r] = Null
        /\ entries'[r] = held[r] /\ held[r].status = "DRAFT"
        /\ \A e \in Entries \ {r} : entries'[e] = entries[e]
    BY <1>7, InsertEntryTyped DEF BooksInv
  <2>2. /\ \A e \in Entries : EntryExists(e) => entries'[e] = entries[e]
        /\ \A e \in Entries : EntryExists(e)' /\ ~EntryExists(e) => entries'[e].status = "DRAFT"
    BY <2>1 DEF EntryExists
  <2> QED
    BY <2>1, <2>2, LinesStay DEF BooksInv
<1>8. CASE WriteEntry(r)
  BY <1>8, WriteCompared
<1> QED
  BY <1>1, <1>2, <1>3, <1>4, <1>5, <1>6, <1>7, <1>8 DEF Step

\* The sums of an entry's lines were compared before it was posted: if those
\* posted at the start are off by at most a cent, so is every posted entry,
\* although creation compares nothing and the posting saves a row read earlier.
THEOREM PostedEntriesWereCompared ==
  ASSUME \A e \in OldEntries : OldEntry[e].status = "POSTED" => MayBalance(OldEntry[e].lines)
  PROVE  Spec => []PostedMayBalance
<1>1. Init => Compared
  BY DEF Init, Compared, PostedMayBalance, AboutToBalance, EntryExists
<1>2. Compared /\ BooksInv /\ [Next]_vars => Compared'
  <2> SUFFICES ASSUME Compared, BooksInv, [Next]_vars
               PROVE  Compared'
    OBVIOUS
  <2>1. CASE UNCHANGED vars
    BY <2>1 DEF vars, rows, Compared, PostedMayBalance, AboutToBalance, EntryExists
  <2>2. CASE ServerCrash
    <3>1. entries' = entries /\ \A r \in Requests : pc'[r] \notin OfEntry
      BY <2>2 DEF ServerCrash, rows, BooksInv, TypeInv, TypeOK
    <3> QED
      BY <3>1 DEF Compared, PostedMayBalance, AboutToBalance, EntryExists
  <2> QED
    BY <2>1, <2>2, ReceiveCompared, StepCompared DEF Next, Settled
<1>3. Compared => PostedMayBalance
  BY DEF Compared
<1> QED
  BY <1>1, <1>2, <1>3, BooksInOrder, PTL DEF Spec

--------------------------------------------------------------------------------
(* The reports.                                                               *)

\* A row of journal_entry_lines, what it adds to the balance of its account, and
\* how much it moves.
LineRows == [account: Accounts, debit: Int, credit: Int]
Net(line) == line.debit - line.credit
Size(line) == Magnitude(line.debit) + Magnitude(line.credit)
Nets(ls) == [l \in ls |-> Net(LineAt(l))]
Sizes(ls) == [l \in ls |-> Size(LineAt(l))]

Posted(from, to) ==
  {x \in Entries : EntryExists(x) /\ entries[x].status = "POSTED" /\ InRange(entries[x].date, from, to)}

LEMMA LinesTyped ==
  ASSUME TypeOK, NEW e \in Entries, EntryExists(e)
  PROVE  /\ entries[e].lines \in Seq(LineRows)
         /\ DOMAIN entries[e].lines = 1 .. Len(entries[e].lines)
         /\ IsFiniteSet(DOMAIN entries[e].lines)
         /\ \A i \in DOMAIN entries[e].lines : i \in Nat /\ entries[e].lines[i] \in LineRows
         /\ entries[e].date \in Nat /\ entries[e].created \in Nat
<1>1. entries[e] \in EntryRows
  BY DEF TypeOK, EntryExists
<1>2. entries[e].lines \in Seq(LineRows) /\ entries[e].date \in Nat /\ entries[e].created \in Nat
  BY <1>1, BooksAssumption DEF EntryRows, LineRows
<1> DEFINE lines == entries[e].lines
<1> HIDE DEF lines
<1>3. /\ Len(lines) \in Nat /\ DOMAIN lines = 1 .. Len(lines)
      /\ \A i \in DOMAIN lines : i \in Nat /\ lines[i] \in LineRows
  BY <1>2 DEF lines
<1>4. IsFiniteSet(1 .. Len(lines))
  BY <1>3, FS_Interval
<1> QED BY <1>2, <1>3, <1>4 DEF lines

LEMMA PostedLine ==
  ASSUME TypeOK, NEW from, NEW to, NEW l
  PROVE  l \in PostedLines(from, to)
           <=> \E e \in Posted(from, to) : \E i \in DOMAIN entries[e].lines : l = <<e, i>>
BY DEF PostedLines, Posted

LEMMA PostedLineTyped ==
  ASSUME TypeOK, NEW from, NEW to, NEW l \in PostedLines(from, to)
  PROVE  /\ l[1] \in Posted(from, to) /\ l[2] \in DOMAIN entries[l[1]].lines /\ l[2] \in Nat
         /\ l = <<l[1], l[2]>>
         /\ LineAt(l) \in LineRows /\ Net(LineAt(l)) \in Int /\ Size(LineAt(l)) \in Nat
         /\ entries[l[1]].date \in Nat /\ entries[l[1]].created \in Nat
<1>1. PICK e \in Posted(from, to) : \E i \in DOMAIN entries[e].lines : l = <<e, i>>
  BY PostedLine
<1>2. PICK i \in DOMAIN entries[e].lines : l = <<e, i>>
  BY <1>1
<1>3. l[1] = e /\ l[2] = i
  BY <1>2
<1>4. e \in Entries /\ EntryExists(e)
  BY DEF Posted
<1>5. LineAt(l) \in LineRows
  BY <1>2, <1>3, <1>4, LinesTyped DEF LineAt
<1>6. Net(LineAt(l)) \in Int /\ Size(LineAt(l)) \in Nat
  BY <1>5 DEF Net, Size, Magnitude, LineRows
<1> QED BY <1>2, <1>3, <1>4, <1>5, <1>6, LinesTyped

LEMMA FiniteUnion ==
  ASSUME NEW T, IsFiniteSet(T), NEW part, \A x \in T : IsFiniteSet(part[x])
  PROVE  IsFiniteSet(UNION {part[x] : x \in T})
<1> DEFINE C == {u \in SUBSET T : IsFiniteSet(UNION {part[x] : x \in u})}
<1>1. {} \in C
  <2>1. UNION {part[x] : x \in {}} = {}
    OBVIOUS
  <2> QED BY <2>1, FS_EmptySet
<1>2. ASSUME NEW u \in SUBSET T, NEW x \in T, u \in C, x \notin u PROVE u \cup {x} \in C
  <2> DEFINE U(v) == UNION {part[y] : y \in v}
  <2>1. U(u \cup {x}) = U(u) \cup part[x]
    OBVIOUS
  <2>2. IsFiniteSet(U(u)) /\ IsFiniteSet(part[x])
    BY <1>2
  <2>3. IsFiniteSet(U(u) \cup part[x])
    <3> HIDE DEF U
    <3> QED BY <2>2, FS_Union
  <2>4. IsFiniteSet(U(u \cup {x}))
    <3> HIDE DEF U
    <3> QED BY <2>1, <2>3
  <2> QED BY <2>4
<1>3. T \in C
  <2> HIDE DEF C
  <2> QED BY <1>1, <1>2, SetInduction
<1> QED BY <1>3

LEMMA PostedLinesFinite ==
  ASSUME TypeOK, NEW from, NEW to
  PROVE  IsFiniteSet(PostedLines(from, to))
<1> DEFINE E == Posted(from, to)
           part == [e \in E |-> {<<e, i>> : i \in DOMAIN entries[e].lines}]
<1>1. E \in SUBSET Entries
  BY DEF Posted
<1>2. IsFiniteSet(E)
  BY <1>1, BooksAssumption, FS_Subset
<1>3. ASSUME NEW e \in E PROVE IsFiniteSet(part[e])
  <2> DEFINE S == DOMAIN entries[e].lines
             T == {<<e, i>> : i \in S}
             f == [i \in S |-> <<e, i>>]
  <2>1. IsFiniteSet(S)
    BY LinesTyped DEF Posted
  <2>2. f \in Surjection(S, T)
    BY DEF Surjection
  <2>3. part[e] = T
    OBVIOUS
  <2> HIDE DEF f, S, T
  <2> QED BY <2>1, <2>2, <2>3, FS_Surjection
<1>4. PostedLines(from, to) = UNION {part[e] : e \in E}
  <2>1. \A l : l \in PostedLines(from, to) <=> \E e \in E : l \in part[e]
    BY PostedLine
  <2> QED BY <2>1
<1> HIDE DEF E, part
<1> QED BY <1>2, <1>3, <1>4, FiniteUnion

\* What the trial balance lists of an account is what its posted lines add up to.
LEMMA TotalsAreSums ==
  ASSUME TypeOK, NEW from, NEW to, NEW a \in Accounts,
         NEW L, L = PostedLines(from, to), NEW ls, ls = OfAccount(a, L),
         NEW total, total = TrialBalance(from, to)[a]
  PROVE  /\ IsFiniteSet(ls) /\ ls \in SUBSET L
         /\ total.debit \in Int /\ total.credit \in Int
         /\ total.debit - total.credit = SumFunctionOnSet(Nets(L), ls)
         /\ SumFunctionOnSet(Sizes(L), ls) \in Nat
         /\ Magnitude(total.debit) + Magnitude(total.credit) <= SumFunctionOnSet(Sizes(L), ls)
         /\ total.balance = Minus(Number(total.debit), Number(total.credit))
<1> DEFINE d == [l \in ls |-> LineAt(l).debit]
           c == [l \in ls |-> LineAt(l).credit]
           dm == [l \in ls |-> Magnitude(LineAt(l).debit)]
           cm == [l \in ls |-> Magnitude(LineAt(l).credit)]
<1>1. ls \in SUBSET L
  BY DEF OfAccount
<1>2. IsFiniteSet(ls)
  BY <1>1, PostedLinesFinite, FS_Subset
<1>3. /\ total.debit = SumFunctionOnSet(d, ls) /\ total.credit = SumFunctionOnSet(c, ls)
      /\ total.balance = Minus(Number(total.debit), Number(total.credit))
  BY DEF TrialBalance, SumFunction
<1>4. ASSUME NEW l \in ls
      PROVE  /\ d[l] \in Int /\ c[l] \in Int /\ Nets(L)[l] = d[l] - c[l]
             /\ dm[l] \in Nat /\ cm[l] \in Nat /\ Sizes(L)[l] = dm[l] + cm[l]
             /\ -dm[l] <= d[l] /\ d[l] <= dm[l] /\ -cm[l] <= c[l] /\ c[l] <= cm[l]
  <2>1. LineAt(l) \in LineRows
    BY <1>1, PostedLineTyped
  <2>2. /\ Nets(L)[l] = LineAt(l).debit - LineAt(l).credit
        /\ Sizes(L)[l] = Magnitude(LineAt(l).debit) + Magnitude(LineAt(l).credit)
    BY <1>1 DEF Nets, Net, Sizes, Size
  <2> QED BY <2>1, <2>2 DEF LineRows, Magnitude
<1> HIDE DEF d, c, dm, cm
<1>5. /\ SumFunctionOnSet(d, ls) \in Int /\ SumFunctionOnSet(c, ls) \in Int
      /\ SumFunctionOnSet(dm, ls) \in Nat /\ SumFunctionOnSet(cm, ls) \in Nat
  BY <1>2, <1>4, SumType, SumNatural
<1>6. SumFunctionOnSet(Nets(L), ls) = SumFunctionOnSet(d, ls) - SumFunctionOnSet(c, ls)
  BY <1>2, <1>4, SumMinus
<1>7. SumFunctionOnSet(Sizes(L), ls) = SumFunctionOnSet(dm, ls) + SumFunctionOnSet(cm, ls)
  BY <1>2, <1>4, SumPlus
<1>8. /\ -SumFunctionOnSet(dm, ls) <= SumFunctionOnSet(d, ls) /\ SumFunctionOnSet(d, ls) <= SumFunctionOnSet(dm, ls)
      /\ -SumFunctionOnSet(cm, ls) <= SumFunctionOnSet(c, ls) /\ SumFunctionOnSet(c, ls) <= SumFunctionOnSet(cm, ls)
  BY <1>2, <1>4, SumBetween
<1>9. /\ SumFunctionOnSet(Sizes(L), ls) \in Nat
      /\ Magnitude(total.debit) + Magnitude(total.credit) <= SumFunctionOnSet(Sizes(L), ls)
  BY <1>3, <1>5, <1>7, <1>8 DEF Magnitude
<1> QED BY <1>1, <1>2, <1>3, <1>5, <1>6, <1>9

\* What InReach bounds is what the sizes of the lines add up to.
LEMMA TurnoverIsSum ==
  ASSUME TypeOK, NEW from, NEW to, NEW a \in Accounts,
         NEW L, L = PostedLines(from, to), NEW ls, ls = OfAccount(a, L)
  PROVE  SumFunction([l \in ls |-> Magnitude(LineAt(l).debit) + Magnitude(LineAt(l).credit)])
           = SumFunctionOnSet(Sizes(L), ls)
<1> DEFINE f == [l \in ls |-> Magnitude(LineAt(l).debit) + Magnitude(LineAt(l).credit)]
<1>1. ls \in SUBSET L
  BY DEF OfAccount
<1>2. IsFiniteSet(ls)
  BY <1>1, PostedLinesFinite, FS_Subset
<1>3. \A l \in ls : f[l] \in Int /\ f[l] = Sizes(L)[l]
  BY <1>1, PostedLineTyped DEF Sizes, Size
<1>4. SumFunction(f) = SumFunctionOnSet(f, ls)
  BY DEF SumFunction
<1> HIDE DEF f
<1>5. SumFunctionOnSet(f, ls) = SumFunctionOnSet(Sizes(L), ls)
  BY <1>2, <1>3, SumSame
<1> QED BY <1>4, <1>5 DEF f

\* What the lines of an entry add up to.
LEMMA EntryIsImbalance ==
  ASSUME TypeOK, NEW from, NEW to, NEW e \in Posted(from, to)
  PROVE  LET L == PostedLines(from, to)
         IN  SumFunctionOnSet(Nets(L), {l \in L : l[1] = e}) = Imbalance(entries[e].lines)
<1> DEFINE L == PostedLines(from, to)
           lines == entries[e].lines
           I == DOMAIN lines
           P == {l \in L : l[1] = e}
           p == [l \in P |-> l[2]]
           n == [i \in I |-> Net(lines[i])]
           d == [i \in I |-> lines[i].debit]
           c == [i \in I |-> lines[i].credit]
<1>1. e \in Entries /\ EntryExists(e)
  BY DEF Posted
<1>2. IsFiniteSet(I)
  BY <1>1, LinesTyped
<1>3. ASSUME NEW i \in I PROVE d[i] \in Int /\ c[i] \in Int /\ n[i] = d[i] - c[i] /\ n[i] \in Int
  <2>1. lines[i] \in LineRows
    BY <1>1, LinesTyped
  <2> HIDE DEF lines
  <2> QED BY <2>1 DEF LineRows, Net
<1>4. Imbalance(lines) = SumFunctionOnSet(d, I) - SumFunctionOnSet(c, I)
  BY DEF Imbalance, SumFunction
<1>5. SumFunctionOnSet(n, I) = SumFunctionOnSet(d, I) - SumFunctionOnSet(c, I)
  <2> HIDE DEF n, d, c, I
  <2> QED BY <1>2, <1>3, SumMinus
<1>6. IsFiniteSet(P)
  <2>1. P \in SUBSET L
    OBVIOUS
  <2> HIDE DEF P
  <2> QED BY <2>1, PostedLinesFinite, FS_Subset
<1>7. \A l \in P : p[l] \in I /\ l = <<e, p[l]>>
  BY PostedLineTyped
<1>8. ASSUME NEW i \in I PROVE \E l \in P : p[l] = i
  <2>1. <<e, i>> \in P
    BY PostedLine
  <2> QED BY <2>1
<1>9. \A k, l \in P : p[k] = p[l] => k = l
  <2> HIDE DEF p, P
  <2> QED BY <1>7
<1>10. ASSUME NEW l \in P PROVE Nets(L)[l] = n[p[l]]
  <2>1. l \in L /\ p[l] \in I /\ l[1] = e /\ l[2] = p[l]
    BY <1>7
  <2>2. Nets(L)[l] = Net(LineAt(l))
    BY <2>1 DEF Nets
  <2>3. n[p[l]] = Net(lines[p[l]])
    BY <2>1
  <2> QED BY <2>1, <2>2, <2>3 DEF LineAt
<1>11. SumFunctionOnSet(Nets(L), P) = SumFunctionOnSet(n, I)
  <2> HIDE DEF p, P, n, I, L
  <2> QED BY <1>2, <1>3, <1>6, <1>7, <1>8, <1>9, <1>10, SumReindexed
<1> QED BY <1>4, <1>5, <1>11

\* What all posted lines add up to, account by account and entry by entry.
LEMMA BalancesAddUp ==
  ASSUME TypeOK, NEW from, NEW to
  PROVE  SumFunction([a \in Accounts |-> TrialBalance(from, to)[a].debit - TrialBalance(from, to)[a].credit])
           = SumFunctionOnSet(Nets(PostedLines(from, to)), PostedLines(from, to))
<1> DEFINE L == PostedLines(from, to)
           part == [a \in Accounts |-> OfAccount(a, L)]
           h == [a \in Accounts |-> TrialBalance(from, to)[a].debit - TrialBalance(from, to)[a].credit]
<1>1. Partition(part, Accounts, L)
  <2>1. \A l \in L : LineAt(l).account \in Accounts
    BY PostedLineTyped DEF LineRows
  <2> QED BY <2>1 DEF Partition, OfAccount
<1>2. \A l \in L : Nets(L)[l] \in Int
  BY PostedLineTyped DEF Nets
<1>3. \A a \in Accounts : h[a] = SumFunctionOnSet(Nets(L), part[a])
  BY TotalsAreSums
<1>4. IsFiniteSet(Accounts) /\ IsFiniteSet(L)
  BY BooksAssumption, PostedLinesFinite
<1>5. SumFunction(h) = SumFunctionOnSet(h, Accounts)
  BY DEF SumFunction
<1>6. SumFunctionOnSet(h, Accounts) = SumFunctionOnSet(Nets(L), L)
  <2> HIDE DEF h, part, L
  <2> QED BY <1>1, <1>2, <1>3, <1>4, SumPartition
<1> QED BY <1>5, <1>6

LEMMA EntriesAddUp ==
  ASSUME TypeOK, PostedMayBalance, NEW from, NEW to
  PROVE  LET L == PostedLines(from, to)
             n == Cardinality({l[1] : l \in L})
         IN  SumFunctionOnSet(Nets(L), L) \in -n .. n
<1> DEFINE L == PostedLines(from, to)
           A == {l[1] : l \in L}
           part == [e \in A |-> {l \in L : l[1] = e}]
           h == [e \in A |-> SumFunctionOnSet(Nets(L), part[e])]
<1>1. A \subseteq Posted(from, to)
  BY PostedLineTyped
<1>2. IsFiniteSet(A)
  <2>1. A \in SUBSET Entries
    BY <1>1 DEF Posted
  <2> HIDE DEF A
  <2> QED BY <2>1, BooksAssumption, FS_Subset
<1>3. Partition(part, A, L)
  BY DEF Partition
<1>4. \A l \in L : Nets(L)[l] \in Int
  BY PostedLineTyped DEF Nets
<1>5. ASSUME NEW e \in A PROVE h[e] \in -1 .. 1
  <2>1. h[e] = Imbalance(entries[e].lines)
    BY <1>1, EntryIsImbalance
  <2>2. MayBalance(entries[e].lines)
    BY <1>1 DEF PostedMayBalance, Posted
  <2> QED BY <2>1, <2>2 DEF MayBalance
<1>6. IsFiniteSet(L) /\ \A e \in A : h[e] = SumFunctionOnSet(Nets(L), part[e])
  BY PostedLinesFinite
<1>7. SumFunctionOnSet(h, A) = SumFunctionOnSet(Nets(L), L)
  <2> HIDE DEF h, part, A, L
  <2> QED BY <1>2, <1>3, <1>4, <1>6, SumPartition
<1>8. SumFunctionOnSet(h, A) \in -Cardinality(A) .. Cardinality(A)
  <2> HIDE DEF h, A
  <2> QED BY <1>2, <1>5, SumWithin
<1> QED BY <1>7, <1>8

\* The trial balance of any days is off by at most a cent for each entry posted
\* in them, whatever is posted at the same time: what its debits and credits differ
\* by, summed by account, is the sum of the imbalances of those entries, each of
\* which was compared.
THEOREM PostedBooksBalance ==
  ASSUME \A e \in OldEntries : OldEntry[e].status = "POSTED" => MayBalance(OldEntry[e].lines)
  PROVE  Spec => []BooksBalance
<1>1. TypeOK /\ PostedMayBalance => BooksBalance
  BY BalancesAddUp, EntriesAddUp DEF BooksBalance
<1> QED BY <1>1, BooksTypes, PostedEntriesWereCompared, PTL

--------------------------------------------------------------------------------
(* The ledger.                                                                *)

\* s lists the lines ls in the order of the ledger.
InOrder(s, ls, n) ==
  /\ s \in [1 .. n -> ls]
  /\ \A i, j \in 1 .. n : i < j => s[i] # s[j] /\ ~Before(s[j], s[i])

\* b is the running balance of n lines in the order s; what each adds to it, and
\* how much each moves.
RunsOver(b, s, n) ==
  b = [i \in 0 .. n |-> IF i = 0 THEN 0 ELSE Running(b[i - 1], LineAt(s[i]))]
Amounts(s, n) == [i \in 1 .. n |-> Net(LineAt(s[i]))]
Turnovers(s, n) == [i \in 1 .. n |-> Size(LineAt(s[i]))]

LEMMA BeforeOrders ==
  ASSUME TypeOK, NEW from, NEW to, NEW k \in PostedLines(from, to),
         NEW l \in PostedLines(from, to), NEW m \in PostedLines(from, to)
  PROVE  ~Before(k, k) /\ (Before(k, l) /\ Before(l, m) => Before(k, m))
<1>1. /\ k[2] \in Nat /\ entries[k[1]].date \in Nat /\ entries[k[1]].created \in Nat
      /\ l[2] \in Nat /\ entries[l[1]].date \in Nat /\ entries[l[1]].created \in Nat
      /\ m[2] \in Nat /\ entries[m[1]].date \in Nat /\ entries[m[1]].created \in Nat
  BY PostedLineTyped
<1> QED BY <1>1 DEF Before

LEMMA LastLine ==
  ASSUME TypeOK, NEW from, NEW to, NEW T \in SUBSET PostedLines(from, to), IsFiniteSet(T), T # {}
  PROVE  \E x \in T : \A y \in T : ~Before(x, y)
<1> DEFINE L == PostedLines(from, to)
           Last(u, x) == \A y \in u : ~Before(x, y)
           C == {u \in SUBSET T : u = {} \/ \E x \in u : Last(u, x)}
<1>1. {} \in C
  OBVIOUS
<1>2. ASSUME NEW u \in SUBSET T, NEW z \in T, u \in C, z \notin u PROVE u \cup {z} \in C
  <2>1. ~Before(z, z)
    BY BeforeOrders
  <2>2. CASE u = {}
    BY <2>1, <2>2
  <2>3. CASE u # {}
    <3>1. PICK x \in u : Last(u, x)
      BY <1>2, <2>3
    <3>2. CASE Before(x, z)
      <4>1. \A y \in u : ~Before(z, y)
        <5> SUFFICES ASSUME NEW y \in u, Before(z, y) PROVE FALSE
          OBVIOUS
        <5>1. x \in L /\ y \in L /\ z \in L
          OBVIOUS
        <5>2. Before(x, y)
          BY <5>1, <3>2, BeforeOrders
        <5> QED BY <5>2, <3>1
      <4> QED BY <4>1, <2>1
    <3>3. CASE ~Before(x, z)
      BY <3>1, <3>3
    <3> QED BY <3>2, <3>3
  <2> QED BY <2>2, <2>3
<1>3. T \in C
  <2> HIDE DEF C
  <2> QED BY <1>1, <1>2, SetInduction
<1> QED BY <1>3

\* Lines of posted entries can be listed in the order of the ledger.
LEMMA OrderExists ==
  ASSUME TypeOK, NEW from, NEW to, NEW T \in SUBSET PostedLines(from, to), IsFiniteSet(T)
  PROVE  \E s : InOrder(s, T, Cardinality(T))
<1> DEFINE L == PostedLines(from, to)
           D == {u \in SUBSET T : ~\E s : InOrder(s, u, Cardinality(u))}
<1> SUFFICES ASSUME D # {} PROVE FALSE
  OBVIOUS
<1>1. PICK u \in D : \A v \in SUBSET u : v \in D => v = u
  <2>1. D \subseteq SUBSET T
    OBVIOUS
  <2> HIDE DEF D
  <2> QED BY <2>1, SmallestSet
<1>2. u # {}
  <2>1. ASSUME u = {} PROVE FALSE
    <3>1. Cardinality(u) = 0
      BY <2>1, FS_EmptySet
    <3>2. InOrder([i \in 1 .. 0 |-> i], u, 0)
      BY DEF InOrder
    <3> QED BY <3>1, <3>2, <1>1
  <2> QED BY <2>1
<1>3. u \in SUBSET T /\ u \in SUBSET L /\ IsFiniteSet(u)
  BY <1>1, FS_Subset
<1>4. PICK x \in u : \A y \in u : ~Before(x, y)
  BY <1>2, <1>3, LastLine
<1> DEFINE v == u \ {x}
           n == Cardinality(v)
<1>5. n \in Nat /\ Cardinality(u) = n + 1
  <2>1. IsFiniteSet(v) /\ Cardinality(v) = Cardinality(u) - 1
    BY <1>3, <1>4, FS_RemoveElement
  <2>2. Cardinality(v) \in Nat /\ Cardinality(u) \in Nat
    BY <2>1, <1>3, FS_CardinalityType
  <2> QED BY <2>1, <2>2
<1>6. PICK s : InOrder(s, v, n)
  BY <1>1, <1>3, <1>4
<1> DEFINE t == [i \in 1 .. n + 1 |-> IF i = n + 1 THEN x ELSE s[i]]
<1>7. InOrder(t, u, n + 1)
  <2> HIDE DEF n
  <2>0. \A i \in 1 .. n + 1 : i # n + 1 => i \in 1 .. n
    BY <1>5
  <2>1. \A i \in 1 .. n : s[i] \in u /\ s[i] # x
    BY <1>6 DEF InOrder
  <2>2. t \in [1 .. n + 1 -> u]
    BY <2>0, <2>1, <1>5
  <2>3. ASSUME NEW i \in 1 .. n + 1, NEW j \in 1 .. n + 1, i < j
        PROVE  t[i] # t[j] /\ ~Before(t[j], t[i])
    <3>1. i \in 1 .. n /\ t[i] = s[i]
      BY <2>3, <1>5
    <3>2. CASE j = n + 1
      <4>1. t[j] = x
        BY <3>2
      <4> QED BY <4>1, <3>1, <2>1, <1>4
    <3>3. CASE j # n + 1
      <4>1. j \in 1 .. n /\ t[j] = s[j]
        BY <3>3, <2>0
      <4> QED BY <4>1, <3>1, <2>3, <1>6 DEF InOrder
    <3> QED BY <3>2, <3>3
  <2> HIDE DEF t
  <2> QED BY <2>2, <2>3 DEF InOrder
<1> HIDE DEF t, n, v
<1> QED BY <1>1, <1>5, <1>7

LEMMA OrderIsComplete ==
  ASSUME NEW T, IsFiniteSet(T), NEW s, InOrder(s, T, Cardinality(T))
  PROVE  /\ \A i \in 1 .. Cardinality(T) : s[i] \in T
         /\ \A x \in T : \E i \in 1 .. Cardinality(T) : s[i] = x
         /\ \A i, j \in 1 .. Cardinality(T) : s[i] = s[j] => i = j
<1> DEFINE n == Cardinality(T)
           I == 1 .. n
<1>1. n \in Nat
  BY FS_CardinalityType
<1>2. s \in [I -> T] /\ \A i, j \in I : i < j => s[i] # s[j]
  BY DEF InOrder
<1>3. \A i, j \in I : s[i] = s[j] => i = j
  <2> SUFFICES ASSUME NEW i \in I, NEW j \in I, i # j PROVE s[i] # s[j]
    OBVIOUS
  <2>1. i < j \/ j < i
    BY <1>1
  <2> QED BY <2>1, <1>2
<1>4. Cardinality(I) = n /\ IsFiniteSet(I)
  BY <1>1, FS_Interval
<1>5. s \in Injection(I, T)
  BY <1>2, <1>3 DEF Injection, IsInjective
<1>6. s \in Surjection(I, T)
  <2> HIDE DEF I
  <2> QED BY <1>4, <1>5, FS_Injection
<1> QED BY <1>2, <1>3, <1>6 DEF Surjection

\* x and y are no further apart than the bound.
Near(x, y, bound) == x - y <= bound /\ y - x <= bound

LEMMA NearIsWithin ==
  ASSUME NEW x \in Int, NEW y \in Int, NEW bound \in Int
  PROVE  Near(x, y, bound) <=> Within(x, y, bound)
BY DEF Near, Within

LEMMA Scaled ==
  ASSUME NEW c \in Nat, NEW x \in Int, NEW y \in Int
  PROVE  /\ c * x \in Int /\ c * y \in Int
         /\ c * (x + y) = c * x + c * y /\ c * (x - y) = c * x - c * y
         /\ x <= y => c * x <= c * y
<1>1. c * x \in Int /\ c * y \in Int /\ c * (x + y) = c * x + c * y /\ c * (x - y) = c * x - c * y
  OBVIOUS
<1>2. ASSUME x <= y PROVE c * x <= c * y
  <2>1. y - x \in Nat
    BY <1>2
  <2>2. \A m \in Nat : c * m \in Nat
    OBVIOUS
  <2>3. c * (y - x) \in Nat /\ c * (y - x) = c * y - c * x
    BY <2>1, <2>2
  <2> QED BY <1>1, <2>3
<1> QED BY <1>1, <1>2

LEMMA ScaledBetween ==
  ASSUME NEW c \in Nat, NEW x \in Int, NEW y \in Int, -y <= x, x <= y
  PROVE  c * x \in Int /\ c * y \in Int /\ Near(c * x, 0, c * y)
<1> DEFINE cx == c * x
           cy == c * y
           cm == c * (0 - y)
<1>1. cx \in Int /\ cy \in Int /\ cx <= cy
  BY Scaled
<1>2. 0 - y \in Int /\ 0 - y <= x
  OBVIOUS
<1>3. cm \in Int /\ cm <= cx
  BY <1>2, Scaled
<1>4. cm = c * 0 - cy
  BY Scaled
<1>5. c * 0 = 0
  OBVIOUS
<1> HIDE DEF cx, cy, cm
<1>6. Near(cx, 0, cy)
  BY <1>1, <1>3, <1>4, <1>5 DEF Near
<1> QED BY <1>1, <1>6 DEF cx, cy

LEMMA ScaledStep ==
  ASSUME NEW c \in Nat, NEW x \in Int, NEW y \in Int, NEW m \in Int, x + y <= m
  PROVE  /\ c * x \in Int /\ c * y \in Int /\ c * m \in Int
         /\ c * (x + y) = c * x + c * y /\ c * x + c * y <= c * m
<1>1. x + y \in Int /\ c * x \in Int /\ c * y \in Int /\ c * (x + y) = c * x + c * y
  BY Scaled
<1>2. c * m \in Int /\ c * (x + y) <= c * m
  BY <1>1, Scaled
<1> QED BY <1>1, <1>2

LEMMA NearChain ==
  ASSUME NEW x \in Int, NEW y \in Int, NEW z \in Int, NEW u \in Int, NEW v \in Int,
         Near(x, y, u), Near(y, z, v)
  PROVE  Near(x, z, v + u)
BY DEF Near

LEMMA NearShifted ==
  ASSUME NEW x \in Int, NEW y \in Int, NEW z \in Int, NEW d \in Int, NEW u \in Int, NEW v \in Int,
         Near(x, y, u), Near(z, x + d, v)
  PROVE  Near(z, y + d, u + v)
BY DEF Near

LEMMA RoundIsNear ==
  ASSUME NEW x \in Int, -Largest <= x, x <= Largest
  PROVE  Round[x] \in Int /\ Near(Round[x], x, Off)
<1>1. x \in -Largest .. Largest
  BY BooksAssumption
<1>2. Round[x] \in Int /\ Round[x] - x \in -Off .. Off /\ Off \in Nat
  BY <1>1, BooksAssumption
<1> QED BY <1>2 DEF Near

\* The difference of two amounts, each rounded, rounded.
LEMMA DifferenceIsNear ==
  ASSUME NEW x \in Int, NEW y \in Int,
         Cent * (Magnitude(x) + Magnitude(y)) + 2 * Off <= Largest,
         NEW z, z = Minus(Number(x), Number(y))
  PROVE  z \in Int /\ Near(z, Cent * (x - y), 3 * Off)
<1> DEFINE d == Cent * x
           k == Cent * y
           dm == Cent * Magnitude(x)
           km == Cent * Magnitude(y)
<1>0. /\ Magnitude(x) \in Int /\ Magnitude(y) \in Int /\ Cent \in Nat
      /\ -Magnitude(x) <= x /\ x <= Magnitude(x) /\ -Magnitude(y) <= y /\ y <= Magnitude(y)
  BY BooksAssumption DEF Magnitude
<1>1. /\ d \in Int /\ k \in Int /\ Cent * (x - y) = d - k
      /\ dm \in Int /\ km \in Int /\ Cent * (Magnitude(x) + Magnitude(y)) = dm + km
      /\ Near(d, 0, dm) /\ Near(k, 0, km)
  BY <1>0, Scaled, ScaledBetween
<1>2. Number(x) = Round[d] /\ Number(y) = Round[k]
  BY DEF Number
<1>3. Largest \in Nat /\ Off \in Nat
  BY BooksAssumption
<1> HIDE DEF d, k, dm, km
<1>4. dm + km + 2 * Off <= Largest
  BY <1>1
<1>5. /\ Round[d] \in Int /\ Near(Round[d], d, Off)
      /\ Round[k] \in Int /\ Near(Round[k], k, Off)
  <2>1. -Largest <= d /\ d <= Largest /\ -Largest <= k /\ k <= Largest
    BY <1>1, <1>3, <1>4 DEF Near
  <2> QED BY <1>1, <2>1, RoundIsNear
<1> DEFINE m == Round[d] - Round[k]
<1>6. m \in Int /\ Near(m, d - k, 2 * Off)
  BY <1>1, <1>3, <1>5 DEF Near
<1>7. -Largest <= m /\ m <= Largest
  BY <1>1, <1>3, <1>4, <1>6 DEF Near
<1>8. z = Round[m]
  BY <1>2 DEF Minus
<1> HIDE DEF m
<1>9. Round[m] \in Int /\ Near(Round[m], m, Off)
  BY <1>6, <1>7, RoundIsNear
<1>10. Near(z, d - k, 3 * Off)
  BY <1>1, <1>3, <1>6, <1>8, <1>9 DEF Near
<1> QED BY <1>1, <1>8, <1>9, <1>10

\* A line takes the running balance no further than four roundings from where exact
\* arithmetic would take it.
LEMMA RunningIsNear ==
  ASSUME NEW w \in Int, NEW b \in Int, Near(b, 0, w), NEW row \in LineRows,
         w + Cent * Size(row) + 3 * Off <= Largest
  PROVE  Running(b, row) \in Int /\ Near(Running(b, row), b + Cent * Net(row), 4 * Off)
<1> DEFINE z == Minus(Number(row.debit), Number(row.credit))
           size == Cent * Size(row)
           net == Cent * Net(row)
<1>1. row.debit \in Int /\ row.credit \in Int
  BY DEF LineRows
<1>2. Largest \in Nat /\ Off \in Nat /\ w >= 0
  BY BooksAssumption DEF Near
<1>3. Size(row) \in Nat /\ Net(row) \in Int /\ Net(row) <= Size(row) /\ -Size(row) <= Net(row)
  BY <1>1 DEF Size, Net, Magnitude
<1>4. size \in Int /\ net \in Int /\ Near(net, 0, size)
  <2> DEFINE x == Net(row)
             y == Size(row)
  <2>1. Cent \in Nat /\ x \in Int /\ y \in Int /\ -y <= x /\ x <= y
    BY <1>3, BooksAssumption
  <2> HIDE DEF x, y
  <2>2. Cent * x \in Int /\ Cent * y \in Int /\ Near(Cent * x, 0, Cent * y)
    BY <2>1, ScaledBetween
  <2> QED BY <2>2 DEF x, y
<1>5. z \in Int /\ Near(z, net, 3 * Off)
  <2>1. size = Cent * (Magnitude(row.debit) + Magnitude(row.credit)) /\ net = Cent * (row.debit - row.credit)
    BY DEF Size, Net
  <2>2. Cent * (Magnitude(row.debit) + Magnitude(row.credit)) + 2 * Off <= Largest
    <3>1. w + size + 3 * Off <= Largest
      OBVIOUS
    <3> HIDE DEF size
    <3>2. size + 2 * Off <= Largest
      BY <1>2, <1>4, <3>1
    <3> QED BY <2>1, <3>2
  <2>3. z \in Int /\ Near(z, Cent * (row.debit - row.credit), 3 * Off)
    BY <1>1, <2>2, DifferenceIsNear
  <2> QED BY <2>1, <2>3
<1>6. w + size + 3 * Off <= Largest
  OBVIOUS
<1>7. Running(b, row) = Round[b + z]
  BY DEF Running, Plus
<1> HIDE DEF z, size, net
<1>8. b + z \in Int /\ -Largest <= b + z /\ b + z <= Largest
  BY <1>2, <1>4, <1>5, <1>6 DEF Near
<1>9. Round[b + z] \in Int /\ Near(Round[b + z], b + z, Off)
  BY <1>8, RoundIsNear
<1>10. Near(Round[b + z], b + net, 4 * Off)
  BY <1>2, <1>4, <1>5, <1>9 DEF Near
<1> QED BY <1>7, <1>9, <1>10 DEF net

\* Sums over the first places of a list.
LEMMA SumOfFirst ==
  ASSUME NEW n \in Nat, NEW f, \A i \in 1 .. n : f[i] \in Int, NEW k \in 1 .. n
  PROVE  /\ SumFunctionOnSet(f, 1 .. k - 1) \in Int
         /\ SumFunctionOnSet(f, 1 .. k) = SumFunctionOnSet(f, 1 .. k - 1) + f[k]
<1>1. 1 .. k = (1 .. k - 1) \cup {k} /\ k \notin 1 .. k - 1
  OBVIOUS
<1>2. IsFiniteSet(1 .. k - 1)
  BY FS_Interval
<1>3. (\A j \in 1 .. k - 1 : f[j] \in Int) /\ (\A j \in (1 .. k - 1) \cup {k} : f[j] \in Int)
  OBVIOUS
<1>4. SumFunctionOnSet(f, 1 .. k) = f[k] + SumFunctionOnSet(f, 1 .. k - 1)
  BY <1>1, <1>2, <1>3, SumAdd
<1>5. SumFunctionOnSet(f, 1 .. k - 1) \in Int
  BY <1>2, <1>3, SumType
<1> QED BY <1>3, <1>4, <1>5

LEMMA SumOfFirstGrows ==
  ASSUME NEW n \in Nat, NEW f, \A i \in 1 .. n : f[i] \in Nat, NEW k \in 0 .. n
  PROVE  SumFunctionOnSet(f, 1 .. k) <= SumFunctionOnSet(f, 1 .. n)
<1> DEFINE T == 1 .. k
           U == k + 1 .. n
           V == 1 .. n
<1>1. IsFiniteSet(T) /\ IsFiniteSet(U)
  BY FS_Interval
<1>2. V = T \cup U /\ T \cap U = {} /\ (\A x \in T \cup U : f[x] \in Int)
  OBVIOUS
<1>3. (\A x \in T : f[x] \in Nat) /\ (\A x \in U : f[x] \in Nat)
  OBVIOUS
<1> HIDE DEF T, U, V
<1>4. SumFunctionOnSet(f, T \cup U) = SumFunctionOnSet(f, T) + SumFunctionOnSet(f, U)
  BY <1>1, <1>2, SumUnion
<1>5. SumFunctionOnSet(f, T) \in Nat /\ SumFunctionOnSet(f, U) \in Nat
  BY <1>1, <1>3, SumNatural
<1>6. SumFunctionOnSet(f, T) <= SumFunctionOnSet(f, V)
  BY <1>2, <1>4, <1>5
<1> QED BY <1>6 DEF T, V

\* There is a running balance: a recursion over the places of the list.
LEMMA RunningExists ==
  ASSUME NEW n \in Nat, NEW s
  PROVE  \E b : RunsOver(b, s, n)
<1> DEFINE C == {m \in Nat : \E b : RunsOver(b, s, m)}
<1>1. 0 \in C
  <2> DEFINE b == [i \in 0 .. 0 |-> 0]
  <2>1. b = [i \in 0 .. 0 |-> IF i = 0 THEN 0 ELSE Running(b[i - 1], LineAt(s[i]))]
    OBVIOUS
  <2> HIDE DEF b
  <2> QED BY <2>1 DEF RunsOver
<1>2. ASSUME NEW m \in Nat, m \in C PROVE m + 1 \in C
  <2>1. PICK b : RunsOver(b, s, m)
    BY <1>2
  <2> DEFINE c == [i \in 0 .. m + 1 |-> IF i = m + 1 THEN Running(b[m], LineAt(s[m + 1])) ELSE b[i]]
  <2>2. ASSUME NEW i \in 0 .. m + 1
        PROVE  c[i] = IF i = 0 THEN 0 ELSE Running(c[i - 1], LineAt(s[i]))
    <3>1. CASE i = m + 1
      <4>1. i - 1 = m /\ m \in 0 .. m + 1 /\ m # m + 1 /\ i # 0
        BY <3>1
      <4>2. c[m] = b[m]
        BY <4>1
      <4>3. c[i] = Running(b[m], LineAt(s[i]))
        BY <3>1
      <4> QED BY <4>1, <4>2, <4>3
    <3>2. CASE i # m + 1 /\ i # 0
      <4>1. i \in 0 .. m /\ i - 1 \in 0 .. m + 1 /\ i - 1 # m + 1
        BY <3>2
      <4>2. c[i] = b[i] /\ c[i - 1] = b[i - 1]
        BY <3>2, <4>1
      <4>3. b[i] = Running(b[i - 1], LineAt(s[i]))
        BY <2>1, <3>2, <4>1 DEF RunsOver
      <4> QED BY <3>2, <4>2, <4>3
    <3>3. CASE i = 0
      <4>1. i # m + 1 /\ i \in 0 .. m
        BY <3>3
      <4>2. b[0] = 0
        BY <2>1, <3>3, <4>1 DEF RunsOver
      <4> QED BY <3>3, <4>1, <4>2
    <3> QED BY <3>1, <3>2, <3>3
  <2>3. c = [i \in 0 .. m + 1 |-> c[i]]
    OBVIOUS
  <2> HIDE DEF c
  <2>4. c = [i \in 0 .. m + 1 |-> IF i = 0 THEN 0 ELSE Running(c[i - 1], LineAt(s[i]))]
    BY <2>2, <2>3
  <2>5. RunsOver(c, s, m + 1)
    BY <2>4 DEF RunsOver
  <2> QED BY <2>5
<1>3. n \in C
  <2> HIDE DEF C
  <2> QED BY <1>1, <1>2, NumberInduction
<1> QED BY <1>3

\* The running balance drifts from the exact sum by no more than four roundings for
\* each line.
LEMMA RunningIsNearSum ==
  ASSUME NEW n \in Nat, NEW s, \A i \in 1 .. n : LineAt(s[i]) \in LineRows,
         NEW b, RunsOver(b, s, n),
         Cent * SumFunctionOnSet(Turnovers(s, n), 1 .. n) + (4 * n + 3) * Off <= Largest
  PROVE  /\ b[n] \in Int
         /\ Near(b[n], Cent * SumFunctionOnSet(Amounts(s, n), 1 .. n), 4 * n * Off)
<1> DEFINE S(k) == SumFunctionOnSet(Amounts(s, n), 1 .. k)
           Z(k) == SumFunctionOnSet(Turnovers(s, n), 1 .. k)
           P(k) == /\ b[k] \in Int /\ S(k) \in Int /\ Z(k) \in Int
                   /\ -Z(k) <= S(k) /\ S(k) <= Z(k)
                   /\ Near(b[k], Cent * S(k), 4 * k * Off)
           C == {k \in Nat : k <= n => P(k)}
<1>0. Cent \in Nat /\ Off \in Nat /\ Largest \in Nat
  BY BooksAssumption
<1>1. \A i \in 1 .. n : /\ Amounts(s, n)[i] = Net(LineAt(s[i])) /\ Amounts(s, n)[i] \in Int
                        /\ Turnovers(s, n)[i] = Size(LineAt(s[i])) /\ Turnovers(s, n)[i] \in Nat
                        /\ -Size(LineAt(s[i])) <= Net(LineAt(s[i]))
                        /\ Net(LineAt(s[i])) <= Size(LineAt(s[i]))
  BY DEF Amounts, Turnovers, LineRows, Net, Size, Magnitude
<1>2. 0 \in C
  <2>1. 1 .. 0 = {} /\ 0 \in 0 .. n
    OBVIOUS
  <2>2. S(0) = 0 /\ Z(0) = 0
    BY <2>1, SumEmpty
  <2>3. b[0] = 0
    BY <2>1 DEF RunsOver
  <2>4. Cent * 0 = 0 /\ 4 * 0 * Off = 0
    BY <1>0
  <2>5. Near(b[0], Cent * S(0), 4 * 0 * Off)
    BY <2>2, <2>3, <2>4 DEF Near
  <2> QED BY <2>2, <2>3, <2>5
<1>3. ASSUME NEW k \in Nat, k \in C PROVE k + 1 \in C
  <2> SUFFICES ASSUME k + 1 <= n PROVE P(k + 1)
    OBVIOUS
  <2>1. P(k)
    BY <1>3
  <2> DEFINE row == LineAt(s[k + 1])
             w == Cent * Z(k) + 4 * k * Off
             q == k * Off
  <2>2. k + 1 \in 1 .. n /\ k + 1 \in 0 .. n /\ k + 1 # 0 /\ (k + 1) - 1 = k
    OBVIOUS
  <2>3. b[k + 1] = Running(b[k], row) /\ row \in LineRows
    BY <2>2 DEF RunsOver
  <2>4. S(k + 1) = S(k) + Net(row) /\ Z(k + 1) = Z(k) + Size(row)
    <3>1. /\ SumFunctionOnSet(Amounts(s, n), 1 .. k + 1)
               = SumFunctionOnSet(Amounts(s, n), 1 .. (k + 1) - 1) + Amounts(s, n)[k + 1]
          /\ SumFunctionOnSet(Turnovers(s, n), 1 .. k + 1)
               = SumFunctionOnSet(Turnovers(s, n), 1 .. (k + 1) - 1) + Turnovers(s, n)[k + 1]
      <4>1. (\A i \in 1 .. n : Amounts(s, n)[i] \in Int) /\ (\A i \in 1 .. n : Turnovers(s, n)[i] \in Int)
        BY <1>1
      <4> QED BY <2>2, <4>1, SumOfFirst
    <3> QED BY <1>1, <2>2, <3>1
  <2>5. Z(k + 1) <= Z(n)
    <3>1. \A i \in 1 .. n : Turnovers(s, n)[i] \in Nat
      BY <1>1
    <3> QED BY <2>2, <3>1, SumOfFirstGrows
  <2>6. /\ Net(row) \in Int /\ Size(row) \in Int
        /\ -Size(row) <= Net(row) /\ Net(row) <= Size(row)
    BY <1>1, <2>2, <2>3
  <2>7. Z(n) \in Int
    <3>1. IsFiniteSet(1 .. n)
      BY FS_Interval
    <3>2. \A i \in 1 .. n : Turnovers(s, n)[i] \in Int
      BY <1>1
    <3> QED BY <3>1, <3>2, SumType
  <2> HIDE DEF S, Z, row
  <2>8. /\ Cent * S(k) \in Int /\ Cent * Net(row) \in Int
        /\ Cent * S(k + 1) = Cent * S(k) + Cent * Net(row)
    BY <1>0, <2>1, <2>4, <2>6, Scaled
  <2>9. /\ Cent * Z(k) \in Int /\ Cent * Size(row) \in Int /\ Cent * Z(n) \in Int
        /\ Cent * Z(k + 1) = Cent * Z(k) + Cent * Size(row)
        /\ Cent * Z(k + 1) <= Cent * Z(n)
    <3> DEFINE x == Z(k)
               y == Size(row)
               m == Z(n)
    <3>1. Cent \in Nat /\ x \in Int /\ y \in Int /\ m \in Int /\ x + y <= m /\ Z(k + 1) = x + y
      BY <1>0, <2>1, <2>4, <2>5, <2>6, <2>7
    <3> HIDE DEF x, y, m
    <3>2. /\ Cent * x \in Int /\ Cent * y \in Int /\ Cent * m \in Int
          /\ Cent * (x + y) = Cent * x + Cent * y /\ Cent * x + Cent * y <= Cent * m
      BY <3>1, ScaledStep
    <3>3. Cent * Z(k + 1) = Cent * x + Cent * y
      BY <3>1, <3>2
    <3> QED BY <3>2, <3>3 DEF x, y, m
  <2>10. Near(Cent * S(k), 0, Cent * Z(k))
    BY <1>0, <2>1, ScaledBetween
  <2>11. /\ q \in Int /\ 4 * k * Off = 4 * q /\ 4 * (k + 1) * Off = 4 * q + 4 * Off
         /\ 4 * q + 7 * Off <= (4 * n + 3) * Off
    <3>1. Off * (4 * (k + 1) + 3) <= Off * (4 * n + 3)
      <4>1. 4 * (k + 1) + 3 <= 4 * n + 3 /\ 4 * (k + 1) + 3 \in Int /\ 4 * n + 3 \in Int
        OBVIOUS
      <4> QED BY <1>0, <4>1, Scaled
    <3>2. Off * (4 * (k + 1) + 3) = 4 * q + 7 * Off /\ Off * (4 * n + 3) = (4 * n + 3) * Off
      BY <1>0
    <3>3. q \in Int /\ 4 * k * Off = 4 * q /\ 4 * (k + 1) * Off = 4 * q + 4 * Off
      BY <1>0
    <3> HIDE DEF q
    <3> QED BY <3>1, <3>2, <3>3
  <2>12. Cent * Z(n) + (4 * n + 3) * Off <= Largest
    BY DEF Z
  <2>13. (4 * n + 3) * Off \in Int
    BY <1>0
  <2> HIDE DEF q
  <2>14. w \in Int /\ Near(b[k], 0, w)
    <3> DEFINE x == b[k]
               y == Cent * S(k)
               u == 4 * k * Off
               v == Cent * Z(k)
    <3>1. /\ x \in Int /\ y \in Int /\ u \in Int /\ v \in Int /\ Near(x, y, u) /\ Near(y, 0, v)
          /\ w = v + u
      BY <1>0, <2>1, <2>8, <2>9, <2>10, <2>11
    <3> HIDE DEF x, y, u, v, w
    <3>2. Near(x, 0, v + u)
      BY <3>1, NearChain
    <3> QED BY <3>1, <3>2 DEF x
  <2>15. w + Cent * Size(row) + 3 * Off <= Largest
    <3> DEFINE cz == Cent * Z(n)
               on == (4 * n + 3) * Off
               zk == Cent * Z(k)
               sz == Cent * Size(row)
    <3>1. /\ cz \in Int /\ on \in Int /\ zk \in Int /\ sz \in Int /\ cz + on <= Largest
          /\ zk + sz <= cz /\ 4 * q + 7 * Off <= on /\ w = zk + 4 * q /\ q \in Int
      BY <2>9, <2>11, <2>12, <2>13
    <3> HIDE DEF cz, on, zk, sz, w
    <3>2. w + sz + 3 * Off <= Largest
      BY <1>0, <3>1
    <3> QED BY <3>2 DEF sz
  <2> HIDE DEF w
  <2>16. b[k + 1] \in Int /\ Near(b[k + 1], b[k] + Cent * Net(row), 4 * Off)
    BY <2>1, <2>3, <2>14, <2>15, RunningIsNear
  <2>17. Near(b[k + 1], Cent * S(k + 1), 4 * (k + 1) * Off)
    <3> DEFINE x == b[k]
               y == Cent * S(k)
               z == b[k + 1]
               d == Cent * Net(row)
               u == 4 * k * Off
               v == 4 * Off
    <3>1. /\ x \in Int /\ y \in Int /\ z \in Int /\ d \in Int /\ u \in Int /\ v \in Int
          /\ Near(x, y, u) /\ Near(z, x + d, v)
      BY <1>0, <2>1, <2>8, <2>11, <2>16
    <3>2. Cent * S(k + 1) = y + d /\ 4 * (k + 1) * Off = u + v
      BY <2>8, <2>11
    <3> HIDE DEF x, y, z, d, u, v
    <3>3. Near(z, y + d, u + v)
      BY <3>1, NearShifted
    <3> QED BY <3>2, <3>3 DEF z
  <2>18. S(k + 1) \in Int /\ Z(k + 1) \in Int /\ -Z(k + 1) <= S(k + 1) /\ S(k + 1) <= Z(k + 1)
    BY <2>1, <2>4, <2>6
  <2> QED BY <2>16, <2>17, <2>18 DEF S, Z
<1>4. n \in C
  <2> HIDE DEF C
  <2> QED BY <1>2, <1>3, NumberInduction
<1> QED BY <1>4

\* The ledger's choice among the orders of a set of lines is one of them.
LEMMA OrderChosen ==
  ASSUME NEW T, \E t : InOrder(t, T, Cardinality(T))
  PROVE  InOrder(CHOOSE s \in [1 .. Cardinality(T) -> T] :
                   \A i, j \in 1 .. Cardinality(T) : i < j => s[i] # s[j] /\ ~Before(s[j], s[i]),
                 T, Cardinality(T))
BY DEF InOrder

\* The ledger of an account ends near what its posted lines add up to.
LEMMA ClosingIsNear ==
  ASSUME TypeOK, NEW from, NEW to, NEW a \in Accounts,
         NEW L, L = PostedLines(from, to), NEW ls, ls = OfAccount(a, L),
         NEW n, n = Cardinality(ls),
         Cent * SumFunctionOnSet(Sizes(L), ls) + (4 * n + 3) * Off <= Largest
  PROVE  /\ Closing(GeneralLedger(a, from, to)) \in Int
         /\ Near(Closing(GeneralLedger(a, from, to)), Cent * SumFunctionOnSet(Nets(L), ls), 4 * n * Off)
<1> DEFINE s == CHOOSE s \in [1 .. Cardinality(ls) -> ls] :
                  \A i, j \in 1 .. Cardinality(ls) : i < j => s[i] # s[j] /\ ~Before(s[j], s[i])
           b == CHOOSE b : b = [i \in 0 .. Cardinality(ls) |->
                  IF i = 0 THEN 0 ELSE Running(b[i - 1], LineAt(s[i]))]
           ledger == [i \in 1 .. Cardinality(ls) |-> [line |-> s[i], balance |-> b[i]]]
<1>1. GeneralLedger(a, from, to) = ledger
  BY DEF GeneralLedger
<1>2. ls \in SUBSET L
  BY DEF OfAccount
<1>3. IsFiniteSet(ls) /\ n \in Nat
  <2>1. IsFiniteSet(ls)
    BY <1>2, PostedLinesFinite, FS_Subset
  <2> QED BY <2>1, FS_CardinalityType
<1>4. InOrder(s, ls, n)
  <2>1. \E t : InOrder(t, ls, Cardinality(ls))
    BY <1>2, <1>3, OrderExists
  <2>2. InOrder(s, ls, Cardinality(ls))
    BY <2>1, OrderChosen
  <2> HIDE DEF s
  <2> QED BY <2>2
<1> HIDE DEF s
<1>5. /\ \A i \in 1 .. n : s[i] \in ls
      /\ \A x \in ls : \E i \in 1 .. n : s[i] = x
      /\ \A i, j \in 1 .. n : s[i] = s[j] => i = j
  BY <1>3, <1>4, OrderIsComplete
<1>6. \A i \in 1 .. n : LineAt(s[i]) \in LineRows
  BY <1>2, <1>5, PostedLineTyped
<1>7. RunsOver(b, s, n)
  <2>1. \E c : RunsOver(c, s, n)
    BY <1>3, RunningExists
  <2> QED BY <2>1 DEF RunsOver
<1> HIDE DEF b
<1>8. /\ SumFunctionOnSet(Amounts(s, n), 1 .. n) = SumFunctionOnSet(Nets(L), ls)
      /\ SumFunctionOnSet(Turnovers(s, n), 1 .. n) = SumFunctionOnSet(Sizes(L), ls)
  <2> DEFINE I == 1 .. n
             d == Amounts(s, n)
             z == Turnovers(s, n)
  <2>1. IsFiniteSet(I)
    BY <1>3, FS_Interval
  <2>2. \A x \in ls : Nets(L)[x] \in Int /\ Sizes(L)[x] \in Int
    BY <1>2, PostedLineTyped DEF Nets, Sizes
  <2>3. \A i \in I : d[i] = Nets(L)[s[i]] /\ z[i] = Sizes(L)[s[i]]
    BY <1>2, <1>5 DEF Nets, Sizes, Amounts, Turnovers
  <2>4. /\ \A i \in I : s[i] \in ls
        /\ \A x \in ls : \E i \in I : s[i] = x
        /\ \A i, j \in I : s[i] = s[j] => i = j
    BY <1>5
  <2> DEFINE f == Nets(L)
             g == Sizes(L)
  <2>5. /\ \A x \in ls : f[x] \in Int
        /\ \A i \in I : d[i] = f[s[i]]
    BY <2>2, <2>3
  <2>6. /\ \A x \in ls : g[x] \in Int
        /\ \A i \in I : z[i] = g[s[i]]
    BY <2>2, <2>3
  <2> HIDE DEF I, d, z, f, g
  <2>7. SumFunctionOnSet(d, I) = SumFunctionOnSet(f, ls)
    BY <1>3, <2>1, <2>4, <2>5, SumReindexed
  <2>8. SumFunctionOnSet(z, I) = SumFunctionOnSet(g, ls)
    BY <1>3, <2>1, <2>4, <2>6, SumReindexed
  <2> QED BY <2>7, <2>8 DEF I, d, z, f, g
<1>9. b[n] \in Int /\ Near(b[n], Cent * SumFunctionOnSet(Nets(L), ls), 4 * n * Off)
  <2>1. Cent * SumFunctionOnSet(Turnovers(s, n), 1 .. n) + (4 * n + 3) * Off <= Largest
    BY <1>8
  <2>2. Near(b[n], Cent * SumFunctionOnSet(Amounts(s, n), 1 .. n), 4 * n * Off) /\ b[n] \in Int
    BY <1>3, <1>6, <1>7, <2>1, RunningIsNearSum
  <2> QED BY <1>8, <2>2
<1>10. Closing(ledger) = b[n]
  <2>1. CASE n = 0
    <3>1. ledger = <<>>
      BY <2>1
    <3>2. b[0] = 0
      BY <2>1, <1>7 DEF RunsOver
    <3> QED BY <2>1, <3>1, <3>2 DEF Closing
  <2>2. CASE n # 0
    <3>1. DOMAIN ledger = 1 .. n /\ Len(ledger) = n
      BY <1>3
    <3>2. ledger # <<>>
      BY <3>1, <2>2, <1>3
    <3>3. ledger[n].balance = b[n]
      BY <2>2, <1>3
    <3> HIDE DEF ledger
    <3> QED BY <3>1, <3>2, <3>3 DEF Closing
  <2> QED BY <2>1, <2>2
<1> QED BY <1>1, <1>9, <1>10

\* The posted lines of consecutive days are those of all the days.
LEMMA DaysAddUp ==
  ASSUME TypeOK, NEW from \in Days, NEW mid \in Days, NEW to \in Days, from <= mid, mid <= to,
         NEW a \in Accounts,
         NEW L, L = PostedLines(from, to), NEW M, M = PostedLines(from, mid),
         NEW R, R = PostedLines(mid + 1, to)
  PROVE  /\ OfAccount(a, L) = OfAccount(a, M) \cup OfAccount(a, R)
         /\ OfAccount(a, M) \cap OfAccount(a, R) = {}
         /\ M \subseteq L /\ R \subseteq L
<1>1. from \in Nat /\ mid \in Nat /\ to \in Nat
  BY BooksAssumption
<1>2. ASSUME NEW l
      PROVE  /\ l \in L <=> l \in M \/ l \in R
             /\ ~(l \in M /\ l \in R)
  <2>1. ASSUME NEW e \in Entries, EntryExists(e)
        PROVE  /\ InRange(entries[e].date, from, to)
                    <=> InRange(entries[e].date, from, mid) \/ InRange(entries[e].date, mid + 1, to)
               /\ ~(InRange(entries[e].date, from, mid) /\ InRange(entries[e].date, mid + 1, to))
    <3>1. entries[e].date \in Nat
      BY <2>1, LinesTyped
    <3> QED BY <3>1, <1>1 DEF InRange
  <2>2. \A e : /\ e \in Posted(from, to) <=> e \in Posted(from, mid) \/ e \in Posted(mid + 1, to)
               /\ ~(e \in Posted(from, mid) /\ e \in Posted(mid + 1, to))
    BY <2>1 DEF Posted
  <2> QED BY <2>2, PostedLine
<1> QED BY <1>2 DEF OfAccount

\* What lines of disjoint parts add up to.
LEMMA PartsAddUp ==
  ASSUME NEW L, NEW M, NEW R, M \subseteq L, R \subseteq L,
         \A l \in L : LineAt(l) \in LineRows,
         NEW A \in SUBSET M, NEW B \in SUBSET R, IsFiniteSet(A), IsFiniteSet(B), A \cap B = {}
  PROVE  /\ SumFunctionOnSet(Nets(L), A \cup B)
              = SumFunctionOnSet(Nets(M), A) + SumFunctionOnSet(Nets(R), B)
         /\ SumFunctionOnSet(Sizes(L), A \cup B)
              = SumFunctionOnSet(Sizes(M), A) + SumFunctionOnSet(Sizes(R), B)
<1> DEFINE f == Nets(L)
           g == Sizes(L)
<1>1. \A l \in A \cup B : f[l] \in Int /\ g[l] \in Int
  <2>1. \A l \in L : Net(LineAt(l)) \in Int /\ Size(LineAt(l)) \in Int
    BY DEF LineRows, Net, Size, Magnitude
  <2> QED BY <2>1 DEF Nets, Sizes
<1>2. \A l \in A : f[l] \in Int /\ f[l] = Nets(M)[l] /\ g[l] \in Int /\ g[l] = Sizes(M)[l]
  BY <1>1 DEF Nets, Sizes
<1>3. \A l \in B : f[l] \in Int /\ f[l] = Nets(R)[l] /\ g[l] \in Int /\ g[l] = Sizes(R)[l]
  BY <1>1 DEF Nets, Sizes
<1> HIDE DEF f, g
<1>4. /\ SumFunctionOnSet(f, A \cup B) = SumFunctionOnSet(f, A) + SumFunctionOnSet(f, B)
      /\ SumFunctionOnSet(g, A \cup B) = SumFunctionOnSet(g, A) + SumFunctionOnSet(g, B)
  BY <1>1, SumUnion
<1>5. /\ SumFunctionOnSet(f, A) = SumFunctionOnSet(Nets(M), A)
      /\ SumFunctionOnSet(g, A) = SumFunctionOnSet(Sizes(M), A)
  BY <1>2, SumSame
<1>6. /\ SumFunctionOnSet(f, B) = SumFunctionOnSet(Nets(R), B)
      /\ SumFunctionOnSet(g, B) = SumFunctionOnSet(Sizes(R), B)
  BY <1>3, SumSame
<1> QED BY <1>4, <1>5, <1>6 DEF f, g

\* What n lines that move t cents in all take is in reach if what more lines take is.
LEMMA PartInReach ==
  ASSUME NEW n \in Nat, NEW m \in Nat, n <= m, NEW t \in Nat, NEW u \in Nat, t <= u,
         Cent * u + (4 * m + 3) * Off <= Largest
  PROVE  Cent * t + (4 * n + 3) * Off <= Largest
<1>1. Cent \in Nat /\ Off \in Nat /\ Largest \in Nat
  BY BooksAssumption
<1>2. Cent * t <= Cent * u /\ Cent * t \in Int /\ Cent * u \in Int
  BY <1>1, Scaled
<1>3. Off * (4 * n + 3) <= Off * (4 * m + 3)
  <2>1. 4 * n + 3 \in Int /\ 4 * m + 3 \in Int /\ 4 * n + 3 <= 4 * m + 3
    OBVIOUS
  <2> QED BY <1>1, <2>1, Scaled
<1>4. /\ Off * (4 * n + 3) = (4 * n + 3) * Off /\ (4 * n + 3) * Off \in Int
      /\ Off * (4 * m + 3) = (4 * m + 3) * Off /\ (4 * m + 3) * Off \in Int
  BY <1>1
<1> DEFINE x == Cent * t
           y == Cent * u
           v == (4 * n + 3) * Off
           w == (4 * m + 3) * Off
<1>5. x <= y /\ v <= w /\ y + w <= Largest /\ x \in Int /\ y \in Int /\ v \in Int /\ w \in Int
  BY <1>2, <1>3, <1>4
<1> HIDE DEF x, y, v, w
<1>6. x + v <= Largest
  BY <1>1, <1>5
<1> QED BY <1>6 DEF x, v

\* The two reports are about the same amount, for any number of entries, lines and
\* accounts, in whatever order the lines of one day come and however the doubles
\* are rounded: while the amounts are in the range in which Off bounds a rounding,
\* the trial balance is within three such errors of the exact difference of the
\* account, and its ledger, or the ledgers of consecutive days together, within four
\* for each line.  Amounts and debits may be negative.
THEOREM TheReportsAgree == Spec => []ReportsAgree
<1>1. TypeOK => ReportsAgree
  <2> SUFFICES ASSUME TypeOK, NEW a \in Accounts, NEW from \in Days, NEW mid \in Days, NEW to \in Days,
                      InReach(a, from, to)
               PROVE  LET total == TrialBalance(from, to)[a]
                          exact == Cent * (total.debit - total.credit)
                          drift == 4 * Cardinality(OfAccount(a, PostedLines(from, to))) * Off
                      IN /\ Within(total.balance, exact, 3 * Off)
                         /\ Within(Closing(GeneralLedger(a, from, to)), exact, drift)
                         /\ from <= mid /\ mid <= to =>
                              Within(Closing(GeneralLedger(a, from, mid))
                                       + Closing(GeneralLedger(a, mid + 1, to)), exact, drift)
    BY DEF ReportsAgree
  <2> DEFINE L == PostedLines(from, to)
             ls == OfAccount(a, L)
             total == TrialBalance(from, to)[a]
             n == Cardinality(ls)
             exact == Cent * (total.debit - total.credit)
             turnover == SumFunctionOnSet(Sizes(L), ls)
             listed == Magnitude(total.debit) + Magnitude(total.credit)
             drift == 4 * n * Off
             closing == Closing(GeneralLedger(a, from, to))
  <2>1. /\ IsFiniteSet(ls) /\ ls \in SUBSET L
        /\ total.debit \in Int /\ total.credit \in Int
        /\ total.debit - total.credit = SumFunctionOnSet(Nets(L), ls)
        /\ turnover \in Nat /\ listed <= turnover
        /\ total.balance = Minus(Number(total.debit), Number(total.credit))
    BY TotalsAreSums
  <2>2. n \in Nat /\ Cent \in Nat /\ Off \in Nat /\ Largest \in Nat
    BY <2>1, FS_CardinalityType, BooksAssumption
  <2>3. Cent * turnover + (4 * n + 3) * Off <= Largest
    BY TurnoverIsSum DEF InReach
  <2>4. exact \in Int /\ drift \in Int /\ 3 * Off \in Int
    <3>1. total.debit - total.credit \in Int /\ 4 * n \in Int
      BY <2>1, <2>2
    <3> HIDE DEF total, n
    <3> QED BY <2>2, <3>1
  <2>5. total.balance \in Int /\ Near(total.balance, exact, 3 * Off)
    <3>1. turnover \in Nat /\ 0 \in Nat /\ 0 <= n /\ listed \in Nat /\ listed <= turnover
      BY <2>1, <2>2 DEF Magnitude
    <3>2. Cent * listed + (4 * 0 + 3) * Off <= Largest
      <4> HIDE DEF turnover, n, listed
      <4> QED BY <2>2, <2>3, <3>1, PartInReach
    <3>3. Cent * listed + 2 * Off <= Largest
      <4>1. Cent * listed \in Int
        BY <2>2, <3>1
      <4>2. (4 * 0 + 3) * Off = 3 * Off
        BY <2>2
      <4> DEFINE ct == Cent * listed
      <4>3. ct \in Int /\ ct + 3 * Off <= Largest
        BY <3>2, <4>1, <4>2
      <4> HIDE DEF ct
      <4>4. ct + 2 * Off <= Largest
        BY <2>2, <4>3
      <4> QED BY <4>4 DEF ct
    <3> HIDE DEF total
    <3> QED BY <2>1, <3>3, DifferenceIsNear
  <2>6. closing \in Int /\ Near(closing, exact, drift)
    <3> HIDE DEF total
    <3>1. Cent * SumFunctionOnSet(Sizes(L), ls) + (4 * n + 3) * Off <= Largest
      BY <2>1, <2>3
    <3>2. /\ closing \in Int
          /\ Near(closing, Cent * SumFunctionOnSet(Nets(L), ls), 4 * n * Off)
      BY <3>1, ClosingIsNear
    <3> QED BY <2>1, <3>2
  <2>7. ASSUME from <= mid, mid <= to
        PROVE  LET both == Closing(GeneralLedger(a, from, mid)) + Closing(GeneralLedger(a, mid + 1, to))
               IN both \in Int /\ Near(both, exact, drift)
    <3> DEFINE M == PostedLines(from, mid)
               R == PostedLines(mid + 1, to)
               ms == OfAccount(a, M)
               rs == OfAccount(a, R)
               x == Closing(GeneralLedger(a, from, mid))
               y == Closing(GeneralLedger(a, mid + 1, to))
               p == SumFunctionOnSet(Nets(M), ms)
               r == SumFunctionOnSet(Nets(R), rs)
               t == SumFunctionOnSet(Sizes(M), ms)
               u == SumFunctionOnSet(Sizes(R), rs)
               i == Cardinality(ms)
               j == Cardinality(rs)
    <3>1. ls = ms \cup rs /\ ms \cap rs = {} /\ M \subseteq L /\ R \subseteq L
      BY <2>7, DaysAddUp
    <3>2. ms \in SUBSET M /\ rs \in SUBSET R
      BY DEF OfAccount
    <3>3. IsFiniteSet(ms) /\ IsFiniteSet(rs)
      <4>1. IsFiniteSet(M) /\ IsFiniteSet(R)
        BY PostedLinesFinite
      <4> QED BY <3>2, <4>1, FS_Subset
    <3>4. \A l \in L : LineAt(l) \in LineRows
      BY PostedLineTyped
    <3>5. SumFunctionOnSet(Nets(L), ls) = p + r /\ SumFunctionOnSet(Sizes(L), ls) = t + u
      <4> HIDE DEF M, R, ms, rs, L, ls
      <4>1. /\ SumFunctionOnSet(Nets(L), ms \cup rs) = p + r
            /\ SumFunctionOnSet(Sizes(L), ms \cup rs) = t + u
        <5>1. ms \cap rs = {} /\ M \subseteq L /\ R \subseteq L
          BY <3>1
        <5> QED BY <3>2, <3>3, <3>4, <5>1, PartsAddUp
      <4>2. ls = ms \cup rs
        BY <3>1
      <4> HIDE DEF p, r, t, u
      <4> QED BY <4>1, <4>2
    <3>6. n = i + j /\ i \in Nat /\ j \in Nat
      <4>1. i \in Nat /\ j \in Nat
        BY <3>3, FS_CardinalityType
      <4>2. Cardinality(ms \cup rs) = i + j - Cardinality({})
        <5> HIDE DEF ms, rs
        <5> QED BY <3>1, <3>3, FS_Union
      <4>3. Cardinality({}) = 0
        BY FS_EmptySet
      <4> QED BY <3>1, <4>1, <4>2, <4>3
    <3>7. p \in Int /\ r \in Int /\ t \in Nat /\ u \in Nat
      <4>1. /\ \A l \in ms : Nets(M)[l] \in Int /\ Sizes(M)[l] \in Nat
            /\ \A l \in rs : Nets(R)[l] \in Int /\ Sizes(R)[l] \in Nat
        <5>1. \A l \in L : Net(LineAt(l)) \in Int /\ Size(LineAt(l)) \in Nat
          BY PostedLineTyped
        <5> QED BY <3>1, <3>2, <5>1 DEF Nets, Sizes
      <4> HIDE DEF ms, rs, M, R
      <4> QED BY <3>3, <4>1, SumType, SumNatural
    <3>8. Cent * t + (4 * i + 3) * Off <= Largest /\ Cent * u + (4 * j + 3) * Off <= Largest
      <4>1. turnover = t + u
        BY <2>1, <3>5
      <4>2. turnover \in Nat /\ t <= turnover /\ u <= turnover /\ i <= n /\ j <= n
        <5> HIDE DEF turnover, n, t, u, i, j
        <5> QED BY <3>6, <3>7, <4>1
      <4> HIDE DEF turnover, n, t, u, i, j
      <4> QED BY <2>2, <2>3, <3>6, <3>7, <4>2, PartInReach
    <3>9. x \in Int /\ Near(x, Cent * p, 4 * i * Off) /\ y \in Int /\ Near(y, Cent * r, 4 * j * Off)
      BY <3>8, ClosingIsNear
    <3>10. exact = Cent * p + Cent * r /\ Cent * p \in Int /\ Cent * r \in Int
      <4>1. exact = Cent * (p + r)
        BY <2>1, <3>5
      <4> HIDE DEF p, r, exact
      <4> QED BY <2>2, <3>7, <4>1, Scaled
    <3>11. /\ drift = 4 * i * Off + 4 * j * Off
           /\ 4 * i * Off \in Int /\ 4 * j * Off \in Int
      <4> HIDE DEF n, i, j
      <4> QED BY <2>2, <3>6
    <3> DEFINE cp == Cent * p
               cr == Cent * r
               di == 4 * i * Off
               dj == 4 * j * Off
    <3>12. /\ exact = cp + cr /\ cp \in Int /\ cr \in Int
           /\ drift = di + dj /\ di \in Int /\ dj \in Int
           /\ x \in Int /\ y \in Int /\ Near(x, cp, di) /\ Near(y, cr, dj)
      BY <3>9, <3>10, <3>11
    <3> HIDE DEF cp, cr, di, dj, x, y, exact, drift
    <3>13. x + y \in Int /\ Near(x + y, exact, drift)
      BY <3>12 DEF Near
    <3> QED BY <3>13 DEF x, y
  <2>8. Within(total.balance, exact, 3 * Off) /\ Within(closing, exact, drift)
    <3> HIDE DEF total, exact, drift, closing
    <3> QED BY <2>4, <2>5, <2>6, NearIsWithin
  <2>9. from <= mid /\ mid <= to =>
          Within(Closing(GeneralLedger(a, from, mid)) + Closing(GeneralLedger(a, mid + 1, to)), exact, drift)
    <3> HIDE DEF exact, drift
    <3> QED BY <2>4, <2>7, NearIsWithin
  <2> QED BY <2>8, <2>9
<1> QED BY <1>1, BooksTypes, PTL
================================================================================
