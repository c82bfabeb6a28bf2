-------------------------- MODULE StockQuants_proofs --------------------------
(* Theorems about StockQuants: type correctness, negative stock only where a *)
(* receipt with a negative line put it, completed documents that have moved  *)
(* their stock, and stock that moves by whole requests.                      *)
EXTENDS StockQuants, Sums, TLAPS

LEMMA ShiftIsPositive ==
  ASSUME NEW l \in Int, l < 10000
  PROVE  Shift(l) \in Nat \ {0}
<1> DEFINE Fits(p) == l < p /\ \A o \in PowersOfTen : l < o => p <= o
<1>1. \E p \in PowersOfTen : Fits(p)
  <2>1. CASE l < 10
    BY <2>1 DEF PowersOfTen
  <2>2. CASE l >= 10 /\ l < 100
    BY <2>2 DEF PowersOfTen
  <2>3. CASE l >= 100 /\ l < 1000
    BY <2>3 DEF PowersOfTen
  <2>4. CASE l >= 1000
    BY <2>4 DEF PowersOfTen
  <2>5. QED
    BY <2>1, <2>2, <2>3, <2>4
<1>2. Shift(l) \in PowersOfTen
  BY <1>1 DEF Shift
<1>3. QED
  BY <1>2 DEF PowersOfTen

LEMMA ConcatenatedIsInt ==
  ASSUME NEW q \in Int, NEW l \in Int, l < 10000
  PROVE  Concatenated(q, l) \in Int
BY ShiftIsPositive DEF Concatenated

LEMMA ConcatenatedIsNat ==
  ASSUME NEW q \in Nat, NEW l \in Nat, l < 10000
  PROVE  Concatenated(q, l) \in Nat
<1>1. Shift(l) \in Nat
  BY ShiftIsPositive
<1> HIDE DEF Shift
<1>2. q * Shift(l) \in Nat
  BY <1>1
<1>3. QED
  BY <1>2 DEF Concatenated

-------------------------------------------------------------------------------
(* Type correctness.  Concatenated is a number only for the line quantities  *)
(* the constants allow, so the invariant also bounds the pending lines.      *)

LinesBounded ==
  \A r \in Requests : \A i \in DOMAIN moves[r] :
    moves[r][i].how = "receive" => moves[r][i].qty < 10000

TypeInv == TypeOK /\ LinesBounded

LEMMA AnswerKeepsTypes ==
  ASSUME TypeInv, NEW r \in Requests, NEW how \in Answered, Answer(r, how),
         quants' \in [Rows -> Int \cup {Null}],
         status' \in [Documents -> {"DRAFT", "COMPLETED"}]
  PROVE  TypeInv'
<1>1. NoWrites \in [Rows -> Writes \cup {Null}]
  BY DEF NoWrites
<1>2. <<>> \in Seq(Moves) /\ DOMAIN <<>> = {}
  OBVIOUS
<1>3. TypeOK'
  BY <1>1, <1>2 DEF TypeInv, TypeOK, Answer, Answered, Working
<1>4. LinesBounded'
  BY <1>2 DEF TypeInv, TypeOK, LinesBounded, Answer
<1>5. QED
  BY <1>3, <1>4 DEF TypeInv

LEMMA RefuseKeepsTypes ==
  ASSUME TypeInv, NEW r \in Requests, Refuse(r)
  PROVE  TypeInv'
BY AnswerKeepsTypes DEF Refuse, TypeInv, TypeOK, Answered

LEMMA BeginKeepsTypes ==
  ASSUME TypeInv, NEW r \in Requests, NEW ms \in Seq(Moves),
         NEW d \in Documents \cup {Null}, Begin(r, ms, d), pc[r] = "idle",
         \A i \in DOMAIN ms : ms[i].how = "receive" => ms[i].qty < 10000
  PROVE  TypeInv'
<1>1. /\ Phase(ms, 1, d) \in Working
      /\ Phase(ms, 1, d) = "read" => 1 \in DOMAIN ms
      /\ Phase(ms, 1, d) # "save"
  BY DEF Phase, Working
<1>2. TypeOK'
  BY <1>1 DEF TypeInv, TypeOK, Begin
<1>3. LinesBounded'
  BY DEF TypeInv, TypeOK, LinesBounded, Begin
<1>4. QED
  BY <1>2, <1>3 DEF TypeInv

LEMMA HoldKeepsTypes ==
  ASSUME TypeInv, NEW r \in Requests, pc[r] = "read",
         NEW row \in Rows, NEW qty \in Int, Hold(r, row, qty)
  PROVE  TypeInv'
<1>1. OrZero(Sees(r, row)) \in Int
  BY DEF TypeInv, TypeOK, OrZero, Sees, Writes
<1>2. [row |-> row, qty |-> qty, base |-> OrZero(Sees(r, row))] \in Entities
  BY <1>1 DEF Entities
<1>3. TypeOK'
  BY <1>2, ConstantsAssumption DEF TypeInv, TypeOK, Hold, Entities, Working
<1>4. LinesBounded'
  BY DEF TypeInv, LinesBounded, Hold
<1>5. QED
  BY <1>3, <1>4 DEF TypeInv

LEMMA NewRow ==
  ASSUME NEW r \in Requests, NEW key \in Keys
  PROVE  <<key, r>> \in Rows
BY DEF Rows, Owners

\* What a request at a look-up sees: a movement of its list, and rows of its pair
\* with a quantity.
LEMMA AtMoveFacts ==
  ASSUME TypeInv, NEW r \in Requests, NEW how, AtMove(r, how)
  PROVE  /\ pc[r] = "read"
         /\ CurrentMove(r) \in Moves /\ CurrentMove(r).how = how
         /\ how = "receive" => CurrentMove(r).qty < 10000
         /\ CurrentMove(r).key \in Keys /\ CurrentMove(r).qty \in Int
         /\ \A row \in VisibleRows(r, CurrentMove(r).key) :
              row \in Rows /\ Sees(r, row) \in Int
<1>1. at[r] \in DOMAIN moves[r] /\ moves[r] \in Seq(Moves)
  BY DEF TypeInv, TypeOK, AtMove
<1>2. CurrentMove(r) \in Moves
  BY <1>1 DEF CurrentMove
<1>3. \A row \in VisibleRows(r, CurrentMove(r).key) :
        row \in Rows /\ Sees(r, row) \in Int
  BY DEF VisibleRows, Sees, TypeInv, TypeOK, Writes
<1>4. QED
  BY <1>1, <1>2, <1>3 DEF AtMove, CurrentMove, Moves, TypeInv, LinesBounded

LEMMA ArrivalsKeepTypes ==
  ASSUME TypeInv, NEW r \in Requests, Arrive(r)
  PROVE  TypeInv'
<1>1. CASE AdjustStock(r)
  <2>1. PICK key \in Keys, qty \in Deltas : Begin(r, <<Move("adjust", key, qty)>>, Null)
    BY <1>1 DEF AdjustStock
  <2> DEFINE ms == <<Move("adjust", key, qty)>>
  <2>2. Move("adjust", key, qty) \in Moves
    BY ConstantsAssumption DEF Move, Moves
  <2>3. /\ ms \in Seq(Moves)
        /\ \A i \in DOMAIN ms : ms[i].how # "receive"
    BY <2>2 DEF Move
  <2> HIDE DEF ms
  <2>4. Begin(r, ms, Null)
    BY <2>1 DEF ms
  <2>5. QED
    BY <1>1, <2>3, <2>4, BeginKeepsTypes DEF AdjustStock
<1>2. CASE TransferStock(r)
  <2>1. PICK p \in Products, from \in Locations, to \in Locations, qty \in Amounts :
          \/ from = to /\ Refuse(r)
          \/ from # to /\ Begin(r, <<Move("take", <<p, from>>, qty),
                                     Move("put", <<p, to>>, qty)>>, Null)
    BY <1>2 DEF TransferStock
  <2> DEFINE ms == <<Move("take", <<p, from>>, qty), Move("put", <<p, to>>, qty)>>
  <2>2. Move("take", <<p, from>>, qty) \in Moves /\ Move("put", <<p, to>>, qty) \in Moves
    BY ConstantsAssumption DEF Move, Moves, Keys
  <2>3. /\ ms \in Seq(Moves)
        /\ \A i \in DOMAIN ms : ms[i].how # "receive"
    BY <2>2 DEF Move
  <2>4. CASE Refuse(r)
    BY <2>4, RefuseKeepsTypes
  <2>5. CASE Begin(r, ms, Null)
    <3> HIDE DEF ms
    <3>1. QED
      BY <1>2, <2>3, <2>5, BeginKeepsTypes DEF TransferStock
  <2>6. QED
    BY <2>1, <2>4, <2>5
<1>3. ASSUME NEW d \in Documents, NEW how \in {"receive", "issue"},
             Begin(r, [i \in DOMAIN Lines[d] |-> Move(how, Lines[d][i].key, Lines[d][i].qty)], d),
             pc[r] = "idle"
      PROVE  TypeInv'
  <2> DEFINE ms == [i \in DOMAIN Lines[d] |-> Move(how, Lines[d][i].key, Lines[d][i].qty)]
  <2>1. Lines[d] \in Seq(LineItems)
    BY ConstantsAssumption
  <2>2. ASSUME NEW i \in DOMAIN Lines[d]
        PROVE  Move(how, Lines[d][i].key, Lines[d][i].qty) \in Moves
    <3>1. Lines[d][i] \in LineItems
      BY <2>1
    <3>2. Lines[d][i].key \in Keys /\ Lines[d][i].qty \in Int
      BY <3>1 DEF LineItems
    <3>3. QED
      BY <3>2 DEF Move, Moves
  <2>3. ms \in Seq(Moves)
    BY <2>1, <2>2
  <2>4. \A i \in DOMAIN ms : ms[i].how = "receive" => ms[i].qty < 10000
    BY ConstantsAssumption DEF Move
  <2> HIDE DEF ms
  <2>5. QED
    BY <1>3, <2>3, <2>4, BeginKeepsTypes DEF ms
<1>4. CASE CompleteReceipt(r)
  BY <1>3, <1>4, RefuseKeepsTypes DEF CompleteReceipt, Documents
<1>5. CASE CompleteIssue(r)
  BY <1>3, <1>5, RefuseKeepsTypes DEF CompleteIssue, Documents
<1>6. QED
  BY <1>1, <1>2, <1>4, <1>5 DEF Arrive

LEMMA LookupsKeepTypes ==
  ASSUME TypeInv, NEW r \in Requests,
         \/ AdjustQuant(r) \/ TakeFromSource(r) \/ PutToDestination(r)
         \/ ReceiveLine(r) \/ IssueLine(r)
  PROVE  TypeInv'
<1>1. CASE AdjustQuant(r)
  BY <1>1, AtMoveFacts, NewRow, HoldKeepsTypes, RefuseKeepsTypes
  DEF AdjustQuant, HoldNew
<1>2. CASE TakeFromSource(r)
  BY <1>2, AtMoveFacts, HoldKeepsTypes, RefuseKeepsTypes DEF TakeFromSource
<1>3. CASE PutToDestination(r)
  BY <1>3, AtMoveFacts, NewRow, HoldKeepsTypes DEF PutToDestination, HoldNew
<1>4. CASE ReceiveLine(r)
  <2> DEFINE m == CurrentMove(r)
  <2>1. /\ pc[r] = "read" /\ m.key \in Keys /\ m.qty \in Int /\ m.qty < 10000
        /\ \A row \in VisibleRows(r, m.key) : row \in Rows /\ Sees(r, row) \in Int
    BY <1>4, AtMoveFacts DEF ReceiveLine
  <2>2. \A row \in VisibleRows(r, m.key) : Concatenated(Sees(r, row), m.qty) \in Int
    BY <2>1, ConcatenatedIsInt
  <2>3. \/ Refuse(r)
        \/ \E row \in VisibleRows(r, m.key) : Hold(r, row, Concatenated(Sees(r, row), m.qty))
        \/ Hold(r, <<m.key, r>>, m.qty)
    BY <1>4 DEF ReceiveLine, HoldNew
  <2> HIDE DEF m
  <2>4. QED
    BY <2>1, <2>2, <2>3, NewRow, HoldKeepsTypes, RefuseKeepsTypes
<1>5. CASE IssueLine(r)
  BY <1>5, AtMoveFacts, HoldKeepsTypes, RefuseKeepsTypes DEF IssueLine
<1>6. QED
  BY <1>1, <1>2, <1>3, <1>4, <1>5

LEMMA WritesKeepTypes ==
  ASSUME TypeInv, NEW r \in Requests, SaveQuant(r) \/ SaveDocument(r) \/ Commit(r)
  PROVE  TypeInv'
<1>1. CASE SaveQuant(r)
  <2>1. held[r] \in Entities /\ at[r] \in DOMAIN moves[r] /\ moves[r] \in Seq(Moves)
    BY <1>1 DEF SaveQuant, TypeInv, TypeOK
  <2> DEFINE w == [qty |-> held[r].qty,
                   base |-> IF buf[r][held[r].row] = Null THEN held[r].base
                            ELSE buf[r][held[r].row].base]
             next == Phase(moves[r], at[r] + 1, doc[r])
  <2>2. w \in Writes /\ held[r].row \in Rows
    BY <2>1 DEF TypeInv, TypeOK, Entities, Writes
  <2>3. next \in Working /\ next # "save" /\ (next = "read" => at[r] + 1 \in DOMAIN moves[r])
    BY DEF Phase, Working
  <2>4. buf' = [buf EXCEPT ![r] = [buf[r] EXCEPT ![held[r].row] = w]]
    BY <1>1 DEF SaveQuant, TypeInv, TypeOK
  <2>5. buf' \in [Requests -> [Rows -> Writes \cup {Null}]]
    BY <2>2, <2>4 DEF TypeInv, TypeOK
  <2>6. /\ pc' = [pc EXCEPT ![r] = next] /\ at' = [at EXCEPT ![r] = at[r] + 1]
        /\ held' = [held EXCEPT ![r] = Null]
        /\ UNCHANGED <<quants, status, moves, doc>>
    BY <1>1 DEF SaveQuant
  <2> HIDE DEF w, next
  <2>7. TypeOK'
    BY <2>3, <2>5, <2>6 DEF TypeInv, TypeOK, Working
  <2>8. LinesBounded'
    BY <2>6 DEF TypeInv, LinesBounded
  <2>9. QED
    BY <2>7, <2>8 DEF TypeInv
<1>2. CASE SaveDocument(r)
  BY <1>2 DEF SaveDocument, TypeInv, TypeOK, LinesBounded, Working
<1>3. CASE Commit(r)
  <2>1. quants' \in [Rows -> Int \cup {Null}]
    BY <1>3 DEF Commit, Sees, TypeInv, TypeOK, Writes
  <2>2. status' \in [Documents -> {"DRAFT", "COMPLETED"}]
    BY <1>3 DEF Commit, TypeInv, TypeOK
  <2>3. QED
    BY <1>3, <2>1, <2>2, AnswerKeepsTypes DEF Commit, Answered
<1>4. QED
  BY <1>1, <1>2, <1>3

LEMMA CrashKeepsTypes ==
  ASSUME TypeInv, ServerCrash
  PROVE  TypeInv'
<1>1. NoWrites \in [Rows -> Writes \cup {Null}] /\ <<>> \in Seq(Moves) /\ DOMAIN <<>> = {}
  BY DEF NoWrites
<1>2. TypeOK'
  BY <1>1 DEF TypeInv, TypeOK, ServerCrash, Working, Answered
<1>3. LinesBounded'
  BY <1>1 DEF LinesBounded, ServerCrash
<1>4. QED
  BY <1>2, <1>3 DEF TypeInv

LEMMA TypeInvariant == Spec => []TypeInv
<1>1. Init => TypeInv
  <2> SUFFICES ASSUME Init PROVE TypeInv
    OBVIOUS
  <2>1. NoWrites \in [Rows -> Writes \cup {Null}] /\ <<>> \in Seq(Moves) /\ DOMAIN <<>> = {}
    BY DEF NoWrites
  <2>2. QED
    BY <2>1, ConstantsAssumption DEF Init, TypeInv, TypeOK, LinesBounded, Working, Answered
<1>2. TypeInv /\ [Next]_vars => TypeInv'
  <2> SUFFICES ASSUME TypeInv, [Next]_vars PROVE TypeInv'
    OBVIOUS
  <2>1. ASSUME NEW r \in Requests, Arrive(r) PROVE TypeInv'
    BY <2>1, ArrivalsKeepTypes
  <2>2. ASSUME NEW r \in Requests, Step(r) PROVE TypeInv'
    BY <2>2, LookupsKeepTypes, WritesKeepTypes DEF Step
  <2>3. ASSUME NEW r \in Requests, DeadlockAbort(r) PROVE TypeInv'
    BY <2>3, AnswerKeepsTypes DEF DeadlockAbort, TypeInv, TypeOK, Answered
  <2>4. CASE ServerCrash
    BY <2>4, CrashKeepsTypes
  <2>5. CASE UNCHANGED vars
    BY <2>5 DEF vars, TypeInv, TypeOK, LinesBounded
  <2>6. QED
    BY <2>1, <2>2, <2>3, <2>4, <2>5 DEF Next, Settled
<1>3. QED
  BY <1>1, <1>2, PTL DEF Spec

\* The variables of StockQuants have their types in every reachable state: in
\* particular a request has an entity in memory exactly between its findOne and
\* its save, and never runs past its list of movements.
THEOREM TypeCorrect == Spec => []TypeOK
<1>1. TypeInv => TypeOK
  BY DEF TypeInv
<1>2. QED
  BY <1>1, TypeInvariant, PTL

-------------------------------------------------------------------------------
(* Where stock is negative.  NegativeOnlyByReceipts says nothing of the      *)
(* quantities that requests have computed and not committed yet, so it is    *)
(* not inductive: NegativeInv adds the entities in memory, the uncommitted   *)
(* writes, and the movements still to be carried out.  What makes it hold    *)
(* although the rows are read without a lock is that every save writes an    *)
(* absolute quantity which was checked against the very value it was         *)
(* computed from, except in a receipt.                                       *)

NegativeReceived(key) == \E d \in Receipts : status[d] = "COMPLETED" /\ NegativeLine(d, key)

\* A negative quantity r has computed for a pair has a receipt to blame: a
\* completed one, or the one r is completing.
Excused(r, key) == NegativeReceived(key) \/ (doc[r] \in Receipts /\ NegativeLine(doc[r], key))

SoundMove(m, d) ==
  /\ m.how \in {"take", "put"} => m.qty >= 0
  /\ m.how = "receive" => d \in Receipts /\ (m.qty < 0 => NegativeLine(d, m.key))
SoundMoves(ms, d) == \A i \in DOMAIN ms : SoundMove(ms[i], d)

Sound(r) ==
  /\ \A row \in Rows : buf[r][row] # Null /\ buf[r][row].qty < 0 => Excused(r, row[1])
  /\ held[r] # Null /\ held[r].qty < 0 => Excused(r, held[r].row[1])
  /\ SoundMoves(moves[r], doc[r])

NegativeInv == NegativeOnlyByReceipts /\ \A r \in Requests : Sound(r)

\* Every other request stays where it is, and what is completed stays completed.
OthersStay(r) ==
  \A o \in Requests \ {r} :
    /\ pc'[o] = pc[o] /\ moves'[o] = moves[o] /\ at'[o] = at[o]
    /\ doc'[o] = doc[o] /\ held'[o] = held[o] /\ buf'[o] = buf[o]
StaysCompleted == \A d \in Documents : status[d] = "COMPLETED" => status'[d] = "COMPLETED"

LEMMA NegativeReceivedStays ==
  ASSUME StaysCompleted, NEW key, NegativeReceived(key)
  PROVE  NegativeReceived(key)'
BY DEF NegativeReceived, StaysCompleted, Documents, NegativeLine

LEMMA ExcusedStays ==
  ASSUME StaysCompleted, NEW r, doc'[r] = doc[r], NEW key, Excused(r, key)
  PROVE  Excused(r, key)'
BY NegativeReceivedStays DEF Excused, NegativeLine

LEMMA OthersSound ==
  ASSUME NegativeInv, StaysCompleted, NEW r \in Requests, OthersStay(r),
         NegativeOnlyByReceipts', Sound(r)'
  PROVE  NegativeInv'
<1>1. ASSUME NEW o \in Requests \ {r} PROVE Sound(o)'
  <2>1. /\ moves'[o] = moves[o] /\ doc'[o] = doc[o]
        /\ held'[o] = held[o] /\ buf'[o] = buf[o]
    BY DEF OthersStay
  <2>2. \A key : Excused(o, key) => Excused(o, key)'
    BY <2>1, ExcusedStays
  <2>3. Sound(o)
    BY DEF NegativeInv
  <2> QED
    BY <2>1, <2>2, <2>3 DEF Sound, SoundMoves, SoundMove, NegativeLine
<1> QED
  BY <1>1 DEF NegativeInv

LEMMA SeesExcused ==
  ASSUME TypeInv, NegativeInv, NEW r \in Requests, NEW row \in Rows,
         Sees(r, row) # Null, Sees(r, row) < 0
  PROVE  Excused(r, row[1])
BY DEF Sees, NegativeInv, Sound, NegativeOnlyByReceipts, NegativeRow, Excused, NegativeReceived

LEMMA AnswerKeepsNegative ==
  ASSUME TypeInv, NegativeInv, NEW r \in Requests, NEW how, Answer(r, how),
         StaysCompleted, NegativeOnlyByReceipts'
  PROVE  NegativeInv'
<1>1. OthersStay(r)
  BY DEF Answer, OthersStay, TypeInv, TypeOK
<1>2. moves'[r] = <<>> /\ held'[r] = Null /\ buf'[r] = NoWrites
  BY DEF Answer, TypeInv, TypeOK
<1>3. Sound(r)'
  BY <1>2 DEF Sound, SoundMoves, NoWrites
<1> QED
  BY <1>1, <1>3, OthersSound

\* A step that leaves the tables alone keeps what is said of them.
LEMMA TablesKept ==
  ASSUME NegativeInv, UNCHANGED <<quants, status>>
  PROVE  StaysCompleted /\ NegativeOnlyByReceipts'
BY DEF StaysCompleted, NegativeInv, NegativeOnlyByReceipts, NegativeRow, NegativeLine

LEMMA RefuseKeepsNegative ==
  ASSUME TypeInv, NegativeInv, NEW r \in Requests, Refuse(r)
  PROVE  NegativeInv'
BY TablesKept, AnswerKeepsNegative DEF Refuse

LEMMA BeginKeepsNegative ==
  ASSUME TypeInv, NegativeInv, NEW r \in Requests, pc[r] = "idle", NEW ms, NEW d,
         Begin(r, ms, d), SoundMoves(ms, d), doc[r] = Null, buf[r] = NoWrites
  PROVE  NegativeInv'
<1>1. OthersStay(r)
  BY DEF Begin, OthersStay, TypeInv, TypeOK
<1>2. StaysCompleted /\ NegativeOnlyByReceipts'
  BY TablesKept DEF Begin
<1>3. moves'[r] = ms /\ doc'[r] = d /\ held'[r] = Null /\ buf'[r] = NoWrites
  BY DEF Begin, TypeInv, TypeOK
<1>4. Sound(r)'
  BY <1>3 DEF Sound, SoundMoves, SoundMove, NoWrites, NegativeLine
<1> QED
  BY <1>1, <1>2, <1>4, OthersSound

LEMMA HoldKeepsNegative ==
  ASSUME TypeInv, NegativeInv, NEW r \in Requests, NEW row \in Rows, NEW qty \in Int,
         qty < 0 => Excused(r, row[1]), Hold(r, row, qty)
  PROVE  NegativeInv'
<1>1. OthersStay(r)
  BY DEF Hold, OthersStay, TypeInv, TypeOK
<1>2. StaysCompleted /\ NegativeOnlyByReceipts'
  BY TablesKept DEF Hold
<1>3. /\ moves'[r] = moves[r] /\ doc'[r] = doc[r] /\ buf'[r] = buf[r]
      /\ held'[r].qty = qty /\ held'[r].row = row
  BY DEF Hold, TypeInv, TypeOK
<1>4. \A key : Excused(r, key) => Excused(r, key)'
  BY <1>2, <1>3, ExcusedStays
<1>5. Sound(r)
  BY DEF NegativeInv
<1>6. Sound(r)'
  BY <1>3, <1>4, <1>5 DEF Sound, SoundMoves, SoundMove, NegativeLine
<1> QED
  BY <1>1, <1>2, <1>6, OthersSound

\* A request that has not begun has written nothing.
IdleWritesNothing == \A r \in Requests : pc[r] = "idle" => doc[r] = Null /\ buf[r] = NoWrites

LEMMA ArrivalsKeepNegative ==
  ASSUME TypeInv, IdleWritesNothing, NegativeInv, NEW r \in Requests, Arrive(r)
  PROVE  NegativeInv'
<1>0. ASSUME NEW ms, NEW d, pc[r] = "idle", Begin(r, ms, d), SoundMoves(ms, d)
      PROVE  NegativeInv'
  BY <1>0, BeginKeepsNegative DEF IdleWritesNothing
<1>1. CASE AdjustStock(r)
  <2>1. \A key, qty : SoundMoves(<<Move("adjust", key, qty)>>, Null)
    BY DEF SoundMoves, SoundMove, Move
  <2>2. QED
    BY <1>0, <1>1, <2>1 DEF AdjustStock
<1>2. CASE TransferStock(r)
  <2>1. ASSUME NEW p, NEW from, NEW to, NEW qty \in Amounts
        PROVE  SoundMoves(<<Move("take", <<p, from>>, qty), Move("put", <<p, to>>, qty)>>, Null)
    <3> DEFINE ms == <<Move("take", <<p, from>>, qty), Move("put", <<p, to>>, qty)>>
    <3>1. qty >= 0
      BY ConstantsAssumption
    <3>2. /\ DOMAIN ms = {1, 2} /\ ms[1].qty = qty /\ ms[2].qty = qty
          /\ ms[1].how = "take" /\ ms[2].how = "put"
      BY DEF Move
    <3> HIDE DEF ms
    <3>3. SoundMoves(ms, Null)
      BY <3>1, <3>2 DEF SoundMoves, SoundMove
    <3>4. QED
      BY <3>3 DEF ms
  <2>2. QED
    BY <1>0, <1>2, <2>1, RefuseKeepsNegative DEF TransferStock
<1>3. ASSUME NEW d \in Documents, NEW how \in {"receive", "issue"}, how = "receive" => d \in Receipts
      PROVE  SoundMoves([i \in DOMAIN Lines[d] |->
                           Move(how, Lines[d][i].key, Lines[d][i].qty)], d)
  BY <1>3 DEF SoundMoves, SoundMove, Move, NegativeLine
<1>4. CASE CompleteReceipt(r)
  BY <1>0, <1>3, <1>4, RefuseKeepsNegative DEF CompleteReceipt, Documents
<1>5. CASE CompleteIssue(r)
  BY <1>0, <1>3, <1>5, RefuseKeepsNegative DEF CompleteIssue, Documents
<1>6. QED
  BY <1>1, <1>2, <1>4, <1>5 DEF Arrive

\* What a look-up gives: a movement with what its kind asks, and rows that are
\* negative only with an excuse.
LEMMA LookupFacts ==
  ASSUME TypeInv, NegativeInv, NEW r \in Requests, NEW how, AtMove(r, how),
         NEW m, m = CurrentMove(r)
  PROVE  /\ m.key \in Keys /\ m.qty \in Int /\ <<m.key, r>> \in Rows
         /\ how = "receive" => m.qty < 10000
         /\ how \in {"take", "put"} => m.qty >= 0
         /\ how = "receive" /\ m.qty < 0 => Excused(r, m.key)
         /\ \A row \in VisibleRows(r, m.key) :
              /\ row \in Rows /\ row[1] = m.key /\ Sees(r, row) \in Int
              /\ Sees(r, row) < 0 => Excused(r, m.key)
<1>1. at[r] \in DOMAIN moves[r] /\ m = moves[r][at[r]] /\ m.how = how
  BY DEF TypeInv, TypeOK, AtMove, CurrentMove
<1>2. SoundMove(m, doc[r])
  BY <1>1 DEF NegativeInv, Sound, SoundMoves
<1>3. \A row \in VisibleRows(r, m.key) : row \in Rows /\ row[1] = m.key /\ Sees(r, row) # Null
  BY DEF VisibleRows
<1>4. \A row \in VisibleRows(r, m.key) : Sees(r, row) < 0 => Excused(r, m.key)
  BY <1>3, SeesExcused
<1>5. /\ m.key \in Keys /\ m.qty \in Int /\ (how = "receive" => m.qty < 10000)
      /\ \A row \in VisibleRows(r, m.key) : Sees(r, row) \in Int
  BY AtMoveFacts
<1>6. <<m.key, r>> \in Rows
  BY <1>5, NewRow
<1>7. /\ how \in {"take", "put"} => m.qty >= 0
      /\ how = "receive" /\ m.qty < 0 => Excused(r, m.key)
  BY <1>1, <1>2 DEF SoundMove, Excused
<1> QED
  BY <1>3, <1>4, <1>5, <1>6, <1>7

LEMMA LookupsKeepNegative ==
  ASSUME TypeInv, NegativeInv, NEW r \in Requests,
         \/ AdjustQuant(r) \/ TakeFromSource(r) \/ PutToDestination(r)
         \/ ReceiveLine(r) \/ IssueLine(r)
  PROVE  NegativeInv'
<1> DEFINE m == CurrentMove(r)
<1>1. ASSUME NEW how, AtMove(r, how)
      PROVE  /\ m.key \in Keys /\ m.qty \in Int /\ <<m.key, r>> \in Rows
             /\ how = "receive" => m.qty < 10000
             /\ how \in {"take", "put"} => m.qty >= 0
             /\ how = "receive" /\ m.qty < 0 => Excused(r, m.key)
             /\ \A row \in VisibleRows(r, m.key) :
                  /\ row \in Rows /\ row[1] = m.key /\ Sees(r, row) \in Int
                  /\ Sees(r, row) < 0 => Excused(r, m.key)
  BY <1>1, LookupFacts
<1> HIDE DEF m
<1>2. CASE AdjustQuant(r)
  <2>1. \/ Refuse(r)
        \/ \E row \in VisibleRows(r, m.key) :
             Sees(r, row) + m.qty >= 0 /\ Hold(r, row, Sees(r, row) + m.qty)
        \/ m.qty >= 0 /\ Hold(r, <<m.key, r>>, m.qty)
    BY <1>2 DEF AdjustQuant, HoldNew, m
  <2>2. QED
    BY <1>1, <1>2, <2>1, HoldKeepsNegative, RefuseKeepsNegative DEF AdjustQuant
<1>3. ASSUME TakeFromSource(r) \/ IssueLine(r)
      PROVE  NegativeInv'
  <2>1. \/ Refuse(r)
        \/ \E row \in VisibleRows(r, m.key) :
             Sees(r, row) >= m.qty /\ Hold(r, row, Sees(r, row) - m.qty)
    BY <1>3 DEF TakeFromSource, IssueLine, m
  <2>2. AtMove(r, "take") \/ AtMove(r, "issue")
    BY <1>3 DEF TakeFromSource, IssueLine
  <2>3. QED
    BY <1>1, <2>1, <2>2, HoldKeepsNegative, RefuseKeepsNegative
<1>4. CASE PutToDestination(r)
  <2>1. \/ \E row \in VisibleRows(r, m.key) : Hold(r, row, Sees(r, row) + m.qty)
        \/ Hold(r, <<m.key, r>>, m.qty)
    BY <1>4 DEF PutToDestination, HoldNew, m
  <2>2. AtMove(r, "put")
    BY <1>4 DEF PutToDestination
  <2>3. QED
    BY <1>1, <2>1, <2>2, HoldKeepsNegative
<1>5. CASE ReceiveLine(r)
  <2>1. \/ Refuse(r)
        \/ \E row \in VisibleRows(r, m.key) :
             m.qty >= 0 /\ Hold(r, row, Concatenated(Sees(r, row), m.qty))
        \/ Hold(r, <<m.key, r>>, m.qty)
    BY <1>5 DEF ReceiveLine, HoldNew, m
  <2>2. AtMove(r, "receive")
    BY <1>5 DEF ReceiveLine
  <2>3. ASSUME NEW row \in VisibleRows(r, m.key), m.qty >= 0
        PROVE  /\ Concatenated(Sees(r, row), m.qty) \in Int
               /\ Concatenated(Sees(r, row), m.qty) < 0 => Excused(r, row[1])
    <3>1. Sees(r, row) \in Int /\ m.qty \in Nat /\ m.qty < 10000 /\ row[1] = m.key
      BY <1>1, <2>2, <2>3
    <3>2. CASE Sees(r, row) >= 0
      BY <3>1, <3>2, ConcatenatedIsNat
    <3>3. CASE Sees(r, row) < 0
      <4>1. Excused(r, m.key)
        BY <1>1, <2>2, <3>3
      <4>2. Concatenated(Sees(r, row), m.qty) \in Int
        BY <3>1, ConcatenatedIsInt
      <4> QED BY <3>1, <4>1, <4>2
    <3> QED BY <3>1, <3>2, <3>3
  <2>4. ASSUME NEW row \in VisibleRows(r, m.key), m.qty >= 0,
               Hold(r, row, Concatenated(Sees(r, row), m.qty))
        PROVE  NegativeInv'
    BY <1>1, <2>2, <2>3, <2>4, HoldKeepsNegative
  <2>5. CASE Hold(r, <<m.key, r>>, m.qty)
    BY <1>1, <2>2, <2>5, HoldKeepsNegative
  <2>6. QED
    BY <2>1, <2>4, <2>5, RefuseKeepsNegative
<1>6. QED
  BY <1>2, <1>3, <1>4, <1>5

LEMMA WritesKeepNegative ==
  ASSUME TypeInv, NegativeInv, NEW r \in Requests,
         SaveQuant(r) \/ SaveDocument(r) \/ Commit(r)
  PROVE  NegativeInv'
<1>0. Sound(r)
  BY DEF NegativeInv
<1>1. CASE SaveQuant(r)
  <2>1. held[r] \in Entities /\ held[r] # Null
    BY <1>1 DEF SaveQuant, TypeInv, TypeOK
  <2>2. \A row \in Rows :
          \/ buf'[r][row] = buf[r][row]
          \/ row = held[r].row /\ buf'[r][row].qty = held[r].qty
    BY <1>1, <2>1 DEF SaveQuant, TypeInv, TypeOK, Entities
  <2>3. OthersStay(r) /\ moves'[r] = moves[r] /\ doc'[r] = doc[r] /\ held'[r] = Null
    BY <1>1 DEF SaveQuant, OthersStay, TypeInv, TypeOK
  <2>4. StaysCompleted /\ NegativeOnlyByReceipts'
    BY <1>1, TablesKept DEF SaveQuant
  <2>5. \A key : Excused(r, key) => Excused(r, key)'
    BY <2>3, <2>4, ExcusedStays
  <2>6. Sound(r)'
    BY <1>0, <2>1, <2>2, <2>3, <2>5 DEF Sound, SoundMoves, SoundMove, NegativeLine
  <2> QED
    BY <2>3, <2>4, <2>6, OthersSound
<1>2. CASE SaveDocument(r)
  <2>1. StaysCompleted /\ NegativeOnlyByReceipts'
    BY <1>2, TablesKept DEF SaveDocument
  <2>2. UNCHANGED <<moves, at, doc, held, buf>> /\ OthersStay(r)
    BY <1>2 DEF SaveDocument, OthersStay, TypeInv, TypeOK
  <2>3. \A key : Excused(r, key) => Excused(r, key)'
    BY <2>1, <2>2, ExcusedStays
  <2>4. Sound(r)'
    BY <1>0, <2>2, <2>3 DEF Sound, SoundMoves, SoundMove, NegativeLine
  <2> QED
    BY <2>1, <2>2, <2>4, OthersSound
<1>3. CASE Commit(r)
  <2>1. StaysCompleted
    BY <1>3 DEF Commit, StaysCompleted
  <2>2. \A key : Excused(r, key) => NegativeReceived(key)'
    <3>1. ASSUME NEW key, doc[r] \in Receipts, NegativeLine(doc[r], key)
          PROVE  NegativeReceived(key)'
      BY <1>3, <3>1 DEF Commit, NegativeReceived, NegativeLine, Documents
    <3> QED
      BY <2>1, <3>1, NegativeReceivedStays DEF Excused
  <2>3. \A row \in Rows : NegativeRow(quants', row) => Excused(r, row[1])
    BY <1>3, SeesExcused DEF Commit, NegativeRow
  <2>4. NegativeOnlyByReceipts'
    BY <2>2, <2>3 DEF NegativeOnlyByReceipts, NegativeReceived, NegativeRow
  <2> QED
    BY <1>3, <2>1, <2>4, AnswerKeepsNegative DEF Commit
<1>4. QED
  BY <1>1, <1>2, <1>3

LEMMA IdleInvariant == Spec => []IdleWritesNothing
<1>1. Init => IdleWritesNothing
  BY DEF Init, IdleWritesNothing
<1>2. TypeInv /\ IdleWritesNothing /\ [Next]_vars => IdleWritesNothing'
  <2> SUFFICES ASSUME TypeInv, IdleWritesNothing, [Next]_vars, NEW o \in Requests, pc'[o] = "idle"
               PROVE  doc'[o] = Null /\ buf'[o] = NoWrites
    BY DEF IdleWritesNothing
  <2>1. ASSUME NEW r \in Requests, NEW how \in Answered, Answer(r, how)
        PROVE  doc'[o] = Null /\ buf'[o] = NoWrites
    BY <2>1 DEF Answer, Answered, TypeInv, TypeOK, IdleWritesNothing
  <2>2. ASSUME NEW r \in Requests, NEW ms, NEW d, Begin(r, ms, d)
        PROVE  doc'[o] = Null /\ buf'[o] = NoWrites
    <3>1. Phase(ms, 1, d) # "idle"
      BY DEF Phase
    <3> QED BY <2>2, <3>1 DEF Begin, TypeInv, TypeOK, IdleWritesNothing
  <2>3. ASSUME NEW r \in Requests, NEW row, NEW qty, Hold(r, row, qty)
        PROVE  doc'[o] = Null /\ buf'[o] = NoWrites
    BY <2>3 DEF Hold, TypeInv, TypeOK, IdleWritesNothing
  <2>4. ASSUME NEW r \in Requests, SaveQuant(r)
        PROVE  doc'[o] = Null /\ buf'[o] = NoWrites
    <3>1. Phase(moves[r], at[r] + 1, doc[r]) # "idle"
      BY DEF Phase
    <3>2. o # r
      BY <2>4, <3>1 DEF SaveQuant, TypeInv, TypeOK
    <3> QED BY <2>4, <3>2 DEF SaveQuant, TypeInv, TypeOK, IdleWritesNothing
  <2>5. ASSUME NEW r \in Requests, SaveDocument(r)
        PROVE  doc'[o] = Null /\ buf'[o] = NoWrites
    BY <2>5 DEF SaveDocument, TypeInv, TypeOK, IdleWritesNothing
  <2>6. ASSUME NEW r \in Requests, Refuse(r) \/ Commit(r) \/ DeadlockAbort(r)
        PROVE  doc'[o] = Null /\ buf'[o] = NoWrites
    BY <2>1, <2>6 DEF Refuse, Commit, DeadlockAbort, Answered
  <2>7. ASSUME NEW r \in Requests, Arrive(r)
        PROVE  doc'[o] = Null /\ buf'[o] = NoWrites
    BY <2>2, <2>6, <2>7 DEF Arrive, AdjustStock, TransferStock, CompleteReceipt, CompleteIssue
  <2>8. ASSUME NEW r \in Requests, Step(r)
        PROVE  doc'[o] = Null /\ buf'[o] = NoWrites
    BY <2>3, <2>4, <2>5, <2>6, <2>8 DEF Step, AdjustQuant, TakeFromSource, PutToDestination,
       ReceiveLine, IssueLine, HoldNew
  <2>9. CASE ServerCrash
    BY <2>9 DEF ServerCrash
  <2>10. CASE UNCHANGED vars
    BY <2>10 DEF vars, IdleWritesNothing
  <2> QED
    BY <2>6, <2>7, <2>8, <2>9, <2>10 DEF Next, Settled
<1> QED
  BY <1>1, <1>2, TypeInvariant, PTL DEF Spec

LEMMA NegativeInvariant == Spec => []NegativeInv
<1>1. Init => NegativeInv
  <2> SUFFICES ASSUME Init PROVE NegativeInv
    OBVIOUS
  <2>1. \A row \in Rows : ~NegativeRow(quants, row)
    BY ConstantsAssumption DEF Init, NegativeRow
  <2>2. \A r \in Requests : Sound(r)
    BY DEF Init, Sound, SoundMoves, NoWrites
  <2> QED
    BY <2>1, <2>2 DEF NegativeInv, NegativeOnlyByReceipts
<1>2. TypeInv /\ IdleWritesNothing /\ NegativeInv /\ [Next]_vars => NegativeInv'
  <2> SUFFICES ASSUME TypeInv, IdleWritesNothing, NegativeInv, [Next]_vars PROVE NegativeInv'
    OBVIOUS
  <2>1. ASSUME NEW r \in Requests, Arrive(r) PROVE NegativeInv'
    BY <2>1, ArrivalsKeepNegative
  <2>2. ASSUME NEW r \in Requests, Step(r) PROVE NegativeInv'
    BY <2>2, LookupsKeepNegative, WritesKeepNegative DEF Step
  <2>3. ASSUME NEW r \in Requests, DeadlockAbort(r) PROVE NegativeInv'
    BY <2>3, TablesKept, AnswerKeepsNegative DEF DeadlockAbort
  <2>4. CASE ServerCrash
    <3>1. NegativeOnlyByReceipts'
      BY <2>4, TablesKept DEF ServerCrash
    <3>2. \A r \in Requests : Sound(r)'
      BY <2>4 DEF ServerCrash, Sound, SoundMoves, NoWrites
    <3> QED BY <3>1, <3>2 DEF NegativeInv
  <2>5. CASE UNCHANGED vars
    <3>1. NegativeOnlyByReceipts'
      BY <2>5, TablesKept DEF vars
    <3>2. \A r \in Requests : Sound(r)'
      BY <2>5 DEF vars, NegativeInv, Sound, SoundMoves, SoundMove, NegativeLine, Excused,
         NegativeReceived
    <3> QED BY <3>1, <3>2 DEF NegativeInv
  <2>6. QED
    BY <2>1, <2>2, <2>3, <2>4, <2>5 DEF Next, Settled
<1>3. QED
  BY <1>1, <1>2, TypeInvariant, IdleInvariant, PTL DEF Spec

\* "Stock cannot be negative", and the one hole in it: for any number of requests,
\* products, locations, documents and lines of any sign, a committed stock_quants
\* row is negative only if a completed receipt has a negative line for its pair.
\* No interleaving of adjustments, transfers, issues and other receipts gets there.
THEOREM NegativeStockComesFromReceipts == Spec => []NegativeOnlyByReceipts
<1>1. NegativeInv => NegativeOnlyByReceipts
  BY DEF NegativeInv
<1>2. QED
  BY <1>1, NegativeInvariant, PTL

-------------------------------------------------------------------------------
(* A completed document has moved its stock.  The status is saved after the  *)
(* loop over the lines; what the loop has done by then is in the transaction *)
(* of the request, in rows of its own and of others.                         *)

Saved(r, key) == \E row \in Overwrites(r) : row[1] = key

\* The movements before the one a request is at have been written, and those of
\* a completion are the lines of its document.
Progress(r) ==
  /\ at[r] >= 1
  /\ \A i \in DOMAIN moves[r] : i < at[r] => Saved(r, moves[r][i].key)
  /\ pc[r] = "save" => held[r].row[1] = CurrentMove(r).key
  /\ pc[r] \in {"saveDocument", "commit"} => \A i \in DOMAIN moves[r] : i < at[r]
  /\ doc[r] # Null =>
       /\ DOMAIN moves[r] = DOMAIN Lines[doc[r]]
       /\ \A i \in DOMAIN moves[r] : moves[r][i].key = Lines[doc[r]][i].key

ProgressInv == \A r \in Requests : Progress(r)

LEMMA OthersProgress ==
  ASSUME ProgressInv, NEW r \in Requests, OthersStay(r), Progress(r)'
  PROVE  ProgressInv'
BY DEF ProgressInv, OthersStay, Progress, Saved, Overwrites, CurrentMove

LEMMA AnswerKeepsProgress ==
  ASSUME TypeInv, ProgressInv, NEW r \in Requests, NEW how \in Answered, Answer(r, how)
  PROVE  ProgressInv'
<1>1. OthersStay(r)
  BY DEF Answer, OthersStay, TypeInv, TypeOK
<1>2. pc'[r] = how /\ moves'[r] = <<>> /\ at'[r] = 1 /\ doc'[r] = Null
  BY DEF Answer, TypeInv, TypeOK
<1>3. Progress(r)'
  BY <1>2 DEF Progress, Answered
<1> QED
  BY <1>1, <1>3, OthersProgress

LEMMA PhaseAtEnd ==
  ASSUME NEW ms \in Seq(Moves), NEW i \in Nat, i >= 1, NEW d,
         Phase(ms, i, d) \in {"saveDocument", "commit"}
  PROVE  \A j \in DOMAIN ms : j < i
<1>1. i \notin DOMAIN ms
  BY DEF Phase
<1> QED
  BY <1>1

LEMMA BeginKeepsProgress ==
  ASSUME TypeInv, ProgressInv, NEW r \in Requests, NEW ms \in Seq(Moves), NEW d, Begin(r, ms, d),
         d # Null => /\ DOMAIN ms = DOMAIN Lines[d]
                     /\ \A i \in DOMAIN ms : ms[i].key = Lines[d][i].key
  PROVE  ProgressInv'
<1>1. OthersStay(r)
  BY DEF Begin, OthersStay, TypeInv, TypeOK
<1>2. pc'[r] = Phase(ms, 1, d) /\ moves'[r] = ms /\ at'[r] = 1 /\ doc'[r] = d
  BY DEF Begin, TypeInv, TypeOK
<1>3. Phase(ms, 1, d) # "save"
  BY DEF Phase
<1>4. Phase(ms, 1, d) \in {"saveDocument", "commit"} => \A i \in DOMAIN ms : i < 1
  BY PhaseAtEnd
<1>5. \A i \in DOMAIN ms : ~(i < 1)
  OBVIOUS
<1>6. Progress(r)'
  BY <1>2, <1>3, <1>4, <1>5 DEF Progress
<1> QED
  BY <1>1, <1>6, OthersProgress

LEMMA ArrivalsKeepProgress ==
  ASSUME TypeInv, ProgressInv, NEW r \in Requests, Arrive(r)
  PROVE  ProgressInv'
<1>1. CASE AdjustStock(r)
  <2> SUFFICES ASSUME NEW key \in Keys, NEW qty \in Deltas, Begin(r, <<Move("adjust", key, qty)>>, Null)
               PROVE  ProgressInv'
    BY <1>1 DEF AdjustStock
  <2>1. Move("adjust", key, qty) \in Moves
    BY ConstantsAssumption DEF Move, Moves
  <2>2. <<Move("adjust", key, qty)>> \in Seq(Moves)
    BY <2>1
  <2> QED
    BY <2>2, BeginKeepsProgress
<1>2. CASE TransferStock(r)
  <2>1. CASE Refuse(r)
    BY <2>1, AnswerKeepsProgress DEF Refuse, Answered
  <2> SUFFICES ASSUME NEW p \in Products, NEW from \in Locations, NEW to \in Locations, NEW qty \in Amounts,
                      Begin(r, <<Move("take", <<p, from>>, qty), Move("put", <<p, to>>, qty)>>, Null)
               PROVE  ProgressInv'
    BY <1>2, <2>1 DEF TransferStock
  <2>2. Move("take", <<p, from>>, qty) \in Moves /\ Move("put", <<p, to>>, qty) \in Moves
    BY ConstantsAssumption DEF Move, Moves, Keys
  <2>3. <<Move("take", <<p, from>>, qty), Move("put", <<p, to>>, qty)>> \in Seq(Moves)
    BY <2>2
  <2> QED
    BY <2>3, BeginKeepsProgress
<1>3. ASSUME NEW d \in Documents, NEW how \in {"receive", "issue"},
             Begin(r, [i \in DOMAIN Lines[d] |-> Move(how, Lines[d][i].key, Lines[d][i].qty)], d)
      PROVE  ProgressInv'
  <2> DEFINE ms == [i \in DOMAIN Lines[d] |-> Move(how, Lines[d][i].key, Lines[d][i].qty)]
  <2>1. Lines[d] \in Seq(LineItems)
    BY ConstantsAssumption
  <2>2. ASSUME NEW i \in DOMAIN Lines[d]
        PROVE  Move(how, Lines[d][i].key, Lines[d][i].qty) \in Moves
    <3>1. Lines[d][i] \in LineItems
      BY <2>1
    <3>2. Lines[d][i].key \in Keys /\ Lines[d][i].qty \in Int
      BY <3>1 DEF LineItems
    <3> QED
      BY <3>2 DEF Move, Moves
  <2>3. ms \in Seq(Moves)
    BY <2>1, <2>2
  <2>4. DOMAIN ms = DOMAIN Lines[d] /\ \A i \in DOMAIN ms : ms[i].key = Lines[d][i].key
    BY DEF Move
  <2>5. Begin(r, ms, d)
    BY <1>3
  <2> HIDE DEF ms
  <2> QED
    BY <2>3, <2>4, <2>5, BeginKeepsProgress
<1>4. CASE CompleteReceipt(r)
  BY <1>3, <1>4, AnswerKeepsProgress DEF CompleteReceipt, Documents, Refuse, Answered
<1>5. CASE CompleteIssue(r)
  BY <1>3, <1>5, AnswerKeepsProgress DEF CompleteIssue, Documents, Refuse, Answered
<1> QED
  BY <1>1, <1>2, <1>4, <1>5 DEF Arrive

LEMMA HoldKeepsProgress ==
  ASSUME TypeInv, ProgressInv, NEW r \in Requests, NEW row, NEW qty, Hold(r, row, qty),
         row[1] = CurrentMove(r).key
  PROVE  ProgressInv'
<1>1. OthersStay(r)
  BY DEF Hold, OthersStay, TypeInv, TypeOK
<1>2. pc'[r] = "save" /\ held'[r].row = row
  BY DEF Hold, TypeInv, TypeOK
<1>3. UNCHANGED <<moves, at, doc, buf>>
  BY DEF Hold
<1>4. Progress(r)
  BY DEF ProgressInv
<1>5. Progress(r)'
  BY <1>2, <1>3, <1>4 DEF Progress, CurrentMove, Saved, Overwrites
<1> QED
  BY <1>1, <1>5, OthersProgress

LEMMA LookupsKeepProgress ==
  ASSUME TypeInv, ProgressInv, NEW r \in Requests,
         \/ AdjustQuant(r) \/ TakeFromSource(r) \/ PutToDestination(r)
         \/ ReceiveLine(r) \/ IssueLine(r)
  PROVE  ProgressInv'
<1>1. \/ Refuse(r)
      \/ \E row \in VisibleRows(r, CurrentMove(r).key) : \E qty : Hold(r, row, qty)
      \/ \E qty : Hold(r, <<CurrentMove(r).key, r>>, qty)
  BY DEF AdjustQuant, TakeFromSource, PutToDestination, ReceiveLine, IssueLine, HoldNew
<1>2. \A row \in VisibleRows(r, CurrentMove(r).key) : row[1] = CurrentMove(r).key
  BY DEF VisibleRows
<1>3. CASE Refuse(r)
  BY <1>3, AnswerKeepsProgress DEF Refuse, Answered
<1> QED
  BY <1>1, <1>2, <1>3, HoldKeepsProgress

LEMMA SaveQuantKeepsProgress ==
  ASSUME TypeInv, ProgressInv, NEW r \in Requests, SaveQuant(r)
  PROVE  ProgressInv'
<1> DEFINE e == held[r].row
<1> DEFINE w == [qty |-> held[r].qty,
                 base |-> IF buf[r][e] = Null THEN held[r].base ELSE buf[r][e].base]
<1>1. /\ pc[r] = "save" /\ at[r] \in DOMAIN moves[r] /\ moves[r] \in Seq(Moves)
      /\ held[r] \in Entities /\ e \in Rows /\ e[1] = moves[r][at[r]].key
  BY DEF SaveQuant, TypeInv, TypeOK, ProgressInv, Progress, CurrentMove, Entities
<1>2. w \in Writes
  BY <1>1 DEF TypeInv, TypeOK, Entities, Writes
<1>3. /\ buf' = [buf EXCEPT ![r] = [buf[r] EXCEPT ![e] = w]]
      /\ pc' = [pc EXCEPT ![r] = Phase(moves[r], at[r] + 1, doc[r])]
      /\ at' = [at EXCEPT ![r] = at[r] + 1] /\ held' = [held EXCEPT ![r] = Null]
      /\ UNCHANGED <<moves, doc>>
  BY DEF SaveQuant, TypeInv, TypeOK
<1> HIDE DEF w
<1>4. OthersStay(r)
  BY <1>3 DEF OthersStay, TypeInv, TypeOK
<1>5. /\ buf'[r][e] = w /\ \A row \in Rows \ {e} : buf'[r][row] = buf[r][row]
      /\ pc'[r] = Phase(moves[r], at[r] + 1, doc[r]) /\ at'[r] = at[r] + 1
  BY <1>1, <1>3 DEF TypeInv, TypeOK
<1>6. Overwrites(r)' = Overwrites(r) \cup {e}
  BY <1>1, <1>2, <1>5, ConstantsAssumption DEF Overwrites, Writes
<1>7. ASSUME NEW i \in DOMAIN moves[r], i < at[r] + 1
      PROVE  Saved(r, moves[r][i].key)'
  <2>1. CASE i = at[r]
    BY <1>1, <1>3, <1>6, <2>1 DEF Saved
  <2>2. CASE i < at[r]
    <3>1. Saved(r, moves[r][i].key)
      BY <2>2 DEF ProgressInv, Progress
    <3> QED
      BY <1>3, <1>6, <3>1 DEF Saved
  <2> QED
    BY <1>1, <1>7, <2>1, <2>2
<1>8. pc'[r] # "save"
  BY <1>5 DEF Phase
<1>9. pc'[r] \in {"saveDocument", "commit"} => \A i \in DOMAIN moves[r] : i < at[r] + 1
  <2>1. at[r] + 1 \in Nat /\ at[r] + 1 >= 1
    BY DEF TypeInv, TypeOK
  <2> QED
    BY <1>1, <1>5, <2>1, PhaseAtEnd
<1>10. Progress(r)
  BY DEF ProgressInv
<1>11. Progress(r)'
  BY <1>1, <1>3, <1>5, <1>7, <1>8, <1>9, <1>10 DEF Progress
<1> QED
  BY <1>4, <1>11, OthersProgress

LEMMA SaveDocumentKeepsProgress ==
  ASSUME TypeInv, ProgressInv, NEW r \in Requests, SaveDocument(r)
  PROVE  ProgressInv'
<1>1. /\ pc' = [pc EXCEPT ![r] = "commit"] /\ pc[r] = "saveDocument"
      /\ UNCHANGED <<moves, at, doc, held, buf>>
  BY DEF SaveDocument
<1>2. OthersStay(r) /\ pc'[r] = "commit"
  BY <1>1 DEF OthersStay, TypeInv, TypeOK
<1>3. Progress(r)'
  BY <1>1, <1>2 DEF ProgressInv, Progress, Saved, Overwrites
<1> QED
  BY <1>2, <1>3, OthersProgress

LEMMA ProgressInvariant == Spec => []ProgressInv
<1>1. Init => ProgressInv
  BY DEF Init, ProgressInv, Progress
<1>2. TypeInv /\ ProgressInv /\ [Next]_vars => ProgressInv'
  <2> SUFFICES ASSUME TypeInv, ProgressInv, [Next]_vars PROVE ProgressInv'
    OBVIOUS
  <2>1. ASSUME NEW r \in Requests, Step(r) PROVE ProgressInv'
    BY <2>1, LookupsKeepProgress, SaveQuantKeepsProgress, SaveDocumentKeepsProgress, AnswerKeepsProgress
    DEF Step, Commit, Answered
  <2>2. ASSUME NEW r \in Requests, DeadlockAbort(r) PROVE ProgressInv'
    BY <2>2, AnswerKeepsProgress DEF DeadlockAbort, Answered
  <2>3. CASE ServerCrash
    BY <2>3 DEF ServerCrash, ProgressInv, Progress, TypeInv, TypeOK, Working
  <2>4. CASE UNCHANGED vars
    BY <2>4 DEF vars, ProgressInv, Progress, Saved, Overwrites, CurrentMove
  <2> QED
    BY <2>1, <2>2, <2>3, <2>4, ArrivalsKeepProgress DEF Next, Settled
<1> QED
  BY <1>1, <1>2, TypeInvariant, PTL DEF Spec

\* Nothing but a commit changes the committed tables.
LEMMA OnlyCommitsChangeTables ==
  ASSUME TypeInv, [Next]_vars, quants' # quants \/ status' # status
  PROVE  \E r \in Requests : Commit(r) /\ Commits(r)
<1>1. \A r \in Requests : ~Refuse(r) /\ ~SaveQuant(r) /\ ~SaveDocument(r) /\ ~DeadlockAbort(r)
  BY DEF Refuse, SaveQuant, SaveDocument, DeadlockAbort
<1>2. \A r \in Requests : ~\E ms, e : Begin(r, ms, e)
  BY DEF Begin
<1>3. \A r \in Requests : ~\E row, qty : Hold(r, row, qty)
  BY DEF Hold
<1>4. \A r \in Requests : ~Arrive(r)
  BY <1>1, <1>2 DEF Arrive, AdjustStock, TransferStock, CompleteReceipt, CompleteIssue
<1>5. ~ServerCrash /\ ~UNCHANGED vars
  BY DEF ServerCrash, vars
<1>6. PICK r \in Requests : Commit(r)
  BY <1>1, <1>3, <1>4, <1>5 DEF Next, Step, Settled, AdjustQuant, TakeFromSource, PutToDestination,
     ReceiveLine, IssueLine, HoldNew
<1>7. Commits(r)
  BY <1>6 DEF Commit, Answer, Commits, TypeInv, TypeOK
<1> QED
  BY <1>6, <1>7

\* A document is COMPLETED by a commit that has written a row for each of its
\* lines, for any documents and lines, although the status was checked before the
\* transaction and the lines are saved one by one.
THEOREM CompletionsMoveStock == Spec => CompletedMeansMoved
<1>1. ASSUME TypeInv, ProgressInv, [Next]_vars, NEW d \in Documents, status'[d] # status[d]
      PROVE  \E r \in Requests :
               /\ Commits(r) /\ doc[r] = d
               /\ \A i \in DOMAIN Lines[d] : \E row \in Overwrites(r) : row[1] = Lines[d][i].key
  <2>1. PICK r \in Requests : Commit(r) /\ Commits(r)
    BY <1>1, OnlyCommitsChangeTables
  <2>2. doc[r] = d /\ doc[r] # Null
    BY <1>1, <2>1, ConstantsAssumption DEF Commit, TypeInv, TypeOK
  <2>3. \A i \in DOMAIN Lines[d] : Saved(r, Lines[d][i].key)
    BY <1>1, <2>1, <2>2 DEF Commit, ProgressInv, Progress
  <2> QED
    BY <2>1, <2>2, <2>3 DEF Saved
<1>2. TypeInv /\ ProgressInv /\ [Next]_vars =>
        [\A d \in Documents : status'[d] # status[d] =>
           \E r \in Requests :
             /\ Commits(r) /\ doc[r] = d
             /\ \A i \in DOMAIN Lines[d] : \E row \in Overwrites(r) : row[1] = Lines[d][i].key]_vars
  BY <1>1
<1> QED
  BY <1>2, ProgressInvariant, TypeInvariant, PTL DEF Spec, CompletedMeansMoved
-------------------------------------------------------------------------------
(* The stock moves by whole requests.  What a transaction has written is     *)
(* weighed against the movements it has carried out so far, pair by pair: a  *)
(* pair may have several rows, a row may be written several times, and a     *)
(* movement may have gone to any of them.  The sums are taken over the rows  *)
(* of a pair on one side and over the list of movements on the other.        *)

\* What a transaction with the writes b adds to a row and to a pair, compared with
\* what it read before its first write.
Gain(b, row) == IF b[row] = Null THEN 0 ELSE b[row].qty - b[row].base
Gained(b, key) == SumFunctionOnSet([o \in Owners |-> Gain(b, <<key, o>>)], Owners)
\* What the movements before the n-th ask of a pair.
AskedUpTo(ms, n, key) ==
  SumFunctionOnSet([i \in DOMAIN ms |-> Signed(ms[i])],
                   {i \in DOMAIN ms : i < n /\ ms[i].key = key})
\* A receipt may book too much, as its lines are appended to the quantity as digits,
\* and anything unless what it starts from is not negative.
Enough(got, asked, d, sane) ==
  IF d \in Receipts THEN sane => got >= asked ELSE got = asked

\* What the writes b of a receipt d for a pair start from is not negative, nor are
\* the lines.
Sane(b, key, d) ==
  ~NegativeLine(d, key) /\ \A o \in Owners : b[<<key, o>>] # Null => b[<<key, o>>].base >= 0

\* Nothing negative comes out where nothing negative went in.
Grows(base, qty, key, d) == d \in Receipts /\ ~NegativeLine(d, key) /\ base >= 0 => qty >= 0

\* The inductive invariant: the writes of a request are worth the movements before
\* the one it is at, and the entity it has in memory is worth that one.
Booked(r) ==
  /\ \A key \in Keys : Enough(Gained(buf[r], key), AskedUpTo(moves[r], at[r], key), doc[r],
                              Sane(buf[r], key, doc[r]))
  /\ \A row \in Rows : buf[r][row] # Null =>
       Grows(buf[r][row].base, buf[r][row].qty, row[1], doc[r])
  /\ pc[r] = "idle" => buf[r] = NoWrites
  /\ doc[r] \notin Receipts => \A i \in DOMAIN moves[r] : moves[r][i].how # "receive"
  /\ pc[r] = "save" =>
       /\ Enough(held[r].qty - held[r].base, Signed(CurrentMove(r)), doc[r], held[r].base >= 0)
       /\ Grows(held[r].base, held[r].qty, held[r].row[1], doc[r])
       /\ buf[r][held[r].row] # Null => held[r].base = buf[r][held[r].row].qty

BookedInv == \A r \in Requests : Booked(r)

LEMMA OwnersFinite == IsFiniteSet(Owners)
BY ConstantsAssumption, FS_AddElement DEF Owners

LEMMA GainIsInt ==
  ASSUME NEW b \in [Rows -> Writes \cup {Null}], NEW row \in Rows
  PROVE  Gain(b, row) \in Int
BY DEF Gain, Writes

LEMMA NothingGained ==
  ASSUME NEW key \in Keys
  PROVE  Gained(NoWrites, key) = 0
<1> DEFINE f == [o \in Owners |-> Gain(NoWrites, <<key, o>>)]
<1>1. \A o \in Owners : f[o] = 0
  BY DEF Gain, NoWrites, Rows
<1> HIDE DEF f
<1>2. SumFunctionOnSet(f, Owners) = 0
  BY <1>1, OwnersFinite, SumZero
<1> QED BY <1>2 DEF Gained, f

LEMMA NothingAsked ==
  ASSUME NEW ms \in Seq(Moves), NEW key
  PROVE  AskedUpTo(ms, 1, key) = 0
<1>1. {i \in DOMAIN ms : i < 1 /\ ms[i].key = key} = {}
  OBVIOUS
<1> QED BY <1>1, SumEmpty DEF AskedUpTo

LEMMA MovesBeforeFinite ==
  ASSUME NEW ms \in Seq(Moves), NEW n, NEW key
  PROVE  IsFiniteSet({i \in DOMAIN ms : i < n /\ ms[i].key = key})
<1>1. DOMAIN ms = 1 .. Len(ms) /\ Len(ms) \in Int
  OBVIOUS
<1>2. IsFiniteSet(DOMAIN ms)
  BY <1>1, FS_Interval
<1> DEFINE T == {i \in DOMAIN ms : i < n /\ ms[i].key = key}
<1>3. T \in SUBSET DOMAIN ms
  OBVIOUS
<1> HIDE DEF T
<1>4. IsFiniteSet(T)
  BY <1>2, <1>3, FS_Subset
<1> QED
  BY <1>4 DEF T

LEMMA SignedIsInt ==
  ASSUME NEW m \in Moves
  PROVE  Signed(m) \in Int
BY DEF Signed, Moves

\* The next movement adds what it asks for its pair, and nothing for the others.
LEMMA AskedNext ==
  ASSUME NEW ms \in Seq(Moves), NEW n \in DOMAIN ms, NEW key
  PROVE  AskedUpTo(ms, n + 1, key) =
           AskedUpTo(ms, n, key) + (IF ms[n].key = key THEN Signed(ms[n]) ELSE 0)
<1> DEFINE f == [i \in DOMAIN ms |-> Signed(ms[i])]
           T == {i \in DOMAIN ms : i < n /\ ms[i].key = key}
           U == {i \in DOMAIN ms : i < n + 1 /\ ms[i].key = key}
<1>1. IsFiniteSet(T)
  BY MovesBeforeFinite
<1>2. \A i \in DOMAIN ms : f[i] \in Int
  <2>1. \A i \in DOMAIN ms : ms[i] \in Moves
    OBVIOUS
  <2> QED BY <2>1, SignedIsInt
<1>3. SumFunctionOnSet(f, T) \in Int
  <2>1. \A i \in T : f[i] \in Int
    BY <1>2
  <2> HIDE DEF f, T
  <2> QED BY <1>1, <2>1, SumType
<1>4. CASE ms[n].key = key
  <2>1. U = T \cup {n} /\ n \notin T /\ \A i \in T \cup {n} : f[i] \in Int
    BY <1>2, <1>4
  <2>2. f[n] = Signed(ms[n]) /\ f[n] \in Int
    BY <1>2
  <2> HIDE DEF f, T, U
  <2>3. SumFunctionOnSet(f, U) = f[n] + SumFunctionOnSet(f, T)
    BY <1>1, <2>1, SumAdd
  <2>4. SumFunctionOnSet(f, U) = SumFunctionOnSet(f, T) + Signed(ms[n])
    BY <1>3, <2>2, <2>3
  <2> QED BY <1>4, <2>4 DEF AskedUpTo, f, T, U
<1>5. CASE ms[n].key # key
  <2>1. U = T
    BY <1>5
  <2> HIDE DEF f, T, U
  <2>2. SumFunctionOnSet(f, U) = SumFunctionOnSet(f, T) + 0
    BY <2>1, <1>3
  <2> QED BY <1>5, <2>2 DEF AskedUpTo, f, T, U
<1> QED BY <1>4, <1>5

\* A write of a row changes the gain of its pair by as much as that row's.
LEMMA GainedNext ==
  ASSUME NEW b \in [Rows -> Writes \cup {Null}], NEW e \in Rows, NEW w \in Writes,
         NEW key \in Keys
  PROVE  LET c == [b EXCEPT ![e] = w]
         IN  Gained(c, key) = Gained(b, key) + (IF e[1] = key THEN Gain(c, e) - Gain(b, e) ELSE 0)
<1> DEFINE c == [b EXCEPT ![e] = w]
           f == [o \in Owners |-> Gain(b, <<key, o>>)]
           g == [o \in Owners |-> Gain(c, <<key, o>>)]
<1>1. c \in [Rows -> Writes \cup {Null}] /\ \A row \in Rows \ {e} : c[row] = b[row]
  OBVIOUS
<1> HIDE DEF c
<1>2. ASSUME NEW o \in Owners PROVE <<key, o>> \in Rows
  BY DEF Rows
<1>3. \A o \in Owners : f[o] \in Int /\ g[o] \in Int
  BY <1>1, <1>2, GainIsInt
<1>4. \A o \in Owners : <<key, o>> # e => g[o] = f[o]
  BY <1>1, <1>2 DEF Gain
<1>5. SumFunctionOnSet(f, Owners) \in Int
  <2> HIDE DEF f, g
  <2> QED BY <1>3, OwnersFinite, SumType
<1>6. CASE e[1] = key
  <2>1. PICK x \in Owners : e = <<key, x>>
    BY <1>6 DEF Rows
  <2>2. f[x] = Gain(b, e) /\ g[x] = Gain(c, e)
    BY <2>1
  <2>3. \A o \in Owners \ {x} : g[o] = f[o]
    BY <1>4, <2>1
  <2> HIDE DEF f, g
  <2>4. SumFunctionOnSet(g, Owners) = SumFunctionOnSet(f, Owners) + (g[x] - f[x])
    BY <1>3, <2>3, OwnersFinite, SumChanged
  <2>5. SumFunctionOnSet(g, Owners) = SumFunctionOnSet(f, Owners) + (Gain(c, e) - Gain(b, e))
    BY <2>2, <2>4
  <2> QED BY <1>6, <2>5 DEF Gained, c, f, g
<1>7. CASE e[1] # key
  <2>1. \A o \in Owners : f[o] \in Int /\ f[o] = g[o]
    BY <1>3, <1>4, <1>7
  <2> HIDE DEF f, g
  <2>2. SumFunctionOnSet(g, Owners) = SumFunctionOnSet(f, Owners) + 0
    BY <2>1, <1>5, OwnersFinite, SumSame
  <2> QED BY <1>7, <2>2 DEF Gained, c, f, g
<1> QED BY <1>6, <1>7

LEMMA GainedIsInt ==
  ASSUME NEW b \in [Rows -> Writes \cup {Null}], NEW key \in Keys
  PROVE  Gained(b, key) \in Int
<1> DEFINE f == [o \in Owners |-> Gain(b, <<key, o>>)]
<1>1. \A o \in Owners : f[o] \in Int
  <2>1. \A o \in Owners : <<key, o>> \in Rows
    BY DEF Rows
  <2> QED BY <2>1, GainIsInt
<1> HIDE DEF f
<1> QED BY <1>1, OwnersFinite, SumType DEF Gained, f

LEMMA AskedIsInt ==
  ASSUME NEW ms \in Seq(Moves), NEW n, NEW key
  PROVE  AskedUpTo(ms, n, key) \in Int
<1> DEFINE f == [i \in DOMAIN ms |-> Signed(ms[i])]
           T == {i \in DOMAIN ms : i < n /\ ms[i].key = key}
<1>1. IsFiniteSet(T)
  BY MovesBeforeFinite
<1>2. \A i \in T : f[i] \in Int
  <2>1. \A i \in DOMAIN ms : ms[i] \in Moves
    OBVIOUS
  <2> QED BY <2>1, SignedIsInt
<1> HIDE DEF f, T
<1> QED BY <1>1, <1>2, SumType DEF AskedUpTo, f, T

LEMMA OthersBooked ==
  ASSUME BookedInv, NEW r \in Requests, OthersStay(r), Booked(r)'
  PROVE  BookedInv'
<1>1. ASSUME NEW o \in Requests \ {r} PROVE Booked(o)'
  <2>1. /\ pc'[o] = pc[o] /\ moves'[o] = moves[o] /\ at'[o] = at[o]
        /\ doc'[o] = doc[o] /\ held'[o] = held[o] /\ buf'[o] = buf[o]
    BY DEF OthersStay
  <2>2. Booked(o)
    BY DEF BookedInv
  <2> QED
    BY <2>1, <2>2 DEF Booked, Sane, Grows, NegativeLine, CurrentMove
<1> QED
  BY <1>1 DEF BookedInv

LEMMA AnswerKeepsBooked ==
  ASSUME TypeInv, BookedInv, NEW r \in Requests, NEW how \in Answered, Answer(r, how)
  PROVE  BookedInv'
<1>1. OthersStay(r)
  BY DEF Answer, OthersStay, TypeInv, TypeOK
<1>2. pc'[r] = how /\ moves'[r] = <<>> /\ at'[r] = 1 /\ doc'[r] = Null /\ buf'[r] = NoWrites
  BY DEF Answer, TypeInv, TypeOK
<1>3. Null \notin Receipts
  BY ConstantsAssumption DEF Documents
<1>4. \A key \in Keys : Gained(NoWrites, key) = 0 /\ AskedUpTo(<<>>, 1, key) = 0
  <2>1. <<>> \in Seq(Moves)
    OBVIOUS
  <2> QED BY <2>1, NothingGained, NothingAsked
<1>5. \A key \in Keys : Enough(Gained(buf'[r], key), AskedUpTo(moves'[r], at'[r], key), doc'[r],
                               Sane(buf'[r], key, doc'[r]))
  BY <1>2, <1>3, <1>4 DEF Enough
<1>6. Booked(r)'
  BY <1>2, <1>5 DEF Booked, Answered, NoWrites, Sane, NegativeLine
<1> QED
  BY <1>1, <1>6, OthersBooked

LEMMA BeginKeepsBooked ==
  ASSUME TypeInv, BookedInv, NEW r \in Requests, NEW ms \in Seq(Moves), NEW d, Begin(r, ms, d),
         pc[r] = "idle", d \notin Receipts => \A i \in DOMAIN ms : ms[i].how # "receive"
  PROVE  BookedInv'
<1>1. OthersStay(r)
  BY DEF Begin, OthersStay, TypeInv, TypeOK
<1>2. pc'[r] = Phase(ms, 1, d) /\ moves'[r] = ms /\ at'[r] = 1 /\ doc'[r] = d /\ buf'[r] = NoWrites
  BY DEF Begin, TypeInv, TypeOK, BookedInv, Booked
<1>3. Phase(ms, 1, d) \notin {"save", "idle"}
  BY DEF Phase
<1>4. \A key \in Keys : Gained(NoWrites, key) = 0 /\ AskedUpTo(ms, 1, key) = 0
  BY NothingGained, NothingAsked
<1>5. \A key \in Keys : Enough(Gained(buf'[r], key), AskedUpTo(moves'[r], at'[r], key), doc'[r],
                               Sane(buf'[r], key, doc'[r]))
  BY <1>2, <1>4 DEF Enough
<1>6. Booked(r)'
  BY <1>2, <1>3, <1>5 DEF Booked, NoWrites, Sane, NegativeLine
<1> QED
  BY <1>1, <1>6, OthersBooked

LEMMA ArrivalsKeepBooked ==
  ASSUME TypeInv, BookedInv, NEW r \in Requests, Arrive(r)
  PROVE  BookedInv'
<1>1. CASE AdjustStock(r)
  <2> SUFFICES ASSUME NEW key \in Keys, NEW qty \in Deltas, Begin(r, <<Move("adjust", key, qty)>>, Null)
               PROVE  BookedInv'
    BY <1>1 DEF AdjustStock
  <2>1. Move("adjust", key, qty) \in Moves /\ Move("adjust", key, qty).how # "receive"
    BY ConstantsAssumption DEF Move, Moves
  <2> DEFINE ms == <<Move("adjust", key, qty)>>
  <2>2. ms \in Seq(Moves) /\ \A i \in DOMAIN ms : ms[i].how # "receive"
    BY <2>1
  <2>3. Begin(r, ms, Null) /\ pc[r] = "idle"
    BY <1>1 DEF AdjustStock
  <2> HIDE DEF ms
  <2> QED
    BY <2>2, <2>3, BeginKeepsBooked
<1>2. CASE TransferStock(r)
  <2>1. CASE Refuse(r)
    BY <2>1, AnswerKeepsBooked DEF Refuse, Answered
  <2> SUFFICES ASSUME NEW p \in Products, NEW from \in Locations, NEW to \in Locations, NEW qty \in Amounts,
                      Begin(r, <<Move("take", <<p, from>>, qty), Move("put", <<p, to>>, qty)>>, Null)
               PROVE  BookedInv'
    BY <1>2, <2>1 DEF TransferStock
  <2>2. /\ Move("take", <<p, from>>, qty) \in Moves /\ Move("put", <<p, to>>, qty) \in Moves
        /\ Move("take", <<p, from>>, qty).how # "receive" /\ Move("put", <<p, to>>, qty).how # "receive"
    BY ConstantsAssumption DEF Move, Moves, Keys
  <2> DEFINE ms == <<Move("take", <<p, from>>, qty), Move("put", <<p, to>>, qty)>>
  <2>3. ms \in Seq(Moves) /\ \A i \in DOMAIN ms : ms[i].how # "receive"
    BY <2>2
  <2>4. Begin(r, ms, Null) /\ pc[r] = "idle"
    BY <1>2 DEF TransferStock
  <2> HIDE DEF ms
  <2> QED
    BY <2>3, <2>4, BeginKeepsBooked
<1>3. ASSUME NEW d \in Documents, NEW how \in {"receive", "issue"}, how = "receive" => d \in Receipts,
             Begin(r, [i \in DOMAIN Lines[d] |-> Move(how, Lines[d][i].key, Lines[d][i].qty)], d),
             pc[r] = "idle"
      PROVE  BookedInv'
  <2> DEFINE ms == [i \in DOMAIN Lines[d] |-> Move(how, Lines[d][i].key, Lines[d][i].qty)]
  <2>1. Lines[d] \in Seq(LineItems)
    BY ConstantsAssumption
  <2>2. ASSUME NEW i \in DOMAIN Lines[d]
        PROVE  Move(how, Lines[d][i].key, Lines[d][i].qty) \in Moves
    <3>1. Lines[d][i] \in LineItems
      BY <2>1
    <3>2. Lines[d][i].key \in Keys /\ Lines[d][i].qty \in Int
      BY <3>1 DEF LineItems
    <3> QED
      BY <3>2 DEF Move, Moves
  <2>3. ms \in Seq(Moves)
    BY <2>1, <2>2
  <2>4. d \notin Receipts => \A i \in DOMAIN ms : ms[i].how # "receive"
    BY <1>3 DEF Move
  <2>5. Begin(r, ms, d) /\ pc[r] = "idle"
    BY <1>3
  <2> HIDE DEF ms
  <2> QED
    BY <2>3, <2>4, <2>5, BeginKeepsBooked
<1>4. CASE CompleteReceipt(r)
  BY <1>3, <1>4, AnswerKeepsBooked DEF CompleteReceipt, Documents, Refuse, Answered
<1>5. CASE CompleteIssue(r)
  BY <1>3, <1>5, AnswerKeepsBooked DEF CompleteIssue, Documents, Refuse, Answered
<1> QED
  BY <1>1, <1>2, <1>4, <1>5 DEF Arrive

LEMMA HoldKeepsBooked ==
  ASSUME TypeInv, BookedInv, NEW r \in Requests, NEW row \in Rows, NEW qty \in Int,
         pc[r] = "read", Hold(r, row, qty),
         Enough(qty - OrZero(Sees(r, row)), Signed(CurrentMove(r)), doc[r], OrZero(Sees(r, row)) >= 0),
         Grows(OrZero(Sees(r, row)), qty, row[1], doc[r])
  PROVE  BookedInv'
<1>1. OthersStay(r)
  BY DEF Hold, OthersStay, TypeInv, TypeOK
<1>2. /\ pc'[r] = "save" /\ held'[r].row = row /\ held'[r].qty = qty
      /\ held'[r].base = OrZero(Sees(r, row))
  BY DEF Hold, TypeInv, TypeOK
<1>3. UNCHANGED <<moves, at, doc, buf>>
  BY DEF Hold
<1>4. buf[r][row] # Null => OrZero(Sees(r, row)) = buf[r][row].qty
  BY ConstantsAssumption DEF OrZero, Sees, TypeInv, TypeOK, Writes
<1>5. Booked(r)
  BY DEF BookedInv
<1>6. Booked(r)'
  BY <1>2, <1>3, <1>4, <1>5 DEF Booked, CurrentMove, Sane, Grows, NegativeLine
<1> QED
  BY <1>1, <1>6, OthersBooked

\* Appending the digits of a line to a quantity adds the line at least, provided the
\* quantity is not negative.
LEMMA ShiftedIsLarger ==
  ASSUME NEW q \in Nat, NEW l \in Int, l < 10000
  PROVE  Concatenated(q, l) - q >= l
<1> DEFINE s == Shift(l)
<1>1. s \in Nat \ {0}
  BY ShiftIsPositive
<1> HIDE DEF s
<1>2. \E k \in Nat : s = k + 1
  BY <1>1
<1>3. PICK k \in Nat : s = k + 1
  BY <1>2
<1>4. q * s = q * k + q /\ q * k \in Nat
  BY <1>3
<1>5. Concatenated(q, l) = q * s + l
  BY DEF Concatenated, s
<1> QED BY <1>4, <1>5

LEMMA LookupsKeepBooked ==
  ASSUME TypeInv, NegativeInv, BookedInv, NEW r \in Requests,
         \/ AdjustQuant(r) \/ TakeFromSource(r) \/ PutToDestination(r)
         \/ ReceiveLine(r) \/ IssueLine(r)
  PROVE  BookedInv'
<1> DEFINE m == CurrentMove(r)
<1>1. ASSUME NEW how, AtMove(r, how)
      PROVE  /\ pc[r] = "read" /\ m.how = how
             /\ m.key \in Keys /\ m.qty \in Int /\ <<m.key, r>> \in Rows
             /\ how = "receive" => m.qty < 10000 /\ doc[r] \in Receipts
             /\ how = "receive" /\ m.qty < 0 => NegativeLine(doc[r], m.key)
             /\ how \in {"take", "put"} => m.qty >= 0
             /\ \A row \in VisibleRows(r, m.key) :
                  /\ row \in Rows /\ row[1] = m.key
                  /\ Sees(r, row) \in Int /\ OrZero(Sees(r, row)) = Sees(r, row)
             /\ VisibleRows(r, m.key) = {} => OrZero(Sees(r, <<m.key, r>>)) = 0
  <2>1. at[r] \in DOMAIN moves[r] /\ m = moves[r][at[r]] /\ m.how = how
    BY <1>1 DEF TypeInv, TypeOK, AtMove, CurrentMove
  <2>2. how = "receive" => doc[r] \in Receipts
    BY <2>1 DEF BookedInv, Booked
  <2>3. \A row \in VisibleRows(r, m.key) : row \in Rows /\ row[1] = m.key /\ Sees(r, row) # Null
    BY DEF VisibleRows
  <2>4. \A row \in VisibleRows(r, m.key) : OrZero(Sees(r, row)) = Sees(r, row)
    BY <2>3 DEF OrZero
  <2>5. /\ m.key \in Keys /\ m.qty \in Int /\ <<m.key, r>> \in Rows /\ pc[r] = "read"
        /\ how = "receive" => m.qty < 10000
        /\ \A row \in VisibleRows(r, m.key) : Sees(r, row) \in Int
    BY <1>1, AtMoveFacts, NewRow
  <2>6. VisibleRows(r, m.key) = {} => Sees(r, <<m.key, r>>) = Null
    <3>1. <<m.key, r>>[1] = m.key
      OBVIOUS
    <3> HIDE DEF m
    <3> QED BY <2>5, <3>1 DEF VisibleRows
  <2>7. SoundMove(m, doc[r])
    BY <2>1 DEF NegativeInv, Sound, SoundMoves
  <2>8. /\ how = "receive" /\ m.qty < 0 => NegativeLine(doc[r], m.key)
        /\ how \in {"take", "put"} => m.qty >= 0
    BY <2>1, <2>7 DEF SoundMove
  <2> HIDE DEF m
  <2> QED
    BY <2>1, <2>2, <2>3, <2>4, <2>5, <2>6, <2>8 DEF OrZero
<1>2. Signed(m) = IF m.how \in {"take", "issue"} THEN -m.qty ELSE m.qty
  BY DEF Signed
<1>3. CASE Refuse(r)
  BY <1>3, AnswerKeepsBooked DEF Refuse, Answered
<1>4. ASSUME NEW row \in Rows, NEW qty \in Int, pc[r] = "read", Hold(r, row, qty),
             \/ qty - OrZero(Sees(r, row)) = Signed(m)
             \/ /\ doc[r] \in Receipts
                /\ OrZero(Sees(r, row)) >= 0 => qty - OrZero(Sees(r, row)) >= Signed(m),
             Grows(OrZero(Sees(r, row)), qty, row[1], doc[r])
      PROVE  BookedInv'
  <2>1. Signed(m) \in Int /\ OrZero(Sees(r, row)) \in Int
    <3>1. OrZero(Sees(r, row)) \in Int
      BY DEF OrZero, Sees, TypeInv, TypeOK, Writes
    <3>2. m \in Moves
      BY <1>4 DEF TypeInv, TypeOK, CurrentMove
    <3> QED BY <3>1, <3>2, SignedIsInt
  <2>2. Enough(qty - OrZero(Sees(r, row)), Signed(m), doc[r], OrZero(Sees(r, row)) >= 0)
    BY <1>4, <2>1 DEF Enough
  <2> QED BY <1>4, <2>2, HoldKeepsBooked
<1> HIDE DEF m
<1>5. CASE AdjustQuant(r)
  <2>1. \/ Refuse(r)
        \/ \E row \in VisibleRows(r, m.key) :
             Sees(r, row) + m.qty >= 0 /\ Hold(r, row, Sees(r, row) + m.qty)
        \/ VisibleRows(r, m.key) = {} /\ m.qty >= 0 /\ Hold(r, <<m.key, r>>, m.qty)
    BY <1>5 DEF AdjustQuant, HoldNew, m
  <2>2. AtMove(r, "adjust")
    BY <1>5 DEF AdjustQuant
  <2> QED
    BY <1>1, <1>2, <1>3, <1>4, <2>1, <2>2 DEF Grows
<1>6. CASE PutToDestination(r)
  <2>1. \/ \E row \in VisibleRows(r, m.key) : Hold(r, row, Sees(r, row) + m.qty)
        \/ VisibleRows(r, m.key) = {} /\ Hold(r, <<m.key, r>>, m.qty)
    BY <1>6 DEF PutToDestination, HoldNew, m
  <2>2. AtMove(r, "put")
    BY <1>6 DEF PutToDestination
  <2> QED
    BY <1>1, <1>2, <1>4, <2>1, <2>2 DEF Grows
<1>7. CASE TakeFromSource(r) \/ IssueLine(r)
  <2>1. \/ Refuse(r)
        \/ \E row \in VisibleRows(r, m.key) :
             Sees(r, row) >= m.qty /\ Hold(r, row, Sees(r, row) - m.qty)
    BY <1>7 DEF TakeFromSource, IssueLine, m
  <2>2. AtMove(r, "take") \/ AtMove(r, "issue")
    BY <1>7 DEF TakeFromSource, IssueLine
  <2> QED
    BY <1>1, <1>2, <1>3, <1>4, <2>1, <2>2 DEF Grows
<1>8. CASE ReceiveLine(r)
  <2>1. \/ Refuse(r)
        \/ \E row \in VisibleRows(r, m.key) :
             m.qty >= 0 /\ Hold(r, row, Concatenated(Sees(r, row), m.qty))
        \/ VisibleRows(r, m.key) = {} /\ Hold(r, <<m.key, r>>, m.qty)
    BY <1>8 DEF ReceiveLine, HoldNew, m
  <2>2. AtMove(r, "receive")
    BY <1>8 DEF ReceiveLine
  <2>3. ASSUME NEW row \in VisibleRows(r, m.key), m.qty >= 0
        PROVE  /\ Concatenated(Sees(r, row), m.qty) \in Int
               /\ Sees(r, row) >= 0 => /\ Concatenated(Sees(r, row), m.qty) - Sees(r, row) >= m.qty
                                       /\ Concatenated(Sees(r, row), m.qty) >= 0
    <3>1. Sees(r, row) \in Int /\ m.qty \in Nat /\ m.qty < 10000
      BY <1>1, <2>2, <2>3
    <3>2. CASE Sees(r, row) >= 0
      BY <3>1, <3>2, ConcatenatedIsNat, ShiftedIsLarger
    <3>3. CASE Sees(r, row) < 0
      BY <3>1, <3>3, ConcatenatedIsInt
    <3> QED BY <3>1, <3>2, <3>3
  <2>4. Signed(m) = m.qty
    BY <1>1, <1>2, <2>2
  <2>5. ASSUME NEW row \in VisibleRows(r, m.key), m.qty >= 0,
               Hold(r, row, Concatenated(Sees(r, row), m.qty))
        PROVE  BookedInv'
    <3>1. row \in Rows /\ pc[r] = "read" /\ doc[r] \in Receipts /\ OrZero(Sees(r, row)) = Sees(r, row)
      BY <1>1, <2>2
    <3>2. Grows(OrZero(Sees(r, row)), Concatenated(Sees(r, row), m.qty), row[1], doc[r])
      BY <2>3, <2>5, <3>1 DEF Grows
    <3> QED
      BY <1>4, <2>3, <2>4, <2>5, <3>1, <3>2
  <2>6. ASSUME VisibleRows(r, m.key) = {}, Hold(r, <<m.key, r>>, m.qty)
        PROVE  BookedInv'
    <3>1. Grows(0, m.qty, m.key, doc[r])
      BY <1>1, <2>2 DEF Grows
    <3> QED
      BY <1>1, <1>4, <2>2, <2>4, <2>6, <3>1
  <2> QED
    BY <1>3, <2>1, <2>5, <2>6
<1> QED
  BY <1>5, <1>6, <1>7, <1>8

LEMMA SaveQuantKeepsBooked ==
  ASSUME TypeInv, ProgressInv, BookedInv, NEW r \in Requests, SaveQuant(r)
  PROVE  BookedInv'
<1> DEFINE e == held[r].row
           b == buf[r]
           w == [qty |-> held[r].qty, base |-> IF b[e] = Null THEN held[r].base ELSE b[e].base]
           c == [b EXCEPT ![e] = w]
           m == moves[r][at[r]]
<1>1. /\ pc[r] = "save" /\ at[r] \in DOMAIN moves[r] /\ moves[r] \in Seq(Moves)
      /\ held[r] \in Entities /\ e \in Rows /\ e[1] = m.key /\ e[1] \in Keys
  BY DEF SaveQuant, TypeInv, TypeOK, ProgressInv, Progress, CurrentMove, Entities, Rows
<1>2. w \in Writes /\ b \in [Rows -> Writes \cup {Null}]
  BY <1>1 DEF TypeInv, TypeOK, Entities, Writes
<1>3. /\ buf' = [buf EXCEPT ![r] = c]
      /\ pc' = [pc EXCEPT ![r] = Phase(moves[r], at[r] + 1, doc[r])]
      /\ at' = [at EXCEPT ![r] = at[r] + 1] /\ held' = [held EXCEPT ![r] = Null]
      /\ UNCHANGED <<moves, doc>>
  BY DEF SaveQuant, TypeInv, TypeOK
<1>4. OthersStay(r)
  BY <1>3 DEF OthersStay, TypeInv, TypeOK
<1>5. /\ buf'[r] = c /\ at'[r] = at[r] + 1 /\ moves'[r] = moves[r] /\ doc'[r] = doc[r]
      /\ pc'[r] \notin {"save", "idle"}
  <2>1. Phase(moves[r], at[r] + 1, doc[r]) \notin {"save", "idle"}
    BY DEF Phase
  <2> QED BY <1>3, <2>1 DEF TypeInv, TypeOK
<1>6. /\ Enough(held[r].qty - held[r].base, Signed(m), doc[r], held[r].base >= 0)
      /\ Grows(held[r].base, held[r].qty, e[1], doc[r])
      /\ b[e] # Null => held[r].base = b[e].qty
  BY <1>1 DEF BookedInv, Booked, CurrentMove
<1>7. Gain(c, e) - Gain(b, e) = held[r].qty - held[r].base
  <2>1. c[e] = w /\ w # Null
    BY <1>1, <1>2, ConstantsAssumption DEF Writes
  <2>2. Gain(c, e) = w.qty - w.base
    BY <2>1 DEF Gain
  <2>3. held[r].qty \in Int /\ held[r].base \in Int
    BY <1>1 DEF Entities
  <2>4. CASE b[e] = Null
    BY <2>2, <2>3, <2>4 DEF Gain
  <2>5. CASE b[e] # Null
    <3>1. b[e] \in Writes /\ b[e].qty = held[r].base
      BY <1>1, <1>2, <1>6, <2>5
    <3>2. b[e].base \in Int
      BY <3>1 DEF Writes
    <3>3. Gain(b, e) = held[r].base - b[e].base /\ Gain(c, e) = held[r].qty - b[e].base
      BY <2>2, <2>5, <3>1 DEF Gain
    <3> QED BY <2>3, <3>2, <3>3
  <2> QED BY <2>4, <2>5
<1>10. \A row \in Rows : c[row] # Null => Grows(c[row].base, c[row].qty, row[1], doc[r])
  <2>1. c[e] = w /\ \A row \in Rows \ {e} : c[row] = b[row]
    BY <1>1, <1>2
  <2>2. \A row \in Rows : b[row] # Null => Grows(b[row].base, b[row].qty, row[1], doc[r])
    BY DEF BookedInv, Booked
  <2>3. Grows(w.base, w.qty, e[1], doc[r])
    <3>1. CASE b[e] = Null
      BY <1>6, <3>1
    <3>2. CASE b[e] # Null
      <4>1. Grows(b[e].base, b[e].qty, e[1], doc[r]) /\ held[r].base = b[e].qty
        BY <1>1, <1>6, <2>2, <3>2
      <4> QED BY <1>6, <3>2, <4>1 DEF Grows
    <3> QED BY <3>1, <3>2
  <2> HIDE DEF c, w
  <2> QED BY <2>1, <2>2, <2>3
\* If the writes start from nothing negative, so did those before, and so does this one.
<1>11. ASSUME NEW key \in Keys, Sane(c, key, doc[r]), doc[r] \in Receipts
       PROVE  Sane(b, key, doc[r]) /\ (e[1] = key => held[r].base >= 0)
  <2>1. c[e] = w /\ w # Null /\ \A row \in Rows \ {e} : c[row] = b[row]
    BY <1>1, <1>2, ConstantsAssumption DEF Writes
  <2>2. ASSUME NEW o \in Owners, b[<<key, o>>] # Null PROVE b[<<key, o>>].base >= 0
    <3>1. <<key, o>> \in Rows
      BY DEF Rows
    <3>2. CASE <<key, o>> = e
      <4>1. w.base = b[e].base /\ w.base >= 0
        BY <1>11, <2>1, <2>2, <3>2 DEF Sane
      <4> QED BY <3>2, <4>1
    <3>3. CASE <<key, o>> # e
      BY <1>11, <2>1, <2>2, <3>1, <3>3 DEF Sane
    <3> QED BY <3>2, <3>3
  <2>3. ASSUME e[1] = key PROVE held[r].base >= 0
    <3>1. PICK o \in Owners : e = <<key, o>>
      BY <1>1, <2>3 DEF Rows
    <3>2. w.base >= 0 /\ ~NegativeLine(doc[r], key)
      BY <1>11, <2>1, <3>1 DEF Sane
    <3>3. CASE b[e] = Null
      BY <3>2, <3>3
    <3>4. CASE b[e] # Null
      <4>1. Grows(b[e].base, b[e].qty, e[1], doc[r])
        BY <1>1, <3>4 DEF BookedInv, Booked
      <4> QED BY <1>6, <1>11, <2>3, <3>2, <3>4, <4>1 DEF Grows
    <3> QED BY <3>3, <3>4
  <2> QED
    BY <1>11, <2>2, <2>3 DEF Sane
<1>8. ASSUME NEW key \in Keys
      PROVE  Enough(Gained(c, key), AskedUpTo(moves[r], at[r] + 1, key), doc[r], Sane(c, key, doc[r]))
  <2> DEFINE gain == IF e[1] = key THEN Gain(c, e) - Gain(b, e) ELSE 0
             asked == IF m.key = key THEN Signed(m) ELSE 0
  <2>1. Gained(c, key) = Gained(b, key) + gain
    BY <1>1, <1>2, GainedNext
  <2>2. AskedUpTo(moves[r], at[r] + 1, key) = AskedUpTo(moves[r], at[r], key) + asked
    BY <1>1, AskedNext
  <2>3. Enough(Gained(b, key), AskedUpTo(moves[r], at[r], key), doc[r], Sane(b, key, doc[r]))
    BY DEF BookedInv, Booked
  <2>4. Enough(gain, asked, doc[r], e[1] = key => held[r].base >= 0)
    BY <1>1, <1>6, <1>7 DEF Enough
  <2>9. doc[r] \in Receipts /\ Sane(c, key, doc[r]) =>
          Sane(b, key, doc[r]) /\ (e[1] = key => held[r].base >= 0)
    BY <1>11
  <2>5. Gained(b, key) \in Int
    BY <1>2, GainedIsInt
  <2>6. AskedUpTo(moves[r], at[r], key) \in Int
    BY <1>1, AskedIsInt
  <2>7. asked \in Int
    <3>1. m \in Moves
      BY <1>1
    <3> QED BY <3>1, SignedIsInt
  <2>8. gain \in Int
    <3>1. held[r].qty \in Int /\ held[r].base \in Int
      BY <1>1 DEF Entities
    <3> QED BY <1>7, <3>1
  <2> HIDE DEF gain, asked, c, b, m
  <2> QED
    BY <2>1, <2>2, <2>3, <2>4, <2>5, <2>6, <2>7, <2>8, <2>9 DEF Enough
<1>9. Booked(r)'
  <2> HIDE DEF c, m
  <2>1. \A key \in Keys : Enough(Gained(buf'[r], key), AskedUpTo(moves'[r], at'[r], key), doc'[r],
                                 Sane(buf'[r], key, doc'[r]))
    BY <1>5, <1>8
  <2>3. \A row \in Rows : buf'[r][row] # Null =>
          Grows(buf'[r][row].base, buf'[r][row].qty, row[1], doc'[r])
    BY <1>5, <1>10
  <2>2. doc'[r] \notin Receipts => \A i \in DOMAIN moves'[r] : moves'[r][i].how # "receive"
    BY <1>5 DEF BookedInv, Booked
  <2> QED
    BY <1>5, <2>1, <2>2, <2>3 DEF Booked, Sane, Grows, NegativeLine
<1> QED
  BY <1>4, <1>9, OthersBooked

LEMMA SaveDocumentKeepsBooked ==
  ASSUME TypeInv, BookedInv, NEW r \in Requests, SaveDocument(r)
  PROVE  BookedInv'
<1>1. /\ pc' = [pc EXCEPT ![r] = "commit"] /\ UNCHANGED <<moves, at, doc, held, buf>>
  BY DEF SaveDocument
<1>2. OthersStay(r) /\ pc'[r] = "commit"
  BY <1>1 DEF OthersStay, TypeInv, TypeOK
<1>3. Booked(r)'
  BY <1>1, <1>2 DEF BookedInv, Booked, Sane, Grows, NegativeLine
<1> QED
  BY <1>2, <1>3, OthersBooked

LEMMA BookedStep ==
  ASSUME TypeInv, NegativeInv, ProgressInv, BookedInv, [Next]_vars
  PROVE  BookedInv'
<1>1. ASSUME NEW r \in Requests, Step(r) PROVE BookedInv'
  BY <1>1, LookupsKeepBooked, SaveQuantKeepsBooked, SaveDocumentKeepsBooked, AnswerKeepsBooked
  DEF Step, Commit, Answered
<1>2. ASSUME NEW r \in Requests, DeadlockAbort(r) PROVE BookedInv'
  BY <1>2, AnswerKeepsBooked DEF DeadlockAbort, Answered
<1>3. CASE ServerCrash
  <2>1. ASSUME NEW r \in Requests PROVE Booked(r)'
    <3>1. moves'[r] = <<>> /\ at'[r] = 1 /\ doc'[r] = Null /\ buf'[r] = NoWrites /\ pc'[r] # "save"
      BY <1>3 DEF ServerCrash, TypeInv, TypeOK, Working
    <3>2. <<>> \in Seq(Moves) /\ Null \notin Receipts
      BY ConstantsAssumption DEF Documents
    <3>3. \A key \in Keys : Enough(Gained(buf'[r], key), AskedUpTo(moves'[r], at'[r], key), doc'[r],
                                   Sane(buf'[r], key, doc'[r]))
      BY <3>1, <3>2, NothingGained, NothingAsked DEF Enough
    <3> QED
      BY <3>1, <3>3 DEF Booked, NoWrites, Sane, NegativeLine
  <2> QED
    BY <2>1 DEF BookedInv
<1>4. CASE UNCHANGED vars
  BY <1>4 DEF vars, BookedInv, Booked, Sane, Grows, NegativeLine, CurrentMove
<1> QED
  BY <1>1, <1>2, <1>3, <1>4, ArrivalsKeepBooked DEF Next, Settled

\* What a commit does to the stock of a pair is what its writes gained, when they
\* overwrite nothing that has changed since it was read.
LEMMA CommitBooksGains ==
  ASSUME TypeInv, NEW r \in Requests, Commit(r), Fresh(r), NEW key \in Keys
  PROVE  OnHand(quants', key) - OnHand(quants, key) = Gained(buf[r], key)
<1> DEFINE f == [o \in Owners |-> OrZero(quants'[<<key, o>>])]
           g == [o \in Owners |-> OrZero(quants[<<key, o>>])]
           h == [o \in Owners |-> Gain(buf[r], <<key, o>>)]
<1>1. ASSUME NEW o \in Owners
      PROVE  f[o] \in Int /\ g[o] \in Int /\ h[o] = f[o] - g[o]
  <2> DEFINE row == <<key, o>>
  <2>1. row \in Rows
    BY DEF Rows
  <2>2. quants'[row] = Sees(r, row)
    BY <2>1 DEF Commit
  <2>3. f[o] = OrZero(Sees(r, row)) /\ g[o] = OrZero(quants[row]) /\ h[o] = Gain(buf[r], row)
    BY <2>2
  <2> HIDE DEF row, f, g, h
  <2>4. OrZero(quants[row]) \in Int /\ OrZero(Sees(r, row)) \in Int
    BY <2>1 DEF TypeInv, TypeOK, OrZero, Sees, Writes
  <2>5. CASE buf[r][row] = Null
    BY <2>3, <2>4, <2>5 DEF Sees, Gain
  <2>6. CASE buf[r][row] # Null
    <3>1. OrZero(quants[row]) = buf[r][row].base
      BY <2>1, <2>6 DEF Fresh, Overwrites
    <3>2. buf[r][row].qty \in Int
      BY <2>1, <2>6 DEF TypeInv, TypeOK, Writes
    <3>3. OrZero(Sees(r, row)) = buf[r][row].qty
      BY <2>6, <3>2, ConstantsAssumption DEF Sees, OrZero
    <3> QED
      BY <2>3, <2>4, <2>6, <3>1, <3>3 DEF Gain
  <2> QED
    BY <2>5, <2>6
<1>2. DOMAIN f = Owners /\ DOMAIN g = Owners
  OBVIOUS
<1>3. OnHand(quants', key) = SumFunctionOnSet(f, Owners) /\ OnHand(quants, key) = SumFunctionOnSet(g, Owners)
  BY <1>2 DEF OnHand, SumFunction
<1> HIDE DEF f, g, h
<1>4. SumFunctionOnSet(h, Owners) = SumFunctionOnSet(f, Owners) - SumFunctionOnSet(g, Owners)
  BY <1>1, OwnersFinite, SumMinus
<1> QED
  BY <1>3, <1>4 DEF Gained, h

\* At a commit the movements written are all there are.
LEMMA AllAsked ==
  ASSUME ProgressInv, NEW r \in Requests, pc[r] = "commit", NEW key
  PROVE  AskedUpTo(moves[r], at[r], key) = Asked(r, key)
<1>1. \A i \in DOMAIN moves[r] : i < at[r]
  BY DEF ProgressInv, Progress
<1>2. {i \in DOMAIN moves[r] : i < at[r] /\ moves[r][i].key = key}
        = {i \in DOMAIN moves[r] : moves[r][i].key = key}
  BY <1>1
<1> QED
  BY <1>2 DEF AskedUpTo, Asked

\* The committed stock changes only when a request commits, and then, pair by pair,
\* by all that its movements ask for, for any number of requests, rows, documents
\* and lines of any sign: adjustStock, transferStock and completeIssue never commit
\* a part of what they were asked, nor more of it.  completeReceipt commits no less
\* than its lines for each pair that has no negative quantity and none of its
\* negative lines; of the others the theorem says nothing.
THEOREM WholeRequestsMoveStock == Spec => StockMovesByWholeRequests
<1> DEFINE Whole ==
      quants' # quants =>
        \E r \in Requests :
          /\ Commits(r)
          /\ Fresh(r) =>
               \A key \in Keys :
                 LET change == OnHand(quants', key) - OnHand(quants, key) IN
                 IF doc[r] \in Receipts THEN BooksAtLeast(doc[r], key) => change >= Asked(r, key)
                                        ELSE change = Asked(r, key)
<1>1. Init => BookedInv
  <2> SUFFICES ASSUME Init, NEW r \in Requests PROVE Booked(r)
    BY DEF BookedInv
  <2>1. moves[r] = <<>> /\ at[r] = 1 /\ doc[r] = Null /\ buf[r] = NoWrites /\ pc[r] = "idle"
    BY DEF Init
  <2>2. <<>> \in Seq(Moves) /\ Null \notin Receipts
    BY ConstantsAssumption DEF Documents
  <2>3. \A key \in Keys : Enough(Gained(buf[r], key), AskedUpTo(moves[r], at[r], key), doc[r],
                                 Sane(buf[r], key, doc[r]))
    BY <2>1, <2>2, NothingGained, NothingAsked DEF Enough
  <2> QED
    BY <2>1, <2>3 DEF Booked, NoWrites
<1>2. TypeInv /\ NegativeInv /\ ProgressInv /\ BookedInv /\ [Next]_vars => BookedInv'
  BY BookedStep
<1>3. TypeInv /\ ProgressInv /\ BookedInv /\ [Next]_vars => [Whole]_vars
  <2> SUFFICES ASSUME TypeInv, ProgressInv, BookedInv, [Next]_vars, quants' # quants
               PROVE  Whole
    OBVIOUS
  <2>1. PICK r \in Requests : Commit(r) /\ Commits(r)
    BY OnlyCommitsChangeTables
  <2>2. ASSUME Fresh(r), NEW key \in Keys
        PROVE  Enough(OnHand(quants', key) - OnHand(quants, key), Asked(r, key), doc[r],
                      BooksAtLeast(doc[r], key))
    <3>1. OnHand(quants', key) - OnHand(quants, key) = Gained(buf[r], key)
      BY <2>1, <2>2, CommitBooksGains
    <3>2. AskedUpTo(moves[r], at[r], key) = Asked(r, key)
      BY <2>1, AllAsked DEF Commit
    \* What was read of the pair is what is there still, and that is not negative.
    <3>3. ASSUME BooksAtLeast(doc[r], key) PROVE Sane(buf[r], key, doc[r])
      <4>1. ASSUME NEW o \in Owners, buf[r][<<key, o>>] # Null
            PROVE  buf[r][<<key, o>>].base >= 0
        <5>1. <<key, o>> \in Rows
          BY DEF Rows
        <5>2. OrZero(quants[<<key, o>>]) = buf[r][<<key, o>>].base
          BY <2>2, <4>1, <5>1 DEF Fresh, Overwrites
        <5>3. OrZero(quants[<<key, o>>]) >= 0
          BY <3>3, <5>1 DEF BooksAtLeast, NegativeRow, OrZero, TypeInv, TypeOK
        <5> QED BY <5>2, <5>3
      <4> QED BY <3>3, <4>1 DEF Sane, BooksAtLeast
    <3>4. Enough(Gained(buf[r], key), AskedUpTo(moves[r], at[r], key), doc[r], Sane(buf[r], key, doc[r]))
      BY DEF BookedInv, Booked
    <3> QED
      BY <3>1, <3>2, <3>3, <3>4 DEF Enough
  <2> QED
    BY <2>1, <2>2 DEF Enough
<1>4. Spec => []NegativeInv
  BY NegativeInvariant
<1>5. Spec => []ProgressInv
  BY ProgressInvariant
<1> QED
  BY <1>1, <1>2, <1>3, <1>4, <1>5, TypeInvariant, PTL DEF Spec, StockMovesByWholeRequests
===============================================================================
