-------------------------- MODULE CentralBankProofs --------------------------
(***************************************************************************)
(* Type correctness of the bank, that no balance is overdrawn by more than *)
(* was entered, and how far accounts and ledger can drift apart, for any   *)
(* number of copies of the program, accounts and amounts.                  *)
(***************************************************************************)
EXTENDS CentralBank, FiniteSetTheorems, TLAPS

Many == Cardinality(Proc) > 1

\* A copy that finds the database busy is not the only one.
LEMMA TwoAreMany == ASSUME NEW p \in Proc, NEW q \in Proc, p # q
                    PROVE  Many
<1>1. {p, q} \subseteq Proc /\ IsFiniteSet(Proc)
  BY BankAssumption
<1>2. Cardinality({p, q}) = 2
  <2>1. IsFiniteSet({p}) /\ Cardinality({p}) = 1
    BY FS_Singleton
  <2>2. Cardinality({p} \cup {q}) = Cardinality({p}) + 1
    BY <2>1, FS_AddElement
  <2>3. {p, q} = {p} \cup {q}
    OBVIOUS
  <2>4. QED
    BY <2>1, <2>2, <2>3
<1>3. Cardinality({p, q}) <= Cardinality(Proc)
  BY <1>1, FS_Subset
<1>4. Cardinality(Proc) \in Nat
  BY <1>1, FS_CardinalityType
<1>5. QED
  BY <1>2, <1>3, <1>4 DEF Many

LEMMA BusyMany == ASSUME NEW p \in Proc, Busy(p) PROVE Many
BY TwoAreMany DEF Busy

-----------------------------------------------------------------------------
\* What an operation holds.
LEMMA OpParts ==
  ASSUME NEW o \in Op
  PROVE  /\ o.from \in Acct /\ o.to \in Acct /\ o.type \in Types
         /\ o.amount \in Amount /\ o.amount \in Int
BY BankAssumption DEF Op

LEMMA EntryInt == ASSUME NEW o \in Op, NEW a \in Acct PROVE Entry(o, a) \in Int
<1>1. o.amount \in Int
  BY OpParts
<1>2. CASE o.type = "deposit"
  BY <1>1, <1>2 DEF Entry
<1>3. CASE o.type = "withdraw"
  BY <1>1, <1>3 DEF Entry
<1>4. CASE o.type # "deposit" /\ o.type # "withdraw"
  <2>1. Entry(o, a) = (IF a = o.to THEN o.amount ELSE 0)
                      - (IF a = o.from THEN o.amount ELSE 0)
    BY <1>4 DEF Entry
  <2>2. /\ (IF a = o.to THEN o.amount ELSE 0) \in Int
        /\ (IF a = o.from THEN o.amount ELSE 0) \in Int
    BY <1>1
  <2>3. QED
    BY <2>1, <2>2
<1>5. QED
  BY <1>2, <1>3, <1>4

\* What account_get_balance returns is a number.
LEMMA BalancesInt ==
  ASSUME TypeOK, NEW p \in Proc, NEW a \in Acct
  PROVE  Balances(p, a) \subseteq Int
BY BankAssumption DEF TypeOK, Balances, Missing

LEMMA InsideNames ==
  /\ "off" \notin Inside /\ "prompt" \notin Inside
  /\ \A o \in Op : o # NoOp
<1>1. "off" \notin Inside /\ "prompt" \notin Inside
  BY DEF Inside
<1>2. ASSUME NEW o \in Op PROVE o # NoOp
  <2>1. o.type \in Types /\ NoOp.type = "none"
    BY DEF Op, NoOp
  <2>2. QED
    BY <2>1 DEF Types
<1>3. QED
  BY <1>1, <1>2

LEMMA InitTypeOK == Init => TypeOK
<1> SUFFICES ASSUME Init PROVE TypeOK
  OBVIOUS
<1>1. pc \in [Proc -> Inside \cup {"off", "prompt"}] /\ op \in [Proc -> Op \cup {NoOp}]
  BY DEF Init
<1>2. \A p \in Proc : pc[p] \in Inside <=> op[p] # NoOp
  BY InsideNames DEF Init
<1>3. ops \in 0..MaxOps /\ kills \in 0..MaxKills
  BY BankAssumption DEF Init
<1>4. /\ bal \in [Acct -> Int] /\ booked \in [Acct -> Int]
      /\ opening \in [Acct -> Int] /\ seen \in [Proc -> Int]
      /\ debt \in [Acct -> Nat]
  BY DEF Init
<1>5. QED
  BY <1>1, <1>2, <1>3, <1>4 DEF Init, TypeOK

\* An update leaves numbers.
LEMMA UpdateTypes ==
  ASSUME TypeOK, NEW p \in Proc, NEW a \in Acct, NEW b \in Int, NEW m \in Int,
         Update(p, a, b, m)
  PROVE  /\ bal' \in [Acct -> Int] /\ \A c \in Acct \ open : bal'[c] = 0
         /\ debt' \in [Acct -> Nat]
<1>1. (IF m < 0 THEN Size(m) ELSE 0) \in Nat
  BY DEF Size
<1>2. CASE a \in open /\ bal' = [bal EXCEPT ![a] = b]
           /\ debt' = [debt EXCEPT ![a] = @ + (IF m < 0 THEN Size(m) ELSE 0)]
  BY <1>1, <1>2 DEF TypeOK
<1>3. CASE bal' = bal /\ debt' = debt
  BY <1>3 DEF TypeOK
<1>4. QED
  BY <1>2, <1>3 DEF Update

LEMMA StepTypeOK == TypeOK /\ [Next]_vars => TypeOK'
<1> SUFFICES ASSUME TypeOK, [Next]_vars PROVE TypeOK'
  OBVIOUS
<1> USE BankAssumption, InsideNames
<1>1. CASE UNCHANGED vars
  BY <1>1 DEF vars, TypeOK
<1>2. ASSUME NEW p \in Proc, Step(p) PROVE TypeOK'
  <2>0. pc[p] \in Inside => op[p] \in Op
    BY DEF TypeOK
  <2>1. CASE \E a \in Acct : Create(p, a)
    <3>1. PICK a \in Acct : Create(p, a)
      BY <2>1
    <3>2. ops' \in 0..MaxOps
      BY <3>1 DEF Create, TypeOK
    <3>3. opening' \in [Acct -> Int]
      BY <3>1 DEF Create, TypeOK, bank
    <3>4. QED
      BY <3>1, <3>2, <3>3 DEF Create, TypeOK, bank
  <2>2. CASE \E o \in Op : Choose(p, o)
    <3>1. PICK o \in Op : Choose(p, o)
      BY <2>2
    <3>2. ops' \in 0..MaxOps
      BY <3>1 DEF Choose, TypeOK
    <3>3. pc' \in [Proc -> Inside \cup {"off", "prompt"}] /\ pc'[p] \in Inside
      BY <3>1 DEF Choose, TypeOK, GoTo, Inside
    <3>4. op' \in [Proc -> Op \cup {NoOp}] /\ op'[p] = o
      BY <3>1 DEF Choose, TypeOK
    <3>5. \A q \in Proc : pc'[q] \in Inside <=> op'[q] # NoOp
      BY <3>1, <3>3, <3>4 DEF Choose, TypeOK, GoTo
    <3>6. QED
      BY <3>1, <3>2, <3>3, <3>4, <3>5 DEF Choose, TypeOK
  <2>3. CASE Read(p)
    <3>1. PICK b \in Balances(p, op[p].from) :
             IF Covered(op[p], b)
               THEN /\ seen' = [seen EXCEPT ![p] = b]
                    /\ GoTo(p, "write") /\ UNCHANGED op
               ELSE Leave(p, "prompt")
      BY <2>3 DEF Read
    <3>2. op[p] \in Op /\ b \in Int /\ pc[p] \in Inside
      <4>1. pc[p] \in Inside
        BY <2>3 DEF Read, Inside
      <4>2. op[p].from \in Acct
        BY <4>1, <2>0 DEF Op
      <4>3. QED
        BY <4>1, <4>2, <2>0, BalancesInt
    <3>3. CASE Covered(op[p], b)
      BY <2>3, <3>1, <3>2, <3>3 DEF Read, GoTo, TypeOK, Inside
    <3>4. CASE ~Covered(op[p], b)
      BY <2>3, <3>1, <3>2, <3>4 DEF Read, Leave, GoTo, TypeOK
    <3>5. QED
      BY <3>3, <3>4
  <2>4. CASE Write(p)
    <3>1. op[p].from \in Acct /\ op[p].amount \in Int
      BY <2>4, <2>0, OpParts DEF Write, Inside
    <3>2. /\ bal' \in [Acct -> Int] /\ \A a \in Acct \ open : bal'[a] = 0
          /\ debt' \in [Acct -> Nat]
      <4>1. After(op[p], seen[p]) \in Int
        BY <3>1 DEF After, TypeOK
      <4>2. (IF op[p].type = "deposit" THEN op[p].amount ELSE 0) \in Int
        BY <3>1
      <4>3. QED
        BY <2>4, <3>1, <4>1, <4>2, UpdateTypes DEF Write
    <3>3. QED
      BY <2>4, <3>2 DEF Write, GoTo, TypeOK, Inside
  <2>5. CASE ReadTo(p)
    <3>1. op[p].to \in Acct
      BY <2>5, <2>0 DEF ReadTo, Inside, Op
    <3>2. seen' \in [Proc -> Int]
      BY <2>5, <3>1, BalancesInt DEF ReadTo, TypeOK
    <3>3. QED
      BY <2>5, <3>2 DEF ReadTo, GoTo, TypeOK, Inside
  <2>6. CASE WriteTo(p)
    <3>1. op[p].to \in Acct /\ op[p].amount \in Int
      BY <2>6, <2>0, OpParts DEF WriteTo, Inside
    <3>2. /\ bal' \in [Acct -> Int] /\ \A a \in Acct \ open : bal'[a] = 0
          /\ debt' \in [Acct -> Nat]
      <4>1. seen[p] + op[p].amount \in Int
        BY <3>1 DEF TypeOK
      <4>2. op[p].amount \in Int
        BY <3>1
      <4>3. QED
        BY <2>6, <3>1, <4>1, <4>2, UpdateTypes DEF WriteTo
    <3>3. QED
      BY <2>6, <3>2 DEF WriteTo, GoTo, TypeOK, Inside
  <2>7. CASE Book(p)
    <3>1. op[p] \in Op
      BY <2>7, <2>0 DEF Book, Inside
    <3>2. booked' \in [Acct -> Int]
      BY <2>7, <3>1, EntryInt DEF Book, TypeOK
    <3>3. QED
      BY <2>7, <3>2 DEF Book, GoTo, TypeOK, Inside
  <2>8. CASE Audit(p)
    BY <2>8 DEF Audit, Leave, GoTo, TypeOK
  <2>9. CASE Start(p)
    BY <2>9 DEF Start, GoTo, TypeOK
  <2>10. CASE Quit(p)
    BY <2>10 DEF Quit, GoTo, TypeOK
  <2>11. CASE Kill(p)
    <3>1. kills' \in 0..MaxKills
      BY <2>11 DEF Kill, TypeOK
    <3>2. QED
      BY <2>11, <3>1 DEF Kill, Leave, GoTo, TypeOK
  <2>12. QED
    BY <1>2, <2>1, <2>2, <2>3, <2>4, <2>5, <2>6, <2>7, <2>8, <2>9, <2>10,
       <2>11 DEF Step
<1>3. QED
  BY <1>1, <1>2 DEF Next

\* Every variable of the bank has its type, and a copy knows an operation
\* exactly while it is between the statements of one.
THEOREM TypeCorrect == Spec => []TypeOK
BY InitTypeOK, StepTypeOK, PTL DEF Spec

-----------------------------------------------------------------------------
(***************************************************************************)
(* OverdrawnAsEntered alone is not inductive: it has to say of a copy that *)
(* is about to update an account that the value it read was enough, and    *)
(* that this value, too, is overdrawn by no more than what was entered,    *)
(* but for a refused read and an account that is not there to be updated.  *)
(***************************************************************************)
Floor == IF Many THEN Missing ELSE 0

\* What was read of account a allows for its debts.
Backed(p, a) == Many \/ a \in open => seen[p] + debt[a] >= Floor

\* What the invariant says of one copy.
Knows(p) ==
  /\ pc[p] = "write" => Covered(op[p], seen[p]) /\ Backed(p, op[p].from)
  /\ pc[p] = "writeTo" => Backed(p, op[p].to)

BankInv == OverdrawnAsEntered /\ \A p \in Proc : Knows(p)

LEMMA FloorType == Floor \in Int /\ Missing \in Int /\ Missing <= Floor /\ Floor <= 0
BY BankAssumption DEF Floor, Missing

\* What a read returns allows for the debts of the account, unless the only
\* copy asks for an account that is missing.
LEMMA ReadValue ==
  ASSUME TypeOK, OverdrawnAsEntered, NEW p \in Proc, NEW a \in Acct,
         NEW b \in Balances(p, a), Many \/ a \in open
  PROVE  b + debt[a] >= Floor
<1>1. b \in Int /\ debt[a] \in Nat
  BY BalancesInt DEF TypeOK
<1>2. CASE a \in open /\ b = bal[a]
  BY <1>2 DEF OverdrawnAsEntered, Floor, Many
<1>3. CASE b = Missing /\ (a \notin open \/ Busy(p))
  <2>1. Many
    BY <1>3, BusyMany
  <2>2. QED
    BY <1>1, <1>3, <2>1, FloorType DEF Floor
<1>4. QED
  BY <1>2, <1>3 DEF Balances

LEMMA InitBankInv == Init => BankInv
<1> SUFFICES ASSUME Init PROVE BankInv
  OBVIOUS
<1>1. OverdrawnAsEntered
  BY FloorType DEF Init, OverdrawnAsEntered, Floor, Many
<1>2. QED
  BY <1>1 DEF Init, BankInv, Knows

\* A step of another copy leaves what a copy knows as it is.
LEMMA OthersKeep ==
  ASSUME TypeOK, NEW p \in Proc, Step(p), NEW q \in Proc, q # p
  PROVE  pc'[q] = pc[q] /\ op'[q] = op[q] /\ seen'[q] = seen[q]
BY DEF Step, Create, Choose, Read, Write, ReadTo, WriteTo, Book, Audit, Start,
       Quit, Kill, GoTo, Leave, TypeOK

\* Debts are not paid off.
LEMMA DebtGrows ==
  ASSUME TypeOK, TypeOK', [Next]_vars, NEW a \in Acct
  PROVE  debt[a] \in Nat /\ debt'[a] \in Nat /\ debt[a] <= debt'[a]
<1>1. debt[a] \in Nat /\ debt'[a] \in Nat
  BY DEF TypeOK
<1>2. ASSUME NEW p \in Proc, NEW c \in Acct, NEW b, NEW m \in Int,
             Update(p, c, b, m)
      PROVE  debt[a] <= debt'[a]
  <2>1. Size(m) \in Int /\ (m < 0 => Size(m) >= 0)
    BY DEF Size
  <2>2. CASE debt' = [debt EXCEPT ![c] = @ + (IF m < 0 THEN Size(m) ELSE 0)]
    BY <1>1, <2>1, <2>2 DEF TypeOK
  <2>3. CASE debt' = debt
    BY <1>1, <2>3
  <2>4. QED
    BY <1>2, <2>2, <2>3 DEF Update
<1>3. CASE debt' = debt
  BY <1>1, <1>3
<1>4. ASSUME NEW p \in Proc, Step(p), debt' # debt
      PROVE  debt[a] <= debt'[a]
  <2>1. CASE Write(p)
    <3>1. op[p].from \in Acct /\ op[p].amount \in Int
      BY <2>1, OpParts DEF Write, Inside, TypeOK
    <3>2. (IF op[p].type = "deposit" THEN op[p].amount ELSE 0) \in Int
      BY <3>1
    <3>3. QED
      BY <1>2, <2>1, <3>1, <3>2 DEF Write
  <2>2. CASE WriteTo(p)
    <3>1. op[p].to \in Acct /\ op[p].amount \in Int
      BY <2>2, OpParts DEF WriteTo, Inside, TypeOK
    <3>2. QED
      BY <1>2, <2>2, <3>1 DEF WriteTo
  <2>3. QED
    BY <1>4, <2>1, <2>2 DEF Step, Create, Choose, Read, ReadTo, Book, Audit,
                            Start, Quit, Kill, bank
<1>5. QED
  BY <1>1, <1>3, <1>4 DEF Next, vars

\* No account is opened while the only copy is inside an operation.
LEMMA OthersKnow ==
  ASSUME TypeOK, TypeOK', NEW p \in Proc, Step(p), NEW q \in Proc, q # p, Knows(q)
  PROVE  Knows(q)'
<1>1. pc'[q] = pc[q] /\ op'[q] = op[q] /\ seen'[q] = seen[q] /\ seen[q] \in Int
  BY OthersKeep DEF TypeOK
<1>2. Many /\ Many' /\ Floor' = Floor /\ Floor \in Int
  BY TwoAreMany, FloorType DEF Many, Floor, Missing
<1>3. ASSUME NEW a \in Acct, Backed(q, a) PROVE Backed(q, a)'
  <2>1. debt[a] \in Nat /\ debt'[a] \in Nat /\ debt[a] <= debt'[a]
    BY DebtGrows DEF Next
  <2>2. QED
    BY <1>1, <1>2, <1>3, <2>1 DEF Backed
<1>4. pc[q] \in {"write", "writeTo"} => op[q].from \in Acct /\ op[q].to \in Acct
  BY OpParts DEF TypeOK, Inside
<1>5. Covered(op[q], seen[q]) => Covered(op[q], seen[q])'
  BY <1>1 DEF Covered
<1>6. QED
  BY <1>1, <1>3, <1>4, <1>5 DEF Knows

\* An update writes something that was read, or leaves the account at zero or
\* more.
LEMMA UpdateAllowed ==
  ASSUME TypeOK, TypeOK', OverdrawnAsEntered, NEW p \in Proc, NEW a \in Acct,
         NEW b \in Int, NEW m \in Int, Update(p, a, b, m),
         \/ b >= 0
         \/ b = seen[p] + m /\ Backed(p, a)
  PROVE  OverdrawnAsEntered'
<1>1. ASSUME NEW c \in Acct PROVE bal'[c] + debt'[c] >= Floor
  <2>0. /\ bal[c] \in Int /\ bal'[c] \in Int /\ debt[c] \in Nat /\ debt'[c] \in Nat
        /\ seen[p] \in Int
    BY DEF TypeOK
  <2>1. CASE c = a /\ a \in open /\ bal' = [bal EXCEPT ![a] = b]
             /\ debt' = [debt EXCEPT ![a] = @ + (IF m < 0 THEN Size(m) ELSE 0)]
    <3>1. bal'[c] = b /\ debt'[c] = debt[a] + (IF m < 0 THEN Size(m) ELSE 0)
      BY <2>1 DEF TypeOK
    <3>2. CASE b >= 0
      BY <2>0, <3>1, <3>2, FloorType
    <3>3. CASE b = seen[p] + m /\ Backed(p, a)
      <4>1. seen[p] + debt[a] >= Floor /\ debt[a] \in Nat
        BY <2>0, <2>1, <3>3 DEF Backed
      <4>2. CASE m < 0
        <5>1. debt'[c] = debt[a] - m
          BY <3>1, <4>1, <4>2 DEF Size
        <5>2. QED
          BY <2>0, <3>1, <3>3, <4>1, <5>1, FloorType
      <4>3. CASE m >= 0
        <5>1. debt'[c] = debt[a]
          BY <3>1, <4>1, <4>3
        <5>2. QED
          BY <2>0, <3>1, <3>3, <4>1, <4>3, <5>1, FloorType
      <4>4. QED
        BY <4>2, <4>3
    <3>4. QED
      BY <3>2, <3>3
  <2>2. CASE bal'[c] = bal[c] /\ debt'[c] = debt[c]
    BY <2>2 DEF OverdrawnAsEntered, Floor, Many
  <2>3. QED
    BY <2>1, <2>2 DEF Update, TypeOK
<1>2. QED
  BY <1>1 DEF OverdrawnAsEntered, Many, Floor, Missing

LEMMA StepBankInv == TypeOK /\ TypeOK' /\ BankInv /\ [Next]_vars => BankInv'
<1> SUFFICES ASSUME TypeOK, TypeOK', BankInv, [Next]_vars PROVE BankInv'
  OBVIOUS
<1>0. OverdrawnAsEntered /\ \A p \in Proc : Knows(p)
  BY DEF BankInv
<1>1. CASE UNCHANGED vars
  BY <1>1 DEF vars, BankInv, OverdrawnAsEntered, Knows, Backed, Covered, Missing,
              Many, Floor
<1>2. ASSUME NEW p \in Proc, Step(p) PROVE OverdrawnAsEntered' /\ Knows(p)'
  <2>0. bal' = bal /\ debt' = debt => OverdrawnAsEntered'
    BY <1>0 DEF OverdrawnAsEntered, Missing
  <2>1. CASE \E a \in Acct : Create(p, a)
    BY <1>0, <2>0, <2>1 DEF Create, bank, Knows
  <2>2. CASE \E o \in Op : Choose(p, o)
    <3>1. pc'[p] = "read"
      BY <2>2 DEF Choose, GoTo, TypeOK
    <3>2. QED
      BY <2>0, <2>2, <3>1 DEF Choose, Knows
  <2>3. CASE Read(p)
    <3>1. PICK b \in Balances(p, op[p].from) :
             IF Covered(op[p], b)
               THEN /\ seen' = [seen EXCEPT ![p] = b]
                    /\ GoTo(p, "write") /\ UNCHANGED op
               ELSE Leave(p, "prompt")
      BY <2>3 DEF Read
    <3>2. OverdrawnAsEntered'
      BY <2>0, <2>3 DEF Read
    <3>3. CASE ~Covered(op[p], b)
      <4>1. pc'[p] = "prompt"
        BY <3>1, <3>3 DEF Leave, GoTo, TypeOK
      <4>2. QED
        BY <3>2, <4>1 DEF Knows
    <3>4. CASE Covered(op[p], b)
      <4>1. /\ pc'[p] = "write" /\ seen'[p] = b /\ op' = op /\ open' = open
            /\ debt' = debt
        BY <2>3, <3>1, <3>4 DEF Read, GoTo, TypeOK
      <4>2. op[p].from \in Acct
        BY <2>3, OpParts DEF Read, Inside, TypeOK
      <4>3. Many \/ op[p].from \in open => b + debt[op[p].from] >= Floor
        BY <1>0, <4>2, ReadValue
      <4>4. QED
        BY <3>2, <3>4, <4>1, <4>3 DEF Knows, Backed, Missing, Many, Floor, Covered
    <3>5. QED
      BY <3>3, <3>4
  <2>4. CASE Write(p)
    <3>1. op[p].from \in Acct /\ op[p].amount \in Int /\ seen[p] \in Int
      BY <2>4, OpParts DEF Write, Inside, TypeOK
    <3>2. Covered(op[p], seen[p]) /\ Backed(p, op[p].from)
      BY <1>0, <2>4 DEF Write, Knows
    <3>3. OverdrawnAsEntered'
      <4>1. CASE op[p].type = "deposit"
        <5>1. Update(p, op[p].from, seen[p] + op[p].amount, op[p].amount)
          BY <2>4, <4>1 DEF Write, After
        <5>2. QED
          BY <1>0, <3>1, <3>2, <5>1, UpdateAllowed
      <4>2. CASE op[p].type # "deposit"
        <5>1. Update(p, op[p].from, seen[p] - op[p].amount, 0)
          BY <2>4, <4>2 DEF Write, After
        <5>2. seen[p] - op[p].amount >= 0
          BY <3>1, <3>2, <4>2 DEF Covered
        <5>3. QED
          BY <1>0, <3>1, <5>1, <5>2, UpdateAllowed
      <4>3. QED
        BY <4>1, <4>2
    <3>4. pc'[p] # "write" /\ pc'[p] # "writeTo"
      BY <2>4 DEF Write, GoTo, TypeOK
    <3>5. QED
      BY <3>3, <3>4 DEF Knows
  <2>5. CASE ReadTo(p)
    <3>1. PICK b \in Balances(p, op[p].to) : seen' = [seen EXCEPT ![p] = b]
      BY <2>5 DEF ReadTo
    <3>2. /\ pc'[p] = "writeTo" /\ seen'[p] = b /\ op' = op /\ open' = open
          /\ debt' = debt
      BY <2>5, <3>1 DEF ReadTo, GoTo, TypeOK
    <3>3. op[p].to \in Acct
      BY <2>5, OpParts DEF ReadTo, Inside, TypeOK
    <3>4. Many \/ op[p].to \in open => b + debt[op[p].to] >= Floor
      BY <1>0, <3>3, ReadValue
    <3>5. OverdrawnAsEntered'
      BY <2>0, <2>5 DEF ReadTo
    <3>6. QED
      BY <3>2, <3>4, <3>5 DEF Knows, Backed, Missing, Many, Floor
  <2>6. CASE WriteTo(p)
    <3>1. op[p].to \in Acct /\ op[p].amount \in Int /\ seen[p] \in Int
      BY <2>6, OpParts DEF WriteTo, Inside, TypeOK
    <3>2. Backed(p, op[p].to)
      BY <1>0, <2>6 DEF WriteTo, Knows
    <3>3. OverdrawnAsEntered'
      BY <1>0, <2>6, <3>1, <3>2, UpdateAllowed DEF WriteTo
    <3>4. pc'[p] # "write" /\ pc'[p] # "writeTo"
      BY <2>6 DEF WriteTo, GoTo, TypeOK
    <3>5. QED
      BY <3>3, <3>4 DEF Knows
  <2>7. ASSUME \/ Book(p) \/ Audit(p) \/ Start(p) \/ Quit(p) \/ Kill(p)
        PROVE  OverdrawnAsEntered' /\ Knows(p)'
    <3>1. pc'[p] # "write" /\ pc'[p] # "writeTo"
      BY <2>7 DEF Book, Audit, Start, Quit, Kill, Leave, GoTo, TypeOK
    <3>2. bal' = bal /\ debt' = debt
      BY <2>7 DEF Book, Audit, Start, Quit, Kill
    <3>3. QED
      BY <2>0, <3>1, <3>2 DEF Knows
  <2>8. QED
    BY <1>2, <2>1, <2>2, <2>3, <2>4, <2>5, <2>6, <2>7 DEF Step
<1>3. ASSUME NEW p \in Proc, Step(p) PROVE BankInv'
  <2>1. OverdrawnAsEntered' /\ Knows(p)'
    BY <1>2, <1>3
  <2>2. ASSUME NEW q \in Proc PROVE Knows(q)'
    BY <1>0, <1>3, <2>1, OthersKnow
  <2>3. QED
    BY <2>1, <2>2 DEF BankInv
<1>4. QED
  BY <1>1, <1>3 DEF Next

\* Of however many copies, whatever they interleave and whatever is refused
\* them, an account is overdrawn by no more than the negative amounts entered
\* for it: the sign is the only check the code lacks, but for the -1 of a
\* refused read.
THEOREM Overdraft == Spec => []OverdrawnAsEntered
<1>1. BankInv => OverdrawnAsEntered
  BY DEF BankInv
<1>2. QED
  BY <1>1, InitTypeOK, StepTypeOK, InitBankInv, StepBankInv, PTL DEF Spec

-----------------------------------------------------------------------------
(***************************************************************************)
(* The ledger.  Between the statements of an operation the accounts and    *)
(* the ledger differ by what the operation has still to write: Due.  What  *)
(* they differ by beyond that is Drift, which no statement changes as long *)
(* as its copy is the only one at work; a kill turns what was due into     *)
(* drift.                                                                  *)
(***************************************************************************)
Due(p, a) ==
  CASE pc[p] \in {"readTo", "writeTo"} ->
         IF a = op[p].from THEN -op[p].amount ELSE 0
    [] pc[p] = "book" -> Entry(op[p], a)
    [] OTHER -> 0

Drift(p, a) == Gap(a) - Due(p, a)

Within(d) == -(kills * Largest) <= d /\ d <= kills * Largest

\* What a copy is about to write is based on what the account holds.
Fresh(p) ==
  /\ pc[p] = "write" /\ op[p].from \in open => seen[p] = bal[op[p].from]
  /\ pc[p] = "writeTo" /\ op[p].to \in open => seen[p] = bal[op[p].to]
  /\ pc[p] \in {"readTo", "writeTo"} => op[p].type = "transfer"

OneAtWork == \A p, q \in Proc : pc[p] \in Inside /\ pc[q] \in Inside => p = q

Settled(p) == \A a \in open : Within(Drift(p, a))

LedgerInv ==
  ~met => /\ OneAtWork
          /\ \A p \in Proc : pc[p] \in Inside => Fresh(p) /\ Settled(p)
          /\ (\A p \in Proc : pc[p] \notin Inside) =>
                \A a \in open : Within(Gap(a))

-----------------------------------------------------------------------------
LEMMA LargestAmount ==
  /\ Largest \in Nat
  /\ \A n \in Amount : n \in Int /\ -Largest <= n /\ n <= Largest
<1>1. \A n \in Amount : n \in Int /\ Size(n) \in Nat
  BY BankAssumption DEF Size
<1>2. \E m \in Sizes : \A n \in Sizes : n <= m
  BY BankAssumption DEF Sizes
<1>3. Largest \in Sizes /\ \A n \in Sizes : n <= Largest
  BY <1>2 DEF Largest
<1>4. Largest \in Nat
  BY <1>1, <1>3 DEF Sizes
<1>5. ASSUME NEW n \in Amount PROVE -Largest <= n /\ n <= Largest
  <2>1. Size(n) <= Largest
    BY <1>3 DEF Sizes
  <2>2. QED
    BY <1>1, <1>4, <2>1 DEF Size
<1>6. QED
  BY <1>1, <1>4, <1>5

\* What is due is at most the amount of the operation.
LEMMA EntryBound ==
  ASSUME NEW o \in Op, NEW a \in Acct
  PROVE  /\ Entry(o, a) \in Int
         /\ -Largest <= Entry(o, a) /\ Entry(o, a) <= Largest
<1>1. /\ o.amount \in Int /\ -Largest <= o.amount /\ o.amount <= Largest
      /\ Largest \in Nat
  BY OpParts, LargestAmount
<1>2. CASE o.type = "deposit"
  BY <1>1, <1>2 DEF Entry
<1>3. CASE o.type = "withdraw"
  BY <1>1, <1>3 DEF Entry
<1>4. CASE o.type # "deposit" /\ o.type # "withdraw"
  <2>1. Entry(o, a) = (IF a = o.to THEN o.amount ELSE 0)
                      - (IF a = o.from THEN o.amount ELSE 0)
    BY <1>4 DEF Entry
  <2>2. /\ (IF a = o.to THEN o.amount ELSE 0) \in {0, o.amount}
        /\ (IF a = o.from THEN o.amount ELSE 0) \in {0, o.amount}
    OBVIOUS
  <2>3. QED
    BY <1>1, <2>1, <2>2
<1>5. QED
  BY <1>2, <1>3, <1>4

LEMMA DueBound ==
  ASSUME TypeOK, NEW p \in Proc, NEW a \in Acct
  PROVE  /\ Due(p, a) \in Int
         /\ -Largest <= Due(p, a) /\ Due(p, a) <= Largest
<1>0. Largest \in Nat
  BY LargestAmount
<1>1. CASE pc[p] \in {"readTo", "writeTo"}
  <2>1. op[p] \in Op
    BY <1>1 DEF TypeOK, Inside
  <2>2. /\ op[p].amount \in Int
        /\ -Largest <= op[p].amount /\ op[p].amount <= Largest
    BY <2>1, OpParts, LargestAmount
  <2>3. Due(p, a) = IF a = op[p].from THEN -op[p].amount ELSE 0
    BY <1>1 DEF Due
  <2>4. QED
    BY <1>0, <2>2, <2>3
<1>2. CASE pc[p] = "book"
  <2>1. op[p] \in Op
    BY <1>2 DEF TypeOK, Inside
  <2>2. Due(p, a) = Entry(op[p], a)
    BY <1>2 DEF Due
  <2>3. QED
    BY <2>1, <2>2, EntryBound
<1>3. CASE pc[p] \notin {"readTo", "writeTo", "book"}
  <2>1. Due(p, a) = 0
    BY <1>3 DEF Due
  <2>2. QED
    BY <1>0, <2>1
<1>4. QED
  BY <1>1, <1>2, <1>3

LEMMA GapInt == ASSUME TypeOK, NEW a \in Acct PROVE Gap(a) \in Int
BY DEF TypeOK, Gap

LEMMA DriftInt == ASSUME TypeOK, NEW p \in Proc, NEW a \in Acct
                  PROVE  Drift(p, a) \in Int
BY GapInt, DueBound DEF Drift

\* Outside an operation nothing is due.
LEMMA NothingDue ==
  ASSUME TypeOK, NEW p \in Proc, pc[p] \notin Inside, NEW a \in Acct
  PROVE  Drift(p, a) = Gap(a)
<1>1. pc[p] \notin {"readTo", "writeTo", "book"}
  BY DEF Inside
<1>2. Due(p, a) = 0
  BY <1>1 DEF Due
<1>3. QED
  BY <1>2, GapInt DEF Drift

-----------------------------------------------------------------------------
\* A copy that does more than start or quit is the only one at work.
LEMMA Alone ==
  ASSUME TypeOK, OneAtWork, NEW p \in Proc, Step(p), ~met',
         pc[p] \in Inside \/ pc'[p] \in Inside \/ bank' # bank
  PROVE  ~Busy(p)
<1>1. CASE pc[p] \in Inside
  BY <1>1 DEF OneAtWork, Busy
<1>2. CASE pc[p] \notin Inside
  <2>1. /\ ~Read(p) /\ ~Write(p) /\ ~ReadTo(p) /\ ~WriteTo(p)
        /\ ~Book(p) /\ ~Audit(p) /\ ~Kill(p)
    BY <1>2 DEF Read, Write, ReadTo, WriteTo, Book, Audit, Kill, Inside
  <2>2. CASE Start(p) \/ Quit(p)
    <3>1. pc'[p] \in {"off", "prompt"} /\ bank' = bank
      BY <2>2 DEF Start, Quit, GoTo, TypeOK, bank
    <3>2. QED
      BY <1>2, <3>1, InsideNames
  <2>3. CASE (\E a \in Acct : Create(p, a)) \/ (\E o \in Op : Choose(p, o))
    BY <2>3 DEF Create, Choose
  <2>4. QED
    BY <2>1, <2>2, <2>3 DEF Step
<1>3. QED
  BY <1>1, <1>2

\* Then its reads and updates do what they should.
LEMMA ReadExact ==
  ASSUME NEW p \in Proc, ~Busy(p), NEW a \in Acct, NEW b \in Balances(p, a),
         a \in open
  PROVE  b = bal[a]
BY DEF Balances

LEMMA UpdateExact ==
  ASSUME TypeOK, NEW p \in Proc, ~Busy(p), NEW a \in Acct, NEW b \in Int,
         NEW m, Update(p, a, b, m)
  PROVE  \A c \in open : bal'[c] = IF c = a THEN b ELSE bal[c]
BY DEF Update, TypeOK

\* A statement of the only copy at work writes what was due.
LEMMA StatementExact ==
  ASSUME TypeOK, TypeOK', NEW p \in Proc, ~Busy(p), Step(p), ~Kill(p),
         pc[p] \in Inside => Fresh(p)
  PROVE  /\ pc'[p] \in Inside => Fresh(p)'
         /\ \A a \in open : Drift(p, a)' = Drift(p, a)
         /\ \A a \in open' \ open : pc'[p] \notin Inside /\ Gap(a)' = 0
<1> USE InsideNames
<1>0. pc[p] \in Inside => op[p] \in Op
  BY DEF TypeOK
<1>1. CASE \E a \in Acct : Create(p, a)
  <2>1. PICK a \in Acct : Create(p, a)
    BY <1>1
  <2>2. /\ pc' = pc /\ op' = op /\ pc[p] \notin Inside
        /\ bal' = bal /\ booked' = booked
    BY <2>1 DEF Create, bank
  <2>3. ASSUME NEW c \in open PROVE Drift(p, c)' = Drift(p, c)
    <3>1. c \in Acct /\ opening'[c] = opening[c]
      BY <2>1 DEF Create, bank, TypeOK
    <3>2. Gap(c)' = Gap(c)
      BY <2>2, <3>1 DEF Gap
    <3>3. Due(p, c)' = Due(p, c)
      BY <2>2 DEF Due, Entry
    <3>4. QED
      BY <3>2, <3>3 DEF Drift
  <2>4. ASSUME NEW c \in open' \ open PROVE pc'[p] \notin Inside /\ Gap(c)' = 0
    <3>1. c = a /\ a \notin open /\ opening'[a] = booked[a]
      BY <2>1 DEF Create, bank, TypeOK
    <3>2. bal[a] = 0 /\ booked[a] \in Int
      BY <3>1 DEF TypeOK
    <3>3. Gap(a)' = bal[a] - (booked[a] - booked[a])
      BY <2>2, <3>1 DEF Gap
    <3>4. QED
      BY <2>2, <3>1, <3>2, <3>3
  <2>5. QED
    BY <2>2, <2>3, <2>4
<1>2. CASE Start(p) \/ Quit(p) \/ (\E o \in Op : Choose(p, o)) \/ Audit(p)
  <2>1. /\ pc'[p] \in {"off", "prompt", "read"} /\ pc[p] \in {"off", "prompt", "audit"}
        /\ bank' = bank
    BY <1>2 DEF Start, Quit, Choose, Audit, Leave, GoTo, TypeOK, bank
  <2>2. pc'[p] \in Inside => Fresh(p)'
    BY <2>1 DEF Fresh
  <2>3. ASSUME NEW c \in open PROVE Drift(p, c)' = Drift(p, c)
    <3>1. Due(p, c)' = 0 /\ Due(p, c) = 0
      BY <2>1 DEF Due
    <3>2. QED
      BY <2>1, <3>1 DEF Drift, Gap, bank
  <2>4. QED
    BY <2>1, <2>2, <2>3 DEF bank
<1>3. CASE Read(p)
  <2>1. PICK b \in Balances(p, op[p].from) :
           IF Covered(op[p], b)
             THEN /\ seen' = [seen EXCEPT ![p] = b]
                  /\ GoTo(p, "write") /\ UNCHANGED op
             ELSE Leave(p, "prompt")
    BY <1>3 DEF Read
  <2>2. op[p] \in Op /\ op[p].from \in Acct /\ pc[p] = "read" /\ bank' = bank
    BY <1>0, <1>3, OpParts DEF Read, Inside, bank
  <2>3. /\ pc'[p] \in {"write", "prompt"}
        /\ pc'[p] = "write" => seen'[p] = b /\ op' = op
    BY <2>1 DEF Leave, GoTo, TypeOK
  <2>4. pc'[p] \in Inside => Fresh(p)'
    BY <2>2, <2>3, ReadExact DEF Fresh, bank
  <2>5. ASSUME NEW c \in open PROVE Drift(p, c)' = Drift(p, c)
    <3>1. Due(p, c)' = 0 /\ Due(p, c) = 0
      BY <2>2, <2>3 DEF Due
    <3>2. QED
      BY <2>2, <3>1 DEF Drift, Gap, bank
  <2>6. QED
    BY <2>2, <2>4, <2>5 DEF bank
<1>4. CASE Write(p)
  <2>1. /\ op[p] \in Op /\ op[p].from \in Acct /\ op[p].amount \in Int
        /\ op[p].type \in Types /\ pc[p] = "write" /\ pc[p] \in Inside
    BY <1>0, <1>4, OpParts DEF Write, Inside
  <2>2. /\ pc'[p] = IF op[p].type = "transfer" THEN "readTo" ELSE "book"
        /\ op' = op /\ open' = open /\ booked' = booked /\ opening' = opening
    BY <1>4 DEF Write, GoTo, TypeOK
  <2>3. After(op[p], seen[p]) \in Int
    BY <2>1 DEF After, TypeOK
  <2>4. \A c \in open : bal'[c] = IF c = op[p].from THEN After(op[p], seen[p])
                                  ELSE bal[c]
    BY <1>4, <2>1, <2>3, UpdateExact DEF Write
  <2>5. pc'[p] \in Inside => Fresh(p)'
    BY <2>2 DEF Fresh
  <2>6. ASSUME NEW c \in open PROVE Drift(p, c)' = Drift(p, c)
    <3>0. /\ c \in Acct /\ bal[c] \in Int /\ bal'[c] \in Int
          /\ booked[c] \in Int /\ opening[c] \in Int
      BY DEF TypeOK
    <3>1. Due(p, c) = 0
      BY <2>1 DEF Due
    <3>2. Due(p, c)' \in Int /\ bal'[c] = bal[c] + Due(p, c)'
      <4>1. CASE op[p].type = "transfer"
        <5>1. Due(p, c)' = IF c = op[p].from THEN -op[p].amount ELSE 0
          BY <2>2, <4>1 DEF Due
        <5>2. c = op[p].from => bal'[c] = bal[c] - op[p].amount
          BY <1>4, <2>1, <2>4, <4>1 DEF Fresh, After
        <5>3. QED
          BY <2>1, <2>4, <3>0, <5>1, <5>2
      <4>2. CASE op[p].type = "deposit"
        <5>1. Due(p, c)' = IF c = op[p].from THEN op[p].amount ELSE 0
          BY <2>2, <4>2 DEF Due, Entry
        <5>2. c = op[p].from => bal'[c] = bal[c] + op[p].amount
          BY <1>4, <2>1, <2>4, <4>2 DEF Fresh, After
        <5>3. QED
          BY <2>1, <2>4, <3>0, <5>1, <5>2
      <4>3. CASE op[p].type = "withdraw"
        <5>1. Due(p, c)' = IF c = op[p].from THEN -op[p].amount ELSE 0
          BY <2>2, <4>3 DEF Due, Entry
        <5>2. c = op[p].from => bal'[c] = bal[c] - op[p].amount
          BY <1>4, <2>1, <2>4, <4>3 DEF Fresh, After
        <5>3. QED
          BY <2>1, <2>4, <3>0, <5>1, <5>2
      <4>4. QED
        BY <2>1, <4>1, <4>2, <4>3 DEF Types
    <3>3. QED
      BY <2>2, <3>0, <3>1, <3>2 DEF Drift, Gap
  <2>7. QED
    BY <2>2, <2>5, <2>6
<1>5. CASE ReadTo(p)
  <2>1. PICK b \in Balances(p, op[p].to) : seen' = [seen EXCEPT ![p] = b]
    BY <1>5 DEF ReadTo
  <2>2. /\ op[p] \in Op /\ op[p].to \in Acct /\ pc[p] = "readTo"
        /\ pc[p] \in Inside /\ bank' = bank /\ op' = op
    BY <1>0, <1>5, OpParts DEF ReadTo, Inside, bank
  <2>3. pc'[p] = "writeTo" /\ seen'[p] = b
    BY <1>5, <2>1 DEF ReadTo, GoTo, TypeOK
  <2>4. Fresh(p)'
    BY <2>2, <2>3, ReadExact DEF Fresh, bank
  <2>5. ASSUME NEW c \in open PROVE Drift(p, c)' = Drift(p, c)
    <3>1. Due(p, c)' = Due(p, c)
      BY <2>2, <2>3 DEF Due
    <3>2. QED
      BY <2>2, <3>1 DEF Drift, Gap, bank
  <2>6. QED
    BY <2>2, <2>4, <2>5 DEF bank
<1>6. CASE WriteTo(p)
  <2>1. /\ op[p] \in Op /\ op[p].from \in Acct /\ op[p].to \in Acct
        /\ op[p].amount \in Int /\ pc[p] = "writeTo" /\ pc[p] \in Inside
    BY <1>0, <1>6, OpParts DEF WriteTo, Inside
  <2>2. /\ pc'[p] = "book" /\ op' = op /\ open' = open
        /\ booked' = booked /\ opening' = opening
    BY <1>6 DEF WriteTo, GoTo, TypeOK
  <2>3. seen[p] + op[p].amount \in Int
    BY <2>1 DEF TypeOK
  <2>4. \A c \in open : bal'[c] = IF c = op[p].to THEN seen[p] + op[p].amount
                                  ELSE bal[c]
    BY <1>6, <2>1, <2>3, UpdateExact DEF WriteTo
  <2>5. Fresh(p)'
    BY <2>2 DEF Fresh
  <2>6. ASSUME NEW c \in open PROVE Drift(p, c)' = Drift(p, c)
    <3>0. /\ c \in Acct /\ bal[c] \in Int /\ bal'[c] \in Int
          /\ booked[c] \in Int /\ opening[c] \in Int
      BY DEF TypeOK
    <3>1. Due(p, c) = IF c = op[p].from THEN -op[p].amount ELSE 0
      BY <2>1 DEF Due
    <3>2. Due(p, c)' = (IF c = op[p].to THEN op[p].amount ELSE 0)
                       - (IF c = op[p].from THEN op[p].amount ELSE 0)
      BY <2>1, <2>2 DEF Due, Entry, Fresh
    <3>3. bal'[c] = bal[c] + IF c = op[p].to THEN op[p].amount ELSE 0
      BY <2>1, <2>4, <3>0 DEF Fresh
    <3>4. CASE c = op[p].from
      BY <2>1, <2>2, <3>0, <3>1, <3>2, <3>3, <3>4 DEF Drift, Gap
    <3>5. CASE c # op[p].from
      BY <2>1, <2>2, <3>0, <3>1, <3>2, <3>3, <3>5 DEF Drift, Gap
    <3>6. QED
      BY <3>4, <3>5
  <2>7. QED
    BY <2>2, <2>5, <2>6
<1>7. CASE Book(p)
  <2>1. op[p] \in Op /\ pc[p] = "book"
    BY <1>0, <1>7 DEF Book, Inside
  <2>2. /\ pc'[p] = "audit" /\ open' = open /\ bal' = bal /\ opening' = opening
        /\ booked' = [a \in Acct |-> booked[a] + Entry(op[p], a)]
    BY <1>7 DEF Book, GoTo, TypeOK
  <2>3. Fresh(p)'
    BY <2>2 DEF Fresh
  <2>4. ASSUME NEW c \in open PROVE Drift(p, c)' = Drift(p, c)
    <3>0. /\ c \in Acct /\ bal[c] \in Int /\ booked[c] \in Int
          /\ opening[c] \in Int
      BY DEF TypeOK
    <3>1. Due(p, c) = Entry(op[p], c) /\ Due(p, c)' = 0
      BY <2>1, <2>2 DEF Due
    <3>2. Entry(op[p], c) \in Int
      BY <2>1, <3>0, EntryInt
    <3>3. booked'[c] = booked[c] + Entry(op[p], c)
      BY <2>2, <3>0
    <3>4. QED
      BY <2>2, <3>0, <3>1, <3>2, <3>3 DEF Drift, Gap
  <2>5. QED
    BY <2>2, <2>3, <2>4
<1>8. QED
  BY <1>1, <1>2, <1>3, <1>4, <1>5, <1>6, <1>7 DEF Step

-----------------------------------------------------------------------------
LEMMA InitLedgerInv == Init => LedgerInv
BY InsideNames DEF Init, LedgerInv, OneAtWork

\* One more kill is one more amount.
LEMMA KillWidens ==
  ASSUME NEW k \in Nat, NEW m \in Nat, NEW d \in Int, NEW e \in Int,
         -(k * m) <= d, d <= k * m, -m <= e, e <= m
  PROVE  -((k + 1) * m) <= d + e /\ d + e <= (k + 1) * m
<1>1. (k + 1) * m = k * m + m
  OBVIOUS
<1>2. k * m \in Nat
  OBVIOUS
<1>3. \A n \in Nat : -n <= d /\ d <= n => -(n + m) <= d + e /\ d + e <= n + m
  OBVIOUS
<1>4. -(k * m + m) <= d + e /\ d + e <= k * m + m
  BY <1>2, <1>3
<1>5. QED
  BY <1>1, <1>4

\* The drift stays within the kills: in the copy that takes the step, which is
\* the only one at work, and hence after its operation.
LEMMA StepAlone ==
  ASSUME TypeOK, TypeOK', NEW p \in Proc, ~Busy(p), Step(p),
         pc[p] \in Inside => Fresh(p), Settled(p)
  PROVE  (pc'[p] \in Inside => Fresh(p)') /\ Settled(p)'
<1>1. CASE ~Kill(p)
  <2>1. /\ pc'[p] \in Inside => Fresh(p)'
        /\ \A a \in open : Drift(p, a)' = Drift(p, a)
        /\ \A a \in open' \ open : pc'[p] \notin Inside /\ Gap(a)' = 0
    BY <1>1, StatementExact
  <2>2. kills' = kills
    BY <1>1 DEF Step, Create, Choose, Read, Write, ReadTo, WriteTo, Book, Audit,
                Start, Quit
  <2>3. ASSUME NEW a \in open' PROVE Within(Drift(p, a))'
    <3>1. CASE a \in open
      <4>1. Within(Drift(p, a))
        BY <3>1 DEF Settled
      <4>2. QED
        BY <2>1, <2>2, <3>1, <4>1 DEF Within
    <3>2. CASE a \notin open
      <4>1. pc'[p] \notin Inside /\ Gap(a)' = 0
        BY <2>1, <3>2
      <4>2. pc'[p] \notin {"readTo", "writeTo", "book"}
        BY <4>1 DEF Inside
      <4>3. Due(p, a)' = 0
        BY <4>2 DEF Due
      <4>4. Drift(p, a)' = 0
        BY <4>1, <4>3 DEF Drift
      <4>5. kills' \in Nat /\ Largest \in Nat
        BY LargestAmount, BankAssumption DEF TypeOK
      <4>6. kills' * Largest \in Nat
        <5>1. \A k, m \in Nat : k * m \in Nat
          OBVIOUS
        <5>2. QED
          BY <4>5, <5>1
      <4>7. -(kills' * Largest) <= 0 /\ 0 <= kills' * Largest
        BY <4>6
      <4>8. QED
        BY <4>4, <4>5, <4>6, <4>7 DEF Within
    <3>3. QED
      BY <3>1, <3>2
  <2>4. QED
    BY <2>1, <2>3 DEF Settled
<1>2. CASE Kill(p)
  <2>1. /\ pc'[p] = "off" /\ kills' = kills + 1 /\ open' = open
        /\ bal' = bal /\ booked' = booked /\ opening' = opening
    BY <1>2 DEF Kill, Leave, GoTo, TypeOK
  <2>2. ASSUME NEW a \in open PROVE Within(Drift(p, a))'
    <3>1. a \in Acct
      BY DEF TypeOK
    <3>2. /\ Drift(p, a) \in Int /\ Due(p, a) \in Int /\ Gap(a) \in Int
          /\ -Largest <= Due(p, a) /\ Due(p, a) <= Largest
      BY <3>1, DriftInt, DueBound, GapInt
    <3>3. Within(Drift(p, a))
      BY DEF Settled
    <3>4. Due(p, a)' = 0
      BY <2>1 DEF Due
    <3>5. Drift(p, a)' = Drift(p, a) + Due(p, a)
      BY <2>1, <3>2, <3>4 DEF Drift, Gap
    <3>6. kills \in Nat /\ Largest \in Nat
      BY LargestAmount, BankAssumption DEF TypeOK
    <3>7. /\ -((kills + 1) * Largest) <= Drift(p, a) + Due(p, a)
          /\ Drift(p, a) + Due(p, a) <= (kills + 1) * Largest
      BY <3>2, <3>3, <3>6, KillWidens DEF Within
    <3>8. QED
      BY <2>1, <3>5, <3>7 DEF Within
  <2>3. QED
    BY <2>1, <2>2, InsideNames DEF Settled
<1>3. QED
  BY <1>1, <1>2

LEMMA StepLedgerInv ==
  TypeOK /\ TypeOK' /\ LedgerInv /\ [Next]_vars => LedgerInv'
<1> SUFFICES ASSUME TypeOK, TypeOK', LedgerInv, [Next]_vars, ~met'
             PROVE  /\ OneAtWork'
                    /\ \A q \in Proc : pc'[q] \in Inside => Fresh(q)' /\ Settled(q)'
                    /\ (\A q \in Proc : pc'[q] \notin Inside) =>
                          \A a \in open' : Within(Gap(a))'
  BY DEF LedgerInv
<1>1. CASE UNCHANGED vars
  BY <1>1 DEF vars, LedgerInv, OneAtWork, Fresh, Settled, Drift, Due, Entry,
              Gap, Within
<1>2. ASSUME NEW p \in Proc, Step(p)
      PROVE  /\ OneAtWork'
             /\ \A q \in Proc : pc'[q] \in Inside => Fresh(q)' /\ Settled(q)'
             /\ (\A q \in Proc : pc'[q] \notin Inside) =>
                   \A a \in open' : Within(Gap(a))'
  <2>1. ~met
    BY <1>2 DEF Step, Create, Choose, Read, Write, ReadTo, WriteTo, Book, Audit,
                Start, Quit, Kill
  <2>2. /\ OneAtWork
        /\ \A q \in Proc : pc[q] \in Inside => Fresh(q) /\ Settled(q)
        /\ (\A q \in Proc : pc[q] \notin Inside) => \A a \in open : Within(Gap(a))
    BY <2>1 DEF LedgerInv
  <2>3. \A q \in Proc : q # p => /\ pc'[q] = pc[q] /\ op'[q] = op[q]
                                 /\ seen'[q] = seen[q]
    BY <1>2, OthersKeep
  <2>4. CASE pc[p] \in Inside \/ pc'[p] \in Inside \/ bank' # bank
    <3>1. ~Busy(p)
      BY <1>2, <2>2, <2>4, Alone
    <3>2. \A q \in Proc : q # p => pc'[q] \notin Inside
      BY <2>3, <3>1 DEF Busy
    <3>3. Settled(p)
      <4>1. CASE pc[p] \in Inside
        BY <2>2, <4>1
      <4>2. CASE pc[p] \notin Inside
        <5>1. \A a \in open : Within(Gap(a))
          BY <2>2, <3>1, <4>2 DEF Busy
        <5>2. \A a \in open : Drift(p, a) = Gap(a)
          BY <4>2, NothingDue DEF TypeOK
        <5>3. QED
          BY <5>1, <5>2 DEF Settled
      <4>3. QED
        BY <4>1, <4>2
    <3>4. (pc'[p] \in Inside => Fresh(p)') /\ Settled(p)'
      BY <1>2, <2>2, <3>1, <3>3, StepAlone
    <3>5. ASSUME pc'[p] \notin Inside, NEW a \in open' PROVE Within(Gap(a))'
      <4>1. pc'[p] \notin {"readTo", "writeTo", "book"}
        BY <3>5 DEF Inside
      <4>2. Due(p, a)' = 0
        BY <4>1 DEF Due
      <4>3. Gap(a)' \in Int
        BY DEF TypeOK, Gap
      <4>4. Drift(p, a)' = Gap(a)'
        BY <4>2, <4>3 DEF Drift
      <4>5. Within(Drift(p, a))'
        BY <3>4 DEF Settled
      <4>6. QED
        BY <4>4, <4>5 DEF Within
    <3>6. QED
      BY <3>2, <3>4, <3>5 DEF OneAtWork
  <2>5. CASE pc[p] \notin Inside /\ pc'[p] \notin Inside /\ bank' = bank
    <3>1. kills' = kills
      BY <1>2, <2>5 DEF Step, Create, Choose, Read, Write, ReadTo, WriteTo,
                        Book, Audit, Start, Quit, Kill
    <3>2. ASSUME NEW q \in Proc, pc'[q] \in Inside
          PROVE  Fresh(q)' /\ Settled(q)'
      <4>1. /\ pc'[q] = pc[q] /\ op'[q] = op[q] /\ seen'[q] = seen[q]
            /\ pc[q] \in Inside
        BY <2>3, <2>5, <3>2
      <4>2. Fresh(q) /\ Settled(q)
        BY <2>2, <4>1
      <4>3. QED
        BY <2>5, <3>1, <4>1, <4>2
           DEF Fresh, Settled, Drift, Due, Entry, Gap, Within, bank
    <3>3. OneAtWork'
      BY <2>2, <2>3, <2>5 DEF OneAtWork
    <3>4. ASSUME \A q \in Proc : pc'[q] \notin Inside, NEW a \in open'
          PROVE  Within(Gap(a))'
      <4>1. Within(Gap(a))
        BY <2>2, <2>3, <2>5, <3>4 DEF bank
      <4>2. QED
        BY <2>5, <3>1, <4>1 DEF Gap, Within, bank
    <3>5. QED
      BY <3>2, <3>3, <3>4
  <2>6. QED
    BY <2>4, <2>5
<1>3. QED
  BY <1>1, <1>2 DEF Next

-----------------------------------------------------------------------------
LEMMA RunningType == Running \in Nat /\ IsFiniteSet({p \in Proc : pc[p] \in Inside})
<1>1. IsFiniteSet({p \in Proc : pc[p] \in Inside})
  BY BankAssumption, FS_Subset
<1>2. QED
  BY <1>1, FS_CardinalityType DEF Running

LEMMA RunningOne ==
  ASSUME OneAtWork, NEW p \in Proc, pc[p] \in Inside
  PROVE  Running = 1
<1>1. {q \in Proc : pc[q] \in Inside} = {p}
  BY DEF OneAtWork
<1>2. QED
  BY <1>1, FS_Singleton DEF Running

LEMMA LedgerGap == TypeOK /\ LedgerInv => GapWithinKills
<1> SUFFICES ASSUME TypeOK, LedgerInv, ~met, NEW a \in open
             PROVE  /\ -((kills + Running) * Largest) <= Gap(a)
                    /\ Gap(a) <= (kills + Running) * Largest
  BY DEF GapWithinKills
<1>0. a \in Acct /\ kills \in Nat /\ Largest \in Nat /\ OneAtWork
  BY LargestAmount, BankAssumption DEF TypeOK, LedgerInv
<1>1. CASE \E p \in Proc : pc[p] \in Inside
  <2>1. PICK p \in Proc : pc[p] \in Inside
    BY <1>1
  <2>2. Running = 1
    BY <1>0, <2>1, RunningOne
  <2>3. Within(Drift(p, a))
    BY <2>1 DEF LedgerInv, Settled
  <2>4. /\ Drift(p, a) \in Int /\ Due(p, a) \in Int /\ Gap(a) \in Int
        /\ -Largest <= Due(p, a) /\ Due(p, a) <= Largest
    BY <1>0, DriftInt, DueBound, GapInt
  <2>5. Gap(a) = Drift(p, a) + Due(p, a)
    BY <2>4 DEF Drift
  <2>6. /\ -((kills + 1) * Largest) <= Drift(p, a) + Due(p, a)
        /\ Drift(p, a) + Due(p, a) <= (kills + 1) * Largest
    BY <1>0, <2>3, <2>4, KillWidens DEF Within
  <2>7. QED
    BY <2>2, <2>5, <2>6
<1>2. CASE \A p \in Proc : pc[p] \notin Inside
  <2>1. {p \in Proc : pc[p] \in Inside} = {}
    BY <1>2
  <2>2. Running = 0
    BY <2>1, FS_EmptySet DEF Running
  <2>3. Within(Gap(a))
    BY <1>2 DEF LedgerInv
  <2>4. kills + Running = kills
    BY <1>0, <2>2
  <2>5. QED
    BY <2>3, <2>4 DEF Within
<1>3. QED
  BY <1>1, <1>2

LEMMA LedgerReconciles == TypeOK /\ LedgerInv => Reconciles
<1> SUFFICES ASSUME TypeOK, LedgerInv, ~met, kills = 0, Running = 0, NEW a \in open
             PROVE  Gap(a) = 0
  BY DEF Reconciles
<1>1. a \in Acct /\ Gap(a) \in Int
  BY GapInt DEF TypeOK
<1>2. {p \in Proc : pc[p] \in Inside} = {}
  BY RunningType, FS_EmptySet DEF Running
<1>3. \A p \in Proc : pc[p] \notin Inside
  BY <1>2
<1>4. Within(Gap(a))
  BY <1>3 DEF LedgerInv
<1>5. 0 * Largest = 0
  BY LargestAmount
<1>6. -0 <= Gap(a) /\ Gap(a) <= 0
  BY <1>4, <1>5 DEF Within
<1>7. QED
  BY <1>1, <1>6

\* While no two copies are at work at once, a kill leaves accounts and ledger
\* apart by at most the largest amount, and nothing done afterwards adds to it.
THEOREM GapBounded == Spec => []GapWithinKills
BY InitTypeOK, StepTypeOK, InitLedgerInv, StepLedgerInv, LedgerGap, PTL DEF Spec

\* Copies that take turns, and of which none is killed in an operation, keep
\* every balance equal to what the ledger says of it: refusals for want of
\* money, missing accounts and transfers to oneself included.
THEOREM BooksReconcile == Spec => []Reconciles
BY InitTypeOK, StepTypeOK, InitLedgerInv, StepLedgerInv, LedgerReconciles,
   PTL DEF Spec
=============================================================================
