---------------------------- MODULE CentralBank ----------------------------
(***************************************************************************)
(* The bank of centerbank/: accounts and a ledger in one SQLite file, used *)
(* by any number of running copies of the program.  An operation is three  *)
(* to six SQL statements, each a transaction of its own; a copy may be     *)
(* killed between any two.                                                 *)
(*                                                                         *)
(* No result of sqlite3_step is looked at and no busy timeout is set, so   *)
(* that while another copy is in the middle of its statements, one of ours *)
(* may do nothing (SQLITE_BUSY): a read then gives -1, the value that also *)
(* stands for a missing account.                                           *)
(*                                                                         *)
(* Amounts are counted in some part of the currency's unit, Unit of which  *)
(* make one; nobody looks at the sign of what the user enters.  Of the     *)
(* ledger the sum of its entries for each account is kept, of the audit    *)
(* table nothing.                                                          *)
(***************************************************************************)
EXTENDS Integers, FiniteSets

CONSTANTS
  Proc,       \* copies of the program
  Acct,       \* account numbers
  Amount,     \* amounts a user enters, of any sign
  Unit,       \* what a 1 of the code is counted as
  MaxOps,     \* bound of the model: operations begun
  MaxKills    \* bound of the model: copies killed inside an operation

Size(m) == IF m < 0 THEN -m ELSE m

ASSUME BankAssumption ==
  /\ Amount \subseteq Int
  /\ \E m \in Amount : \A n \in Amount : Size(n) <= Size(m)  \* a double has a largest value
  /\ Unit \in Nat \ {0}
  /\ IsFiniteSet(Proc)
  /\ MaxOps \in Nat /\ MaxKills \in Nat

VARIABLES
  open,       \* accounts with a row in the table
  bal,        \* their balances
  booked,     \* what the entries of the ledger add up to, for each account
  opening,    \* ghost: booked[a] when a was opened
  debt,       \* ghost: what negative amounts have taken from each account
  pc, op, seen,  \* of each copy: the next statement, the operation, what
                 \* account_get_balance returned
  ops, kills,    \* operations begun, copies killed inside one
  met            \* ghost: two copies have been at work at the same time

bank == <<open, bal, booked, opening, debt>>
vars == <<open, bal, booked, opening, debt, pc, op, seen, ops, kills, met>>

\* account_get_balance's -1
Missing == -Unit

Types == {"deposit", "withdraw", "transfer"}
Op    == [type : Types, from : Acct, to : Acct, amount : Amount]
NoOp  == [type |-> "none"]

\* Between the statements of an operation.
Inside == {"read", "write", "readTo", "writeTo", "book", "audit"}

\* A database that db_init has just created.
Init ==
  /\ open = {} /\ bal = [a \in Acct |-> 0]
  /\ booked = [a \in Acct |-> 0] /\ opening = [a \in Acct |-> 0]
  /\ debt = [a \in Acct |-> 0]
  /\ pc = [p \in Proc |-> "off"] /\ seen = [p \in Proc |-> 0]
  /\ op = [p \in Proc |-> NoOp]
  /\ ops = 0 /\ kills = 0 /\ met = FALSE

\* Another copy holds the database, as far as this one can tell.
Busy(p) == \E q \in Proc \ {p} : pc[q] \in Inside

GoTo(p, where) == pc' = [pc EXCEPT ![p] = where]

\* The operation is over, and its variables with it.
Leave(p, where) ==
  /\ GoTo(p, where)
  /\ op' = [op EXCEPT ![p] = NoOp] /\ seen' = [seen EXCEPT ![p] = 0]

-----------------------------------------------------------------------------
Start(p) ==
  /\ pc[p] = "off" /\ GoTo(p, "prompt")
  /\ UNCHANGED <<open, bal, booked, opening, debt, op, seen, ops, kills, met>>

Quit(p) ==
  /\ pc[p] = "prompt" /\ GoTo(p, "off")
  /\ UNCHANGED <<open, bal, booked, opening, debt, op, seen, ops, kills, met>>

\* account_create: opening an account that exists fails and changes nothing.
Create(p, a) ==
  /\ pc[p] = "prompt" /\ ops < MaxOps
  /\ ops' = ops + 1 /\ met' = (met \/ Busy(p))
  /\ IF a \in open THEN UNCHANGED bank
     ELSE \/ /\ open' = open \cup {a}
             /\ opening' = [opening EXCEPT ![a] = booked[a]]
             /\ UNCHANGED <<bal, booked, debt>>
          \/ Busy(p) /\ UNCHANGED bank
  /\ UNCHANGED <<pc, op, seen, kills>>

\* The user chooses an operation and answers its questions.
Choose(p, o) ==
  /\ pc[p] = "prompt" /\ ops < MaxOps
  /\ ops' = ops + 1 /\ met' = (met \/ Busy(p))
  /\ op' = [op EXCEPT ![p] = o]
  /\ GoTo(p, "read")
  /\ UNCHANGED <<open, bal, booked, opening, debt, seen, kills>>

\* account_get_balance
Balances(p, a) ==
  {IF a \in open THEN bal[a] ELSE Missing} \cup
  (IF Busy(p) THEN {Missing} ELSE {})

\* Variant: the balance is not compared.
CoveredAlways(o, b) == TRUE

\* A withdrawal and a transfer ask for the money first, a deposit for nothing.
Covered(o, b) == o.type = "deposit" \/ b >= o.amount

Read(p) ==
  /\ pc[p] = "read"
  /\ \E b \in Balances(p, op[p].from) :
       IF Covered(op[p], b)
         THEN /\ seen' = [seen EXCEPT ![p] = b]
              /\ GoTo(p, "write") /\ UNCHANGED op
         ELSE Leave(p, "prompt")
  /\ UNCHANGED <<open, bal, booked, opening, debt, ops, kills, met>>

\* account_update_balance: without a row nothing happens.  The balance b has
\* been made by adding the amount m to one that was read.
Update(p, a, b, m) ==
  \/ /\ a \in open
     /\ bal' = [bal EXCEPT ![a] = b]
     /\ debt' = [debt EXCEPT ![a] = @ + (IF m < 0 THEN Size(m) ELSE 0)]
  \/ /\ a \notin open \/ Busy(p)
     /\ UNCHANGED <<bal, debt>>

\* The new balance of the first account.
After(o, b) == IF o.type = "deposit" THEN b + o.amount ELSE b - o.amount

Write(p) ==
  /\ pc[p] = "write"
  /\ Update(p, op[p].from, After(op[p], seen[p]),
            IF op[p].type = "deposit" THEN op[p].amount ELSE 0)
  /\ GoTo(p, IF op[p].type = "transfer" THEN "readTo" ELSE "book")
  /\ UNCHANGED <<open, booked, opening, op, seen, ops, kills, met>>

\* Variant: both balances were read before the first update.
ReadToEarly(p) ==
  /\ pc[p] = "readTo"
  /\ \E b \in Balances(p, op[p].to) :
       seen' = [seen EXCEPT ![p] = IF op[p].to = op[p].from THEN @ ELSE b]
  /\ GoTo(p, "writeTo")
  /\ UNCHANGED <<open, bal, booked, opening, debt, op, ops, kills, met>>

ReadTo(p) ==
  /\ pc[p] = "readTo"
  /\ \E b \in Balances(p, op[p].to) : seen' = [seen EXCEPT ![p] = b]
  /\ GoTo(p, "writeTo")
  /\ UNCHANGED <<open, bal, booked, opening, debt, op, ops, kills, met>>

WriteTo(p) ==
  /\ pc[p] = "writeTo"
  /\ Update(p, op[p].to, seen[p] + op[p].amount, op[p].amount)
  /\ GoTo(p, "book")
  /\ UNCHANGED <<open, booked, opening, op, seen, ops, kills, met>>

\* What an entry of the ledger says of account a.
Entry(o, a) ==
  CASE o.type = "deposit"  -> IF a = o.from THEN o.amount ELSE 0
    [] o.type = "withdraw" -> IF a = o.from THEN -o.amount ELSE 0
    [] OTHER -> (IF a = o.to THEN o.amount ELSE 0)
                - (IF a = o.from THEN o.amount ELSE 0)

\* Variant: the operation starts over when its entry could not be written.
BookAgain(p) ==
  /\ pc[p] = "book"
  /\ \/ /\ booked' = [a \in Acct |-> booked[a] + Entry(op[p], a)]
        /\ GoTo(p, "audit")
     \/ UNCHANGED booked /\ GoTo(p, "write")
  /\ UNCHANGED <<open, bal, opening, debt, op, seen, ops, kills, met>>

\* ledger_add
Book(p) ==
  /\ pc[p] = "book"
  /\ \/ booked' = [a \in Acct |-> booked[a] + Entry(op[p], a)]
     \/ Busy(p) /\ UNCHANGED booked
  /\ GoTo(p, "audit")
  /\ UNCHANGED <<open, bal, opening, debt, op, seen, ops, kills, met>>

\* audit_log, and the message to the user
Audit(p) ==
  /\ pc[p] = "audit"
  /\ Leave(p, "prompt")
  /\ UNCHANGED <<open, bal, booked, opening, debt, ops, kills, met>>

\* A copy is killed inside an operation.
Kill(p) ==
  /\ pc[p] \in Inside /\ kills < MaxKills
  /\ kills' = kills + 1
  /\ Leave(p, "off")
  /\ UNCHANGED <<open, bal, booked, opening, debt, ops, met>>

Step(p) ==
  \/ \E a \in Acct : Create(p, a)
  \/ \E o \in Op : Choose(p, o)
  \/ Read(p) \/ Write(p) \/ ReadTo(p) \/ WriteTo(p)
  \/ Book(p) \/ Audit(p) \/ Start(p) \/ Quit(p) \/ Kill(p)

Next == \E p \in Proc : Step(p)

Spec == Init /\ [][Next]_vars

-----------------------------------------------------------------------------
TypeOK ==
  /\ open \subseteq Acct
  /\ bal \in [Acct -> Int] /\ \A a \in Acct \ open : bal[a] = 0
  /\ booked \in [Acct -> Int] /\ opening \in [Acct -> Int]
  /\ debt \in [Acct -> Nat]
  /\ pc \in [Proc -> Inside \cup {"off", "prompt"}]
  /\ op \in [Proc -> Op \cup {NoOp}] /\ seen \in [Proc -> Int]
  /\ \A p \in Proc : pc[p] \in Inside <=> op[p] # NoOp
  /\ ops \in 0..MaxOps /\ kills \in 0..MaxKills /\ met \in BOOLEAN

\* An account is overdrawn by no more than the negative amounts deposited in
\* it or transferred to it, which nothing refuses: no withdrawal, and nothing
\* that is taken by a transfer, takes a balance below zero, of however many
\* copies of the program and with whatever statements refused, since updates
\* write values that were checked.  With several copies the -1 of a refused
\* read can be what an amount is added to.
OverdrawnAsEntered ==
  \A a \in Acct :
    bal[a] + debt[a] >= IF Cardinality(Proc) > 1 THEN Missing ELSE 0

Running == Cardinality({p \in Proc : pc[p] \in Inside})
Gap(a) == bal[a] - (booked[a] - opening[a])

\* As long as no two copies were at work at the same time and none was killed:
\* between two operations every balance is what the ledger says of the account
\* since it was opened, whether the operations named accounts that did not
\* exist, the same account twice, or more money than there was.
Reconciles ==
  (~met /\ kills = 0 /\ Running = 0) => \A a \in open : Gap(a) = 0

Sizes == {Size(m) : m \in Amount}
Largest == CHOOSE m \in Sizes : \A n \in Sizes : n <= m

\* As long as no two copies were at work at the same time: a kill leaves
\* accounts and ledger apart by at most the amount of the operation it hit;
\* operations after it never make the gap wider.
GapWithinKills ==
  ~met => \A a \in open : LET n == (kills + Running) * Largest
                          IN -n <= Gap(a) /\ Gap(a) <= n
=============================================================================
