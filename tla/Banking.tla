------------------------------ MODULE Banking ------------------------------
(***************************************************************************)
(* multithreading/banking.c: branches in a hash table with chains, every   *)
(* branch with a list of accounts.  Calls come in any order; an unknown    *)
(* branch exits the program, an unknown customer dereferences NULL.        *)
(***************************************************************************)
EXTENDS Naturals, SequencesExt

CONSTANTS Names,       \* branch names in use, from DOMAIN Hash
          Customers,
          Amounts,     \* what is deposited in one call
          MaxBranches, MaxAccounts, MaxDeposits   \* bounds on the calls

\* hash_function for the capacity of 5: three of main's branches collide.
Hash == [USA |-> 3, ITA |-> 2, NED |-> 0, ESP |-> 2, GER |-> 2, JAP |-> 4]
BANK_BRANCH_CAPACITY == 5

\* A balance is of type int, a premium gift is 100.
NoOverflow == \A amt \in Amounts : 100 + MaxDeposits * amt <= 2147483647

\* What a project that gives the constants values has to see to: branch_count is
\* of type uint8_t.
BranchAssumption ==
  /\ Names \subseteq DOMAIN Hash /\ Amounts \subseteq Nat
  /\ MaxBranches \in 0 .. 255 /\ MaxAccounts \in Nat /\ MaxDeposits \in Nat
  /\ NoOverflow

VARIABLES
  phase,      \* running, returned, exited, or crashed on a NULL pointer
  branches,   \* the chain of each index: records of an id and its accounts
  branch_count,
  deposited,  \* history: the sum of the deposits
  premium,    \* history: premium accounts opened
  deposits    \* deposits so far, bounded

vars == <<phase, branches, branch_count, deposited, premium, deposits>>

Init ==
  /\ phase = "running"
  /\ branches = [k \in 0..BANK_BRANCH_CAPACITY - 1 |-> <<>>]
  /\ branch_count = 0
  /\ deposited = 0 /\ premium = 0 /\ deposits = 0

Running == phase = "running"
-----------------------------------------------------------------------------
(* add_branch *)

\* The new branch goes to the end of its chain.
Chained(chain, b) == Append(chain, b)

add_branch(n) ==
  /\ Running /\ branch_count < MaxBranches
  /\ branches' = [branches EXCEPT ![Hash[n]] = Chained(@, [id |-> n, accounts |-> <<>>])]
  /\ branch_count' = branch_count + 1
  /\ UNCHANGED <<phase, deposited, premium, deposits>>
-----------------------------------------------------------------------------
(* find *)

\* The places of the branches with that id in their chain; the variant looks
\* at the first branch of the chain alone.
HeadOnly(n) == {k \in {1} \cap DOMAIN branches[Hash[n]] : branches[Hash[n]][k].id = n}
Matching(n) == {k \in DOMAIN branches[Hash[n]] : branches[Hash[n]][k].id = n}

Found(n) == Matching(n) # {}
\* The first of them; the variant goes on to the last.
LastMatch(n) == Max(Matching(n))
find(n) == Min(Matching(n))

\* A branch is unknown: the program exits.
ExitUnknown ==
  /\ phase' = "exited"
  /\ UNCHANGED <<branches, branch_count, deposited, premium, deposits>>

Accounts(n) == branches[Hash[n]][find(n)].accounts
-----------------------------------------------------------------------------
(* open_account *)

\* The next number of the list; the variant counts from zero.
NumberFromZero(list) == Len(list)
NextId(list) == IF list = <<>> THEN 1 ELSE Last(list).id + 1

OpenAccount(n, c, is_premium) ==
  /\ Running /\ Found(n) /\ Len(Accounts(n)) < MaxAccounts
  /\ branches' = [branches EXCEPT ![Hash[n]][find(n)].accounts =
                    Append(@, [id |-> NextId(@), customer |-> c,
                               balance |-> IF is_premium THEN 100 ELSE 0])]
  /\ premium' = IF is_premium THEN premium + 1 ELSE premium
  /\ UNCHANGED <<phase, branch_count, deposited, deposits>>

open_account(n, c, is_premium) ==
  OpenAccount(n, c, is_premium) \/ (Running /\ ~Found(n) /\ ExitUnknown)
-----------------------------------------------------------------------------
(* find_customer and deposit *)

Matches(n, c) == {k \in DOMAIN Accounts(n) : Accounts(n)[k].customer = c}

\* The new balance, an int that NoOverflow keeps from overflowing; the variant
\* overwrites the old one.
Overwrite(old, amt) == amt
Credited(old, amt) == old + amt

Deposit(n, c, amt) ==
  /\ Running /\ deposits < MaxDeposits
  /\ Found(n) /\ Matches(n, c) # {}
  /\ branches' = [branches EXCEPT ![Hash[n]][find(n)].accounts[Min(Matches(n, c))].balance =
                    Credited(@, amt)]
  /\ deposited' = deposited + amt /\ deposits' = deposits + 1
  /\ UNCHANGED <<phase, branch_count, premium>>

\* The message about the missing account reads the customer of the account.
DepositCrash(n, c) ==
  /\ Running /\ Found(n) /\ Matches(n, c) = {}
  /\ phase' = "crashed"
  /\ UNCHANGED <<branches, branch_count, deposited, premium, deposits>>

deposit(n, c, amt) ==
  Deposit(n, c, amt) \/ DepositCrash(n, c) \/ (Running /\ ~Found(n) /\ ExitUnknown)

\* main returns after its last call.
Return ==
  /\ Running
  /\ phase' = "returned"
  /\ UNCHANGED <<branches, branch_count, deposited, premium, deposits>>

Terminated == ~Running /\ UNCHANGED vars

Next ==
  \/ Return \/ Terminated
  \/ \E n \in Names : add_branch(n)
  \/ \E n \in Names, c \in Customers, p \in BOOLEAN : open_account(n, c, p)
  \/ \E n \in Names, c \in Customers, amt \in Amounts : deposit(n, c, amt)

Spec == Init /\ [][Next]_vars
-----------------------------------------------------------------------------
AllBranches == {p \in (DOMAIN branches) \X (1..MaxBranches) : p[2] \in DOMAIN branches[p[1]]}
BranchAt(p) == branches[p[1]][p[2]]
\* A branch and a place in its list.
AllAccounts == {t \in AllBranches \X (1..MaxAccounts) : t[2] \in DOMAIN BranchAt(t[1]).accounts}
Balances == [t \in AllAccounts |-> BranchAt(t[1]).accounts[t[2]].balance]

(* add_branch and open_account fill the chains with branches and
   accounts of the callers, as many as branch_count says.                   *)
TypeOK ==
  /\ phase \in {"running", "returned", "exited", "crashed"}
  /\ \A p \in AllBranches :
       /\ BranchAt(p).id \in Names
       /\ \A a \in ToSet(BranchAt(p).accounts) :
            a.id \in 1..MaxAccounts /\ a.customer \in Customers /\ a.balance \in Nat
  /\ branch_count = Cardinality(AllBranches)

(* Whatever collides, a branch is found under its name: it or an earlier one
   of the same name.                                                        *)
FindFinds == \A p \in AllBranches : Found(BranchAt(p).id) /\ Hash[BranchAt(p).id] = p[1]

(* A second branch of a name is never served: all accounts are with the first. *)
ShadowedIsEmpty ==
  \A p, q \in AllBranches :
    (p[1] = q[1] /\ p[2] < q[2] /\ BranchAt(p).id = BranchAt(q).id) => BranchAt(q).accounts = <<>>

(* Account numbers of a branch are 1, 2, 3 ... and none is given twice.     *)
IdsConsecutive ==
  \A p \in AllBranches : \A k \in DOMAIN BranchAt(p).accounts : BranchAt(p).accounts[k].id = k

(* The money in all branches is what was deposited and the premium gifts.   *)
MoneyAccounted ==
  LET balances == Balances
  IN  MapThenSumSet(LAMBDA t : balances[t], AllAccounts) = deposited + 100 * premium
=============================================================================
