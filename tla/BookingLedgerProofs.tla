------------------------ MODULE BookingLedgerProofs ------------------------
(***************************************************************************)
(* What the booking ledger guarantees, for any set of orders and units.    *)
(***************************************************************************)
EXTENDS BookingLedger, TLAPS

LedgerInv == LedgerTypeOK /\ NoUnitPromisedTwice

\* Book and Reassign put at o a booking whose units are free.
LEMMA PutKeepsPromises ==
  ASSUME LedgerInv, NEW o \in Order, NEW b, UnitsFree(o, b),
         ledger' = [ledger EXCEPT ![o] = b]
  PROVE  NoUnitPromisedTwice'
<1> SUFFICES ASSUME NEW p \in Order, NEW q \in Order, p # q,
                    ledger'[p] # None, ledger'[q] # None,
                    Clash(ledger'[p], ledger'[q])
             PROVE  UnitsOf(ledger'[p]) \cap UnitsOf(ledger'[q]) = {}
  BY DEF NoUnitPromisedTwice, Holders, Clash, UnitsOf
<1>1. CASE p = o
  <2>1. q \in Holders \ {o} /\ ledger'[q] = ledger[q] /\ ledger'[p] = b
    BY <1>1 DEF Holders, LedgerInv, LedgerTypeOK
  <2>2. QED
    BY <2>1 DEF UnitsFree
<1>2. CASE q = o
  <2>1. p \in Holders \ {o} /\ ledger'[p] = ledger[p] /\ ledger'[q] = b
    BY <1>2 DEF Holders, LedgerInv, LedgerTypeOK
  <2>2. Clash(b, ledger[p])
    BY <2>1 DEF Clash
  <2>3. QED
    BY <2>1, <2>2 DEF UnitsFree
<1>3. CASE p # o /\ q # o
  BY <1>3 DEF NoUnitPromisedTwice, Holders, LedgerInv, LedgerTypeOK
<1>4. QED
  BY <1>1, <1>2, <1>3

LEMMA LedgerInvStep == LedgerInv /\ [LedgerNext]_ledger => LedgerInv'
<1> SUFFICES ASSUME LedgerInv, [LedgerNext]_ledger PROVE LedgerInv'
  OBVIOUS
<1>1. CASE UNCHANGED ledger
  BY <1>1 DEF LedgerInv, LedgerTypeOK, NoUnitPromisedTwice, Holders, UnitsOf, Clash
<1>2. CASE \E o \in Order : Book(o, ledger'[o]) \/ Reassign(o, ledger'[o])
  <2>1. PICK o \in Order : /\ ledger'[o] \in Booking
                           /\ UnitsFree(o, ledger'[o])
                           /\ ledger' = [ledger EXCEPT ![o] = ledger'[o]]
    BY <1>2 DEF Book, Reassign
  <2>2. PICK b : b = ledger'[o]
    OBVIOUS
  <2>3. LedgerTypeOK'
    BY <2>1 DEF LedgerInv, LedgerTypeOK
  <2>4. UnitsFree(o, b) /\ ledger' = [ledger EXCEPT ![o] = b]
    BY <2>1, <2>2 DEF UnitsFree, Clash
  <2>5. QED
    BY <2>3, <2>4, PutKeepsPromises DEF LedgerInv
<1>3. CASE \E S \in SUBSET Holders : Release(S)
  BY <1>3 DEF Release, LedgerInv, LedgerTypeOK, NoUnitPromisedTwice, Holders,
              Clash, UnitsOf
<1>4. QED
  BY <1>1, <1>2, <1>3 DEF LedgerNext

\* The ledger never promises one unit to two orders for a common instant.
THEOREM LedgerKeepsPromises == LedgerSpec => []NoUnitPromisedTwice
<1>1. LedgerInit => LedgerInv
  BY DEF LedgerInit, LedgerInv, LedgerTypeOK, NoUnitPromisedTwice, Holders
<1>2. LedgerInv => NoUnitPromisedTwice
  BY DEF LedgerInv
<1>3. QED
  BY <1>1, <1>2, LedgerInvStep, PTL DEF LedgerSpec
============================================================================
