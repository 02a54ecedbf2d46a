------------------------ MODULE SpendProcessorProofs ------------------------
(***************************************************************************)
(* What holds of the spend processor for every set of events, campaigns,   *)
(* organizations, passes and portal calls, every price and every audience. *)
(*                                                                         *)
(* The bounds on the money columns are not inductive by themselves: a pass *)
(* writes back a copy of a row that it read earlier.  IInv adds that every *)
(* copy in flight is within the same totals (CopiesInv), that the rows a   *)
(* pass holds are those of its event (RowsInv), and that the event is      *)
(* locked by that pass and still unsettled (LocksInv).                     *)
(***************************************************************************)
EXTENDS SpendProcessor, TLAPS

----------------------------------------------------------------------------
(* The cent arithmetic, for every rate, share and audience.               *)

(* Cents rounds half up: it agrees with the reference definition.          *)
THEOREM CentsIsHalfUp ==
    ASSUME NEW n \in Nat
    PROVE  Cents(n) \in Nat /\ IsHalfUp(Cents(n), n)
  BY DEF Cents, IsHalfUp, Scale

(* The reference definition picks out one whole number, so it is a         *)
(* definition of _cents and not only a bound on it.                        *)
THEOREM HalfUpIsUnique ==
    ASSUME NEW n \in Nat, NEW r \in Int, IsHalfUp(r, n)
    PROVE  r = Cents(n)
  BY DEF Cents, IsHalfUp, Scale

LEMMA CentsMonotone ==
    ASSUME NEW m \in Nat, NEW n \in Nat, m <= n
    PROVE  Cents(m) <= Cents(n)
  BY DEF Cents, Scale

LEMMA CentsOfWhole ==
    ASSUME NEW k \in Nat
    PROVE  k * Scale \in Nat /\ Cents(k * Scale) = k
  BY DEF Cents, Scale

LEMMA ProductNat ==
    ASSUME NEW x \in Nat, NEW y \in Nat
    PROVE  x * y \in Nat
  OBVIOUS

LEMMA ProductMonotone ==
    ASSUME NEW x \in Nat, NEW y \in Nat, NEW z \in Nat, y <= z
    PROVE  x * y <= x * z
<1>1. x * z - x * y = x * (z - y)
  OBVIOUS
<1>2. x * (z - y) \in Nat
  BY ProductNat, z - y \in Nat
<1>3. x * y \in Nat /\ x * z \in Nat
  BY ProductNat
<1> QED
  BY <1>1, <1>2, <1>3

(* The fleet owner's share of a charge is never more than the charge.      *)
THEOREM OemShareBounded ==
    ASSUME NEW charge \in Nat, NEW share \in 0..Scale
    PROVE  OemShare(charge, share) \in 0..charge
<1>0. share \in Nat /\ Scale \in Nat /\ share <= Scale
  BY DEF Scale
<1>1. charge * share \in Nat
  BY <1>0, ProductNat
<1>2. charge * share <= charge * Scale
  BY <1>0, ProductMonotone
<1>3. charge * Scale \in Nat
  BY <1>0, ProductNat
<1>4. Cents(charge * share) <= charge
  BY <1>1, <1>2, <1>3, CentsMonotone, CentsOfWhole
<1>5. Cents(charge * share) \in Nat
  BY <1>1, CentsIsHalfUp
<1> QED
  BY <1>4, <1>5 DEF OemShare

LEMMA GrossNat ==
    ASSUME NEW p \in Nat, NEW f \in Nat, NEW n \in Nat
    PROVE  GrossCents(p, f, n) \in Nat
<1>1. f * n \in Nat
  BY ProductNat
<1>2. p + (IF n > 0 THEN f * n ELSE 0) \in Nat
  BY <1>1
<1> QED
  BY <1>2, CentsIsHalfUp DEF GrossCents

(* A larger audience never makes a play cheaper.                           *)
THEOREM GrossMonotone ==
    ASSUME NEW p \in Nat, NEW f \in Nat, NEW m \in Nat, NEW n \in Nat, m <= n
    PROVE  GrossCents(p, f, m) <= GrossCents(p, f, n)
<1> DEFINE part(k) == IF k > 0 THEN f * k ELSE 0
<1>1. f * m \in Nat /\ f * n \in Nat /\ f * m <= f * n
  BY ProductNat, ProductMonotone
<1>2. p + part(m) \in Nat /\ p + part(n) \in Nat /\ p + part(m) <= p + part(n)
  BY <1>1
<1>3. Cents(p + part(m)) <= Cents(p + part(n))
  BY <1>2, CentsMonotone
<1> QED
  BY <1>3 DEF GrossCents

(* A quote loses no cent: what is charged is the OEM's part plus the       *)
(* platform's, both natural numbers, and a promo charges nothing.          *)
THEOREM QuoteSplits ==
    ASSUME NEW p \in Nat, NEW f \in Nat, NEW n \in Nat,
           NEW promo \in BOOLEAN, NEW share \in 0..Scale,
           NEW q, q = Quote(p, f, n, promo, share)
    PROVE  /\ q \in Quotes
           /\ q.charge = q.oem + q.kovio
           /\ q.charge = IF promo THEN 0 ELSE q.gross
<1> DEFINE gross  == GrossCents(p, f, n)
           charge == IF promo THEN 0 ELSE gross
           oem    == OemShare(charge, share)
<1>1. gross \in Nat
  BY GrossNat
<1>2. charge \in Nat
  BY <1>1
<1>3. oem \in 0..charge
  BY <1>2, OemShareBounded
<1> HIDE DEF gross, charge, oem
<1>4. charge - oem \in Nat /\ oem \in Nat /\ charge = oem + (charge - oem)
  BY <1>2, <1>3
<1>5. [gross |-> gross, charge |-> charge, oem |-> oem, kovio |-> charge - oem] \in Quotes
  BY <1>1, <1>2, <1>4 DEF Quotes
<1>6. Quote(p, f, n, promo, share)
        = [gross |-> gross, charge |-> charge, oem |-> oem, kovio |-> charge - oem]
  BY DEF Quote, gross, charge, oem
<1> QED
  BY <1>4, <1>5, <1>6 DEF charge

----------------------------------------------------------------------------
(* The processor.                                                          *)

USE KindsAssumption, WiringAssumption, PricesAssumption, BoundsAssumption, NoneAssumption
USE DEF events, campaigns, money, rows, portal, worker

LEMMA InitIInv == Init => IInv
<1> SUFFICES ASSUME Init PROVE IInv
  OBVIOUS
<1>1. TypeOK
  BY DEF Init, TypeOK, Final
<1>2. LocksInv
  BY DEF Init, LocksInv, InTransaction
<1>3. RowsInv
  BY DEF Init, RowsInv
<1>4. CopiesInv
  BY DEF Init, CopiesInv
<1>5. Bounds
  BY DEF Init, Bounds, NoOverdraft, BalanceBacked, SpentNeverOvercounts, PayoutNeverOvercounts
<1> QED
  BY <1>1, <1>2, <1>3, <1>4, <1>5 DEF IInv

LEMMA ReceiveIInv ==
    ASSUME IInv, NEW e \in Events, Receive(e)
    PROVE  IInv'
<1>1. TypeOK'
  BY DEF IInv, TypeOK, Receive, Final
<1>2. LocksInv'
  BY DEF IInv, TypeOK, LocksInv, InTransaction, Receive
<1>3. RowsInv'
  BY DEF IInv, TypeOK, LocksInv, InTransaction, RowsInv, Costable, Receive
<1>4. CopiesInv'
  BY DEF IInv, TypeOK, CopiesInv, Receive
<1>5. Bounds'
  BY DEF IInv, TypeOK, Bounds, NoOverdraft, BalanceBacked, SpentNeverOvercounts, PayoutNeverOvercounts, Receive
<1> QED
  BY <1>1, <1>2, <1>3, <1>4, <1>5 DEF IInv

LEMMA StartPassIInv ==
    ASSUME IInv, NEW w \in Workers, StartPass(w)
    PROVE  IInv'
<1>1. TypeOK'
  BY DEF IInv, TypeOK, StartPass, Candidates
<1>2. LocksInv'
  BY DEF IInv, TypeOK, LocksInv, InTransaction, StartPass
<1>3. RowsInv'
  BY DEF IInv, TypeOK, LocksInv, InTransaction, RowsInv, Costable, StartPass
<1>4. CopiesInv'
  BY DEF IInv, TypeOK, CopiesInv, StartPass
<1>5. Bounds'
  BY DEF IInv, TypeOK, Bounds, NoOverdraft, BalanceBacked, SpentNeverOvercounts, PayoutNeverOvercounts, StartPass
<1> QED
  BY <1>1, <1>2, <1>3, <1>4, <1>5 DEF IInv

LEMMA ClaimIInv ==
    ASSUME IInv, NEW w \in Workers, Claim(w)
    PROVE  IInv'
<1>1. TypeOK'
  BY DEF IInv, TypeOK, Claim, Claimable
<1>2. LocksInv'
  BY DEF IInv, TypeOK, LocksInv, InTransaction, Claim, Claimable
<1>3. RowsInv'
  BY DEF IInv, TypeOK, LocksInv, InTransaction, RowsInv, Costable, Claim, Claimable
<1>4. CopiesInv'
  BY DEF IInv, TypeOK, CopiesInv, Claim, Claimable
<1>5. Bounds'
  BY DEF IInv, TypeOK, Bounds, NoOverdraft, BalanceBacked, SpentNeverOvercounts, PayoutNeverOvercounts, Claim, Claimable
<1> QED
  BY <1>1, <1>2, <1>3, <1>4, <1>5 DEF IInv

LEMMA SkipTakenIInv ==
    ASSUME IInv, NEW w \in Workers, SkipTaken(w)
    PROVE  IInv'
<1>1. TypeOK'
  BY DEF IInv, TypeOK, SkipTaken
<1>2. LocksInv'
  BY DEF IInv, TypeOK, LocksInv, InTransaction, SkipTaken
<1>3. RowsInv'
  BY DEF IInv, TypeOK, LocksInv, InTransaction, RowsInv, Costable, SkipTaken
<1>4. CopiesInv'
  BY DEF IInv, TypeOK, CopiesInv, SkipTaken
<1>5. Bounds'
  BY DEF IInv, TypeOK, Bounds, NoOverdraft, BalanceBacked, SpentNeverOvercounts, PayoutNeverOvercounts, SkipTaken
<1> QED
  BY <1>1, <1>2, <1>3, <1>4, <1>5 DEF IInv

LEMMA EndPassIInv ==
    ASSUME IInv, NEW w \in Workers, EndPass(w)
    PROVE  IInv'
<1>1. TypeOK'
  BY DEF IInv, TypeOK, EndPass
<1>2. LocksInv'
  BY DEF IInv, TypeOK, LocksInv, InTransaction, EndPass
<1>3. RowsInv'
  BY DEF IInv, TypeOK, LocksInv, InTransaction, RowsInv, Costable, EndPass
<1>4. CopiesInv'
  BY DEF IInv, TypeOK, CopiesInv, EndPass
<1>5. Bounds'
  BY DEF IInv, TypeOK, Bounds, NoOverdraft, BalanceBacked, SpentNeverOvercounts, PayoutNeverOvercounts, EndPass
<1> QED
  BY <1>1, <1>2, <1>3, <1>4, <1>5 DEF IInv

LEMMA DropUnreferencedIInv ==
    ASSUME IInv, NEW w \in Workers, DropUnreferenced(w)
    PROVE  IInv'
<1>1. TypeOK'
  BY DEF IInv, TypeOK, DropUnreferenced, Finish, Final, LocksInv, InTransaction
<1>2. LocksInv'
  BY DEF IInv, TypeOK, LocksInv, InTransaction, DropUnreferenced, Finish
<1>3. RowsInv'
  BY DEF IInv, TypeOK, LocksInv, InTransaction, RowsInv, Costable, DropUnreferenced, Finish
<1>4. CopiesInv'
  BY DEF IInv, TypeOK, CopiesInv, DropUnreferenced, Finish
<1>5. Bounds'
  BY DEF IInv, TypeOK, Bounds, NoOverdraft, BalanceBacked, SpentNeverOvercounts, PayoutNeverOvercounts, DropUnreferenced, Finish
<1> QED
  BY <1>1, <1>2, <1>3, <1>4, <1>5 DEF IInv

LEMMA LoadCampaignIInv ==
    ASSUME IInv, NEW w \in Workers, LoadCampaign(w)
    PROVE  IInv'
<1>1. TypeOK'
  BY DEF IInv, TypeOK, LoadCampaign, Load, CampaignRows, LocksInv, InTransaction
<1>2. LocksInv'
  BY DEF IInv, TypeOK, LocksInv, InTransaction, LoadCampaign, Load, CampaignRows
<1>3. RowsInv'
  BY DEF IInv, TypeOK, LocksInv, InTransaction, RowsInv, Costable, LoadCampaign, Load, CampaignRows
<1>4. CopiesInv'
  <2>1. ASSUME NEW v \in Workers, campaignRow'[v] # None
        PROVE  campaignRow'[v].spent <= grossed'[campaignRow'[v].id]
    <3>1. CASE v # w
      BY <2>1, <3>1 DEF IInv, TypeOK, CopiesInv, LoadCampaign
    <3>2. CASE v = w /\ campaignRow'[w] = campaignRow[w]
      BY <2>1, <3>2 DEF IInv, TypeOK, CopiesInv, LoadCampaign
    <3>3. CASE v = w /\ campaignRow'[w] # campaignRow[w]
      BY <2>1, <3>3 DEF IInv, TypeOK, LocksInv, InTransaction, Bounds, SpentNeverOvercounts, LoadCampaign, Load
    <3> QED
      BY <3>1, <3>2, <3>3
  <2> QED
    BY <2>1 DEF IInv, CopiesInv, LoadCampaign
<1>5. Bounds'
  BY DEF IInv, TypeOK, Bounds, NoOverdraft, BalanceBacked, SpentNeverOvercounts, PayoutNeverOvercounts, LoadCampaign, Load, CampaignRows
<1> QED
  BY <1>1, <1>2, <1>3, <1>4, <1>5 DEF IInv

LEMMA DropDisabledIInv ==
    ASSUME IInv, NEW w \in Workers, DropDisabled(w)
    PROVE  IInv'
<1>1. TypeOK'
  BY DEF IInv, TypeOK, DropDisabled, Finish, Final, LocksInv, InTransaction
<1>2. LocksInv'
  BY DEF IInv, TypeOK, LocksInv, InTransaction, DropDisabled, Finish
<1>3. RowsInv'
  BY DEF IInv, TypeOK, LocksInv, InTransaction, RowsInv, Costable, DropDisabled, Finish
<1>4. CopiesInv'
  BY DEF IInv, TypeOK, CopiesInv, DropDisabled, Finish
<1>5. Bounds'
  BY DEF IInv, TypeOK, Bounds, NoOverdraft, BalanceBacked, SpentNeverOvercounts, PayoutNeverOvercounts, DropDisabled, Finish
<1> QED
  BY <1>1, <1>2, <1>3, <1>4, <1>5 DEF IInv

LEMMA LoadAdvertiserIInv ==
    ASSUME IInv, NEW w \in Workers, LoadAdvertiser(w)
    PROVE  IInv'
<1>1. TypeOK'
  BY DEF IInv, TypeOK, LoadAdvertiser, Load, AdvertiserRows, Costable, CampaignRows, LocksInv, InTransaction
<1>2. LocksInv'
  BY DEF IInv, TypeOK, LocksInv, InTransaction, LoadAdvertiser, Load, AdvertiserRows, Costable, CampaignRows
<1>3. RowsInv'
  BY DEF IInv, TypeOK, LocksInv, InTransaction, RowsInv, Costable, LoadAdvertiser, Load, AdvertiserRows, Costable, CampaignRows
<1>4. CopiesInv'
  BY DEF IInv, TypeOK, CopiesInv, LoadAdvertiser, Load, AdvertiserRows, Costable, CampaignRows, Bounds, NoOverdraft, BalanceBacked
<1>5. Bounds'
  BY DEF IInv, TypeOK, Bounds, NoOverdraft, BalanceBacked, SpentNeverOvercounts, PayoutNeverOvercounts, LoadAdvertiser, Load, AdvertiserRows, Costable, CampaignRows
<1> QED
  BY <1>1, <1>2, <1>3, <1>4, <1>5 DEF IInv

LEMMA LoadOemIInv ==
    ASSUME IInv, NEW w \in Workers, LoadOem(w)
    PROVE  IInv'
<1>1. TypeOK'
  BY DEF IInv, TypeOK, LoadOem, Load, OemRows, LocksInv, InTransaction
<1>2. LocksInv'
  BY DEF IInv, TypeOK, LocksInv, InTransaction, LoadOem, Load, OemRows
<1>3. RowsInv'
  BY DEF IInv, TypeOK, LocksInv, InTransaction, RowsInv, Costable, LoadOem, Load, OemRows
<1>4. CopiesInv'
  <2>1. ASSUME NEW v \in Workers, oemRow'[v] # None
        PROVE  oemRow'[v].pending <= accrued'[oemRow'[v].id]
    <3>1. CASE v # w
      BY <2>1, <3>1 DEF IInv, TypeOK, CopiesInv, LoadOem
    <3>2. CASE v = w /\ oemRow'[w] = oemRow[w]
      BY <2>1, <3>2 DEF IInv, TypeOK, CopiesInv, LoadOem
    <3>3. CASE v = w /\ oemRow'[w] # oemRow[w]
      BY <2>1, <3>3 DEF IInv, TypeOK, LocksInv, InTransaction, Bounds, PayoutNeverOvercounts, LoadOem, Load
    <3> QED
      BY <3>1, <3>2, <3>3
  <2> QED
    BY <2>1 DEF IInv, CopiesInv, LoadOem
<1>5. Bounds'
  BY DEF IInv, TypeOK, Bounds, NoOverdraft, BalanceBacked, SpentNeverOvercounts, PayoutNeverOvercounts, LoadOem, Load, OemRows
<1> QED
  BY <1>1, <1>2, <1>3, <1>4, <1>5 DEF IInv

(* In the last step of a transaction the rows loaded are those of the      *)
(* event, and the price has the properties of a quote.                     *)
LEMMA PricedQuote ==
    ASSUME IInv, NEW w \in Workers, pc[w] = "oem", NEW n \in Attended
    PROVE  /\ event[w] \in Events
           /\ campaignRow[w] \in CampaignRows /\ campaignRow[w].id = CampaignOf[event[w]]
           /\ advertiserRow[w] \in AdvertiserRows
           /\ advertiserRow[w].id = AdvertiserOf[campaignRow[w].id]
           /\ oemRow[w] \in OemRows /\ oemRow[w].id = OemOf[FleetOf[event[w]]]
           /\ PriceOf(w, n) \in Quotes
           /\ PriceOf(w, n).charge = PriceOf(w, n).oem + PriceOf(w, n).kovio
<1>1. /\ event[w] \in Events
      /\ campaignRow[w] \in CampaignRows /\ campaignRow[w].id = CampaignOf[event[w]]
      /\ advertiserRow[w] \in AdvertiserRows
      /\ advertiserRow[w].id = AdvertiserOf[campaignRow[w].id]
      /\ oemRow[w] \in OemRows /\ oemRow[w].id = OemOf[FleetOf[event[w]]]
  BY DEF IInv, TypeOK, LocksInv, InTransaction, RowsInv, Costable
<1> DEFINE c == campaignRow[w].id
<1>2. c \in Campaigns /\ FleetOf[event[w]] \in Fleets
  BY <1>1 DEF CampaignRows
<1>3. /\ PerImpression[c] \in Nat /\ PerAttended[c] \in Nat /\ IsPromo[c] \in BOOLEAN
      /\ SharePct[FleetOf[event[w]]] \in 0..Scale /\ n \in Nat
  BY <1>2
<1> HIDE DEF c
<1>4. PriceOf(w, n) = Quote(PerImpression[c], PerAttended[c], n, IsPromo[c], SharePct[FleetOf[event[w]]])
  BY DEF PriceOf, c
<1>5. PICK b \in BOOLEAN, x \in Nat, y \in Nat, s \in 0..Scale :
          PriceOf(w, n) = Quote(x, y, n, b, s)
  BY <1>3, <1>4, Zenon
<1>6. n \in Nat
  OBVIOUS
<1>7. /\ Quote(x, y, n, b, s) \in Quotes
      /\ Quote(x, y, n, b, s).charge = Quote(x, y, n, b, s).oem + Quote(x, y, n, b, s).kovio
  BY <1>6, QuoteSplits
<1>8. PriceOf(w, n) \in Quotes /\ PriceOf(w, n).charge = PriceOf(w, n).oem + PriceOf(w, n).kovio
  BY <1>5, <1>7, Zenon
<1> QED
  BY <1>1, <1>8

LEMMA DeclineIInv ==
    ASSUME IInv, NEW w \in Workers, Decline(w)
    PROVE  IInv'
<1>0. /\ pc[w] = "oem" /\ event[w] \in Events
      /\ campaignRow[w] \in CampaignRows
  BY PricedQuote DEF Decline, Audiences
<1>1. TypeOK'
  <2>1. campaignRow' \in [Workers -> CampaignRows \cup {None}]
    BY <1>0 DEF IInv, TypeOK, Decline, CampaignRows
  <2>2. status' \in [Campaigns -> {"active", "paused"}]
    BY <1>0 DEF IInv, TypeOK, Decline, CampaignRows
  <2> QED
    BY <1>0, <2>1, <2>2 DEF IInv, TypeOK, Decline, Finish, Final
<1>2. LocksInv'
  BY <1>0 DEF IInv, TypeOK, LocksInv, InTransaction, Decline, Finish
<1>3. RowsInv'
  BY <1>0 DEF IInv, TypeOK, LocksInv, InTransaction, RowsInv, Costable, Decline, Finish
<1>4. CopiesInv'
  <2>1. campaignRow'[w].spent = campaignRow[w].spent /\ campaignRow'[w].id = campaignRow[w].id
    BY <1>0 DEF IInv, TypeOK, Decline, CampaignRows
  <2> QED
    BY <1>0, <2>1 DEF IInv, TypeOK, CopiesInv, Decline, Finish
<1>5. Bounds'
  BY DEF IInv, Bounds, NoOverdraft, BalanceBacked, SpentNeverOvercounts, PayoutNeverOvercounts,
         Decline
<1> QED
  BY <1>1, <1>2, <1>3, <1>4, <1>5 DEF IInv

(* What a billing transaction writes stays within the totals it writes     *)
(* with it, because the copies it starts from are within the old totals.   *)
LEMMA BillIInv ==
    ASSUME IInv, NEW w \in Workers, NEW n \in Attended, Bill(w, PriceOf(w, n))
    PROVE  IInv'
<1> DEFINE q == PriceOf(w, n)
           e == event[w]
           row == campaignRow[w]
           a == advertiserRow[w]
           o == oemRow[w]
           total == row.spent + q.gross
           after == IF Exhausted(row.id, total) THEN "paused" ELSE row.status
<1>1. pc[w] = "oem"
  BY DEF Bill
<1>2. /\ e \in Events /\ row \in CampaignRows /\ a \in AdvertiserRows /\ o \in OemRows
      /\ q \in Quotes
  BY <1>1, PricedQuote
<1>3. /\ row.id \in Campaigns /\ a.id \in Advertisers /\ o.id \in Oems
      /\ row.spent \in Nat /\ a.balance \in Int /\ o.pending \in Nat
      /\ row.enabled \in BOOLEAN /\ row.status \in {"active", "paused"}
      /\ q.gross \in Nat /\ q.charge \in Nat /\ q.oem \in Nat
  BY <1>2 DEF CampaignRows, AdvertiserRows, OemRows, Quotes
<1>4. /\ row.spent <= grossed[row.id]
      /\ 0 <= a.balance /\ a.balance <= deposited[a.id]
      /\ o.pending <= accrued[o.id]
  BY <1>1, <1>2 DEF IInv, CopiesInv, RowsInv, Costable
<1>5. q.charge <= a.balance
  BY <1>3, <1>4 DEF Bill, Insufficient
<1>6. /\ impression' = [impression EXCEPT ![e] = q]
      /\ charged' = [charged EXCEPT ![a.id] = @ + q.charge]
      /\ accrued' = [accrued EXCEPT ![o.id] = @ + q.oem]
      /\ grossed' = [grossed EXCEPT ![row.id] = @ + q.gross]
      /\ spent' = Flush(spent, row.id, row.spent, total)
      /\ balance' = Flush(balance, a.id, a.balance, a.balance - q.charge)
      /\ pending' = Flush(pending, o.id, o.pending, o.pending + q.oem)
      /\ status' = Flush(status, row.id, row.status, after)
      /\ campaignRow' = [campaignRow EXCEPT ![w] = [row EXCEPT !.spent = total, !.status = after]]
      /\ advertiserRow' = [advertiserRow EXCEPT ![w].balance = @ - q.charge]
      /\ oemRow' = [oemRow EXCEPT ![w].pending = @ + q.oem]
      /\ Finish(w, "costed")
      /\ UNCHANGED <<enabled, deposited, todo, sawEnabled, crashes, stage, task>>
  BY DEF Bill, WriteStatus, BudgetUse, PayoutDue
<1>7. after \in {"active", "paused"} /\ total \in Nat
  BY <1>3
<1>8. /\ [row EXCEPT !.spent = total, !.status = after] \in CampaignRows
      /\ [row EXCEPT !.spent = total, !.status = after].id = row.id
      /\ [row EXCEPT !.spent = total, !.status = after].spent = total
  BY <1>2, <1>7 DEF CampaignRows
<1>9. /\ advertiserRow'[w] \in AdvertiserRows
      /\ advertiserRow'[w].id = a.id
      /\ advertiserRow'[w].balance = a.balance - q.charge
  <2>1. advertiserRow'[w] = [a EXCEPT !.balance = @ - q.charge]
    BY <1>6 DEF IInv, TypeOK
  <2> HIDE DEF q, a
  <2> QED
    BY <1>2, <1>3, <2>1 DEF AdvertiserRows
<1>10. /\ oemRow'[w] \in OemRows
       /\ oemRow'[w].id = o.id
       /\ oemRow'[w].pending = o.pending + q.oem
  <2>1. oemRow'[w] = [o EXCEPT !.pending = @ + q.oem]
    BY <1>6 DEF IInv, TypeOK
  <2> HIDE DEF q, o
  <2> QED
    BY <1>2, <1>3, <2>1 DEF OemRows
<1>11. \A v \in Workers \ {w} : /\ campaignRow'[v] = campaignRow[v]
                                /\ advertiserRow'[v] = advertiserRow[v]
                                /\ oemRow'[v] = oemRow[v]
                                /\ pc'[v] = pc[v] /\ event'[v] = event[v]
  BY <1>6 DEF IInv, TypeOK, Finish
<1>12. campaignRow'[w].id = row.id /\ campaignRow'[w].spent = row.spent + q.gross
  <2>1. campaignRow'[w] = [row EXCEPT !.spent = total, !.status = after]
    BY <1>6 DEF IInv, TypeOK
  <2> QED
    BY <1>8, <2>1
<1> HIDE DEF q, e, row, a, o, total, after
<1>13. TypeOK'
  <2>1. spent' \in [Campaigns -> Nat] /\ grossed' \in [Campaigns -> Nat]
    BY <1>3, <1>6, <1>7 DEF IInv, TypeOK, Flush
  <2>2. balance' \in [Advertisers -> Int] /\ charged' \in [Advertisers -> Nat]
    BY <1>3, <1>6 DEF IInv, TypeOK, Flush
  <2>3. pending' \in [Oems -> Nat] /\ accrued' \in [Oems -> Nat]
    BY <1>3, <1>6 DEF IInv, TypeOK, Flush
  <2>4. status' \in [Campaigns -> {"active", "paused"}]
    BY <1>3, <1>6, <1>7 DEF IInv, TypeOK, Flush
  <2>5. impression' \in [Events -> Quotes \cup {None}]
    BY <1>2, <1>6 DEF IInv, TypeOK
  <2>6. campaignRow' \in [Workers -> CampaignRows \cup {None}]
    BY <1>6, <1>8 DEF IInv, TypeOK
  <2>7. advertiserRow' \in [Workers -> AdvertiserRows \cup {None}]
    BY <1>6, <1>9, <1>11 DEF IInv, TypeOK
  <2>8. oemRow' \in [Workers -> OemRows \cup {None}]
    BY <1>6, <1>10, <1>11 DEF IInv, TypeOK
  <2>9. /\ outcome' \in [Events -> {"absent", "pending"} \cup Final]
        /\ lock' \in [Events -> Workers \cup {None}]
        /\ event' \in [Workers -> Events \cup {None}]
        /\ pc' \in [Workers -> {"idle", "scan", "claimed", "campaign", "advertiser", "oem"}]
    BY <1>6 DEF IInv, TypeOK, Finish, Final
  <2> QED
    BY <1>6, <2>1, <2>2, <2>3, <2>4, <2>5, <2>6, <2>7, <2>8, <2>9 DEF IInv, TypeOK
<1>14. LocksInv'
  BY <1>1, <1>2, <1>6 DEF IInv, TypeOK, LocksInv, InTransaction, Finish, e
<1>15. RowsInv'
  <2>1. pc'[w] = "scan"
    BY <1>6 DEF IInv, TypeOK, Finish
  <2> QED
    BY <1>11, <2>1 DEF IInv, RowsInv, Costable
<1>16. CopiesInv'
  <2>1. ASSUME NEW c \in Campaigns PROVE grossed[c] <= grossed'[c]
    BY <1>3, <1>6 DEF IInv, TypeOK
  <2>2. ASSUME NEW m \in Oems PROVE accrued[m] <= accrued'[m]
    BY <1>3, <1>6 DEF IInv, TypeOK
  <2>3. ASSUME NEW v \in Workers, campaignRow'[v] # None
        PROVE  campaignRow'[v].spent <= grossed'[campaignRow'[v].id]
    <3>1. CASE v = w
      <4>1. grossed'[row.id] = grossed[row.id] + q.gross /\ grossed[row.id] \in Nat
        BY <1>3, <1>6 DEF IInv, TypeOK
      <4> QED
        BY <1>3, <1>4, <1>12, <3>1, <4>1
    <3>2. CASE v # w
      <4>1. /\ campaignRow[v] \in CampaignRows
            /\ campaignRow[v].spent <= grossed[campaignRow[v].id]
        BY <1>11, <2>3, <3>2 DEF IInv, TypeOK, CopiesInv
      <4>2. campaignRow[v].id \in Campaigns /\ campaignRow[v].spent \in Nat
        BY <4>1 DEF CampaignRows
      <4>3. grossed[campaignRow[v].id] \in Nat /\ grossed'[campaignRow[v].id] \in Nat
        BY <1>13, <4>2 DEF IInv, TypeOK
      <4> QED
        BY <1>11, <2>1, <3>2, <4>1, <4>2, <4>3
    <3> QED
      BY <3>1, <3>2
  <2>4. ASSUME NEW v \in Workers, advertiserRow'[v] # None
        PROVE  /\ 0 <= advertiserRow'[v].balance
               /\ advertiserRow'[v].balance <= deposited'[advertiserRow'[v].id]
    <3>1. CASE v = w
      <4>1. deposited[a.id] \in Nat /\ deposited' = deposited
        BY <1>3, <1>6 DEF IInv, TypeOK
      <4> QED
        BY <1>3, <1>4, <1>5, <1>9, <3>1, <4>1
    <3>2. CASE v # w
      BY <1>6, <1>11, <2>4, <3>2 DEF IInv, CopiesInv
    <3> QED
      BY <3>1, <3>2
  <2>5. ASSUME NEW v \in Workers, oemRow'[v] # None
        PROVE  oemRow'[v].pending <= accrued'[oemRow'[v].id]
    <3>1. CASE v = w
      <4>1. accrued'[o.id] = accrued[o.id] + q.oem /\ accrued[o.id] \in Nat
        BY <1>3, <1>6 DEF IInv, TypeOK
      <4> QED
        BY <1>3, <1>4, <1>10, <3>1, <4>1
    <3>2. CASE v # w
      <4>1. oemRow[v] \in OemRows /\ oemRow[v].pending <= accrued[oemRow[v].id]
        BY <1>11, <2>5, <3>2 DEF IInv, TypeOK, CopiesInv
      <4>2. oemRow[v].id \in Oems /\ oemRow[v].pending \in Nat
        BY <4>1 DEF OemRows
      <4>3. accrued[oemRow[v].id] \in Nat /\ accrued'[oemRow[v].id] \in Nat
        BY <1>13, <4>2 DEF IInv, TypeOK
      <4> QED
        BY <1>11, <2>2, <3>2, <4>1, <4>2, <4>3
    <3> QED
      BY <3>1, <3>2
  <2>6. \A r \in Requests : stage'[r] = "open" =>
          /\ task'[r] # None
          /\ task'[r].op = "deposit" =>
                0 <= task'[r].seen /\ task'[r].seen <= deposited'[task'[r].org]
    BY <1>6 DEF IInv, CopiesInv
  <2> QED
    BY <2>3, <2>4, <2>5, <2>6 DEF CopiesInv
<1>17. Bounds'
  <2>1. NoOverdraft' /\ BalanceBacked'
    BY <1>3, <1>4, <1>5, <1>6 DEF IInv, TypeOK, Bounds, NoOverdraft, BalanceBacked, Flush
  <2>2. SpentNeverOvercounts'
    <3> SUFFICES ASSUME NEW c \in Campaigns PROVE spent'[c] <= grossed'[c]
      BY DEF SpentNeverOvercounts
    <3>1. spent[c] \in Nat /\ grossed[c] \in Nat /\ spent[c] <= grossed[c]
      BY DEF IInv, TypeOK, Bounds, SpentNeverOvercounts
    <3>2. grossed'[c] = IF c = row.id THEN grossed[c] + q.gross ELSE grossed[c]
      BY <1>6 DEF IInv, TypeOK
    <3>3. spent'[c] = spent[c] \/ (c = row.id /\ spent'[c] = row.spent + q.gross)
      BY <1>6 DEF IInv, TypeOK, Flush, total
    <3> QED
      BY <1>3, <1>4, <3>1, <3>2, <3>3
  <2>3. PayoutNeverOvercounts'
    <3> SUFFICES ASSUME NEW m \in Oems PROVE pending'[m] <= accrued'[m]
      BY DEF PayoutNeverOvercounts
    <3>1. pending[m] \in Nat /\ accrued[m] \in Nat /\ pending[m] <= accrued[m]
      BY DEF IInv, TypeOK, Bounds, PayoutNeverOvercounts
    <3>2. accrued'[m] = IF m = o.id THEN accrued[m] + q.oem ELSE accrued[m]
      BY <1>6 DEF IInv, TypeOK
    <3>3. pending'[m] = pending[m] \/ (m = o.id /\ pending'[m] = o.pending + q.oem)
      BY <1>6 DEF IInv, TypeOK, Flush
    <3> QED
      BY <1>3, <1>4, <3>1, <3>2, <3>3
  <2> QED
    BY <2>1, <2>2, <2>3 DEF Bounds
<1> QED
  BY <1>13, <1>14, <1>15, <1>16, <1>17 DEF IInv

(* Abort and Crash leave in the same way.                                  *)
LEMMA LeaveIInv ==
    ASSUME IInv, NEW w \in Workers, Leave(w), crashes' \in 0..MaxCrashes
    PROVE  IInv'
<1>1. TypeOK'
  BY DEF IInv, TypeOK, Leave, Released
<1>2. LocksInv'
  BY DEF IInv, TypeOK, LocksInv, InTransaction, Leave, Released
<1>3. RowsInv'
  BY DEF IInv, TypeOK, LocksInv, InTransaction, RowsInv, Costable, Leave, Released
<1>4. CopiesInv'
  BY DEF IInv, TypeOK, CopiesInv, Leave, Released
<1>5. Bounds'
  BY DEF IInv, TypeOK, Bounds, NoOverdraft, BalanceBacked, SpentNeverOvercounts, PayoutNeverOvercounts,
         Leave, Released
<1> QED
  BY <1>1, <1>2, <1>3, <1>4, <1>5 DEF IInv

LEMMA OpenDepositIInv ==
    ASSUME IInv, NEW r \in Requests, OpenDeposit(r)
    PROVE  IInv'
<1>1. TypeOK'
  BY DEF IInv, TypeOK, OpenDeposit, Deposits
<1>2. LocksInv'
  BY DEF IInv, TypeOK, LocksInv, InTransaction, OpenDeposit, Deposits
<1>3. RowsInv'
  BY DEF IInv, TypeOK, LocksInv, InTransaction, RowsInv, Costable, OpenDeposit, Deposits
<1>4. CopiesInv'
  BY DEF IInv, TypeOK, CopiesInv, OpenDeposit, Deposits, Bounds, NoOverdraft, BalanceBacked
<1>5. Bounds'
  BY DEF IInv, TypeOK, Bounds, NoOverdraft, BalanceBacked, SpentNeverOvercounts, PayoutNeverOvercounts,
         OpenDeposit, Deposits
<1> QED
  BY <1>1, <1>2, <1>3, <1>4, <1>5 DEF IInv

LEMMA CommitDepositIInv ==
    ASSUME IInv, NEW r \in Requests, CommitDeposit(r)
    PROVE  IInv'
<1> DEFINE t == task[r]
<1>0. /\ t.org \in Advertisers /\ t.seen \in Int /\ t.amount \in Nat
      /\ 0 <= t.seen /\ t.seen <= deposited[t.org]
      /\ balance' = Flush(balance, t.org, t.seen, t.seen + t.amount)
      /\ deposited' = [deposited EXCEPT ![t.org] = @ + t.amount]
      /\ UNCHANGED <<campaignRow, advertiserRow, oemRow, grossed, accrued, pending, spent>>
      /\ stage' = [stage EXCEPT ![r] = "closed"] /\ task' = [task EXCEPT ![r] = None]
  <2>1. task[r] # None /\ task[r].op = "deposit" /\ task[r] \in Deposits \cup Toggles \cup {None}
    BY DEF CommitDeposit, IsOpen, IInv, TypeOK, CopiesInv
  <2>2. t \in Deposits
    BY <2>1 DEF Toggles
  <2>3. 0 <= t.seen /\ t.seen <= deposited[t.org]
    BY <2>1 DEF CommitDeposit, IsOpen, IInv, CopiesInv
  <2> QED
    BY <2>2, <2>3 DEF CommitDeposit, Close, LedgerDeposit, Deposits, worker, campaigns
<1> HIDE DEF t
<1>a. ASSUME NEW x \in Advertisers
      PROVE  deposited[x] \in Nat /\ deposited'[x] \in Nat /\ deposited[x] <= deposited'[x]
  BY <1>0 DEF IInv, TypeOK
<1>1. TypeOK'
  <2>1. balance' \in [Advertisers -> Int]
    BY <1>0 DEF IInv, TypeOK, Flush
  <2>2. deposited' \in [Advertisers -> Nat]
    BY <1>0 DEF IInv, TypeOK
  <2>3. /\ stage' \in [Requests -> {"new", "open", "closed"}]
        /\ task' \in [Requests -> Deposits \cup Toggles \cup {None}]
    BY <1>0 DEF IInv, TypeOK
  <2> QED
    BY <2>1, <2>2, <2>3 DEF IInv, TypeOK, CommitDeposit
<1>2. LocksInv'
  BY DEF IInv, TypeOK, LocksInv, InTransaction, CommitDeposit, IsOpen, Close, Flush, LedgerDeposit, Deposits, Toggles
<1>3. RowsInv'
  BY DEF IInv, TypeOK, LocksInv, InTransaction, RowsInv, Costable, CommitDeposit, IsOpen, Close, Flush, LedgerDeposit, Deposits, Toggles
<1>4. CopiesInv'
  <2>1. ASSUME NEW w \in Workers, advertiserRow[w] # None
        PROVE  0 <= advertiserRow[w].balance /\ advertiserRow[w].balance <= deposited'[advertiserRow[w].id]
    <3>1. /\ advertiserRow[w] \in AdvertiserRows
          /\ 0 <= advertiserRow[w].balance
          /\ advertiserRow[w].balance <= deposited[advertiserRow[w].id]
      BY <2>1 DEF IInv, TypeOK, CopiesInv
    <3>2. advertiserRow[w].id \in Advertisers /\ advertiserRow[w].balance \in Int
      BY <3>1 DEF AdvertiserRows
    <3> QED
      BY <1>a, <3>1, <3>2
  <2>2. ASSUME NEW v \in Requests, stage'[v] = "open"
        PROVE  /\ task'[v] # None
               /\ task'[v].op = "deposit" =>
                     0 <= task'[v].seen /\ task'[v].seen <= deposited'[task'[v].org]
    <3>1. /\ stage[v] = "open" /\ task'[v] = task[v]
          /\ task[v] \in Deposits \cup Toggles
      BY <1>0, <2>2 DEF IInv, TypeOK, CopiesInv
    <3>2. task[v].op = "deposit" => task[v].org \in Advertisers /\ task[v].seen \in Int
      BY <3>1 DEF Deposits, Toggles
    <3> QED
      BY <1>a, <2>2, <3>1, <3>2 DEF IInv, CopiesInv
  <2> QED
    BY <1>0, <2>1, <2>2 DEF IInv, CopiesInv
<1>5. Bounds'
  <2>1. ASSUME NEW x \in Advertisers PROVE 0 <= balance'[x] /\ balance'[x] <= deposited'[x]
    <3>1. /\ balance[x] \in Int /\ 0 <= balance[x] /\ balance[x] <= deposited[x]
      BY DEF IInv, TypeOK, Bounds, NoOverdraft, BalanceBacked
    <3>2. balance'[x] = balance[x] \/ (x = t.org /\ balance'[x] = t.seen + t.amount)
      BY <1>0 DEF IInv, TypeOK, Flush
    <3>3. deposited'[x] = IF x = t.org THEN deposited[x] + t.amount ELSE deposited[x]
      BY <1>0 DEF IInv, TypeOK
    <3> QED
      BY <1>0, <1>a, <3>1, <3>2, <3>3
  <2> QED
    BY <1>0, <2>1 DEF IInv, Bounds, NoOverdraft, BalanceBacked, SpentNeverOvercounts, PayoutNeverOvercounts
<1> QED
  BY <1>1, <1>2, <1>3, <1>4, <1>5 DEF IInv

LEMMA OpenToggleIInv ==
    ASSUME IInv, NEW r \in Requests, NEW op \in {"pause", "resume"}, OpenToggle(r, op)
    PROVE  IInv'
<1>1. TypeOK'
  BY DEF IInv, TypeOK, OpenToggle, Toggles, CampaignRows
<1>2. LocksInv'
  BY DEF IInv, TypeOK, LocksInv, InTransaction, OpenToggle, Toggles, CampaignRows
<1>3. RowsInv'
  BY DEF IInv, TypeOK, LocksInv, InTransaction, RowsInv, Costable, OpenToggle, Toggles, CampaignRows
<1>4. CopiesInv'
  BY DEF IInv, TypeOK, CopiesInv, OpenToggle, Toggles, CampaignRows
<1>5. Bounds'
  BY DEF IInv, TypeOK, Bounds, NoOverdraft, BalanceBacked, SpentNeverOvercounts, PayoutNeverOvercounts,
         OpenToggle, Toggles, CampaignRows
<1> QED
  BY <1>1, <1>2, <1>3, <1>4, <1>5 DEF IInv

LEMMA CommitPauseIInv ==
    ASSUME IInv, NEW r \in Requests, CommitPause(r)
    PROVE  IInv'
<1>1. TypeOK'
  BY DEF IInv, TypeOK, CommitPause, IsOpen, Close, Flush, Deposits, Toggles, CampaignRows, CopiesInv
<1>2. LocksInv'
  BY DEF IInv, TypeOK, LocksInv, InTransaction, CommitPause, IsOpen, Close, Flush, Deposits, Toggles, CampaignRows
<1>3. RowsInv'
  BY DEF IInv, TypeOK, LocksInv, InTransaction, RowsInv, Costable, CommitPause, IsOpen, Close, Flush, Deposits, Toggles, CampaignRows
<1>4. CopiesInv'
  BY DEF IInv, TypeOK, CopiesInv, CommitPause, IsOpen, Close, Flush, Deposits, Toggles, CampaignRows
<1>5. Bounds'
  BY DEF IInv, TypeOK, Bounds, NoOverdraft, BalanceBacked, SpentNeverOvercounts, PayoutNeverOvercounts,
         CommitPause, IsOpen, Close, Flush, Deposits, Toggles, CampaignRows
<1> QED
  BY <1>1, <1>2, <1>3, <1>4, <1>5 DEF IInv

LEMMA CommitResumeIInv ==
    ASSUME IInv, NEW r \in Requests, CommitResume(r)
    PROVE  IInv'
<1>1. TypeOK'
  BY DEF IInv, TypeOK, CommitResume, IsOpen, Close, Flush, Deposits, Toggles, CampaignRows, CopiesInv
<1>2. LocksInv'
  BY DEF IInv, TypeOK, LocksInv, InTransaction, CommitResume, IsOpen, Close, Flush, Deposits, Toggles, CampaignRows
<1>3. RowsInv'
  BY DEF IInv, TypeOK, LocksInv, InTransaction, RowsInv, Costable, CommitResume, IsOpen, Close, Flush, Deposits, Toggles, CampaignRows
<1>4. CopiesInv'
  BY DEF IInv, TypeOK, CopiesInv, CommitResume, IsOpen, Close, Flush, Deposits, Toggles, CampaignRows
<1>5. Bounds'
  BY DEF IInv, TypeOK, Bounds, NoOverdraft, BalanceBacked, SpentNeverOvercounts, PayoutNeverOvercounts,
         CommitResume, IsOpen, Close, Flush, Deposits, Toggles, CampaignRows
<1> QED
  BY <1>1, <1>2, <1>3, <1>4, <1>5 DEF IInv

LEMMA NextIInv == IInv /\ [Next]_vars => IInv'
<1> SUFFICES ASSUME IInv, [Next]_vars PROVE IInv'
  OBVIOUS
<1>1. ASSUME NEW e \in Events, Receive(e) PROVE IInv'
  BY <1>1, ReceiveIInv
<1>2. ASSUME NEW w \in Workers, Step(w) PROVE IInv'
  <2>1. CASE StartPass(w)
    BY <2>1, StartPassIInv
  <2>2. CASE Claim(w)
    BY <2>2, ClaimIInv
  <2>3. CASE SkipTaken(w)
    BY <2>3, SkipTakenIInv
  <2>4. CASE EndPass(w)
    BY <2>4, EndPassIInv
  <2>5. CASE DropUnreferenced(w)
    BY <2>5, DropUnreferencedIInv
  <2>6. CASE LoadCampaign(w)
    BY <2>6, LoadCampaignIInv
  <2>7. CASE DropDisabled(w)
    BY <2>7, DropDisabledIInv
  <2>8. CASE LoadAdvertiser(w)
    BY <2>8, LoadAdvertiserIInv
  <2>9. CASE LoadOem(w)
    BY <2>9, LoadOemIInv
  <2>10. CASE Decline(w)
    BY <2>10, DeclineIInv
  <2>11. CASE Charge(w)
    BY <2>11, BillIInv DEF Charge, Audiences
  <2>12. CASE Abort(w)
    <3>1. Leave(w) /\ crashes' \in 0..MaxCrashes
      BY <2>12 DEF Abort, IInv, TypeOK
    <3> QED
      BY <3>1, LeaveIInv
  <2> QED
    BY <1>2, <2>1, <2>2, <2>3, <2>4, <2>5, <2>6, <2>7, <2>8, <2>9, <2>10, <2>11, <2>12
       DEF Step, Continue, Settle
<1>3. ASSUME NEW w \in Workers, Crash(w) PROVE IInv'
  <2>1. Leave(w) /\ crashes' \in 0..MaxCrashes
    BY <1>3 DEF Crash, IInv, TypeOK
  <2> QED
    BY <2>1, LeaveIInv
<1>4. ASSUME NEW r \in Requests, Request(r) PROVE IInv'
  <2>1. CASE OpenDeposit(r)
    BY <2>1, OpenDepositIInv
  <2>2. CASE CommitDeposit(r)
    BY <2>2, CommitDepositIInv
  <2>3. CASE OpenToggle(r, "pause") \/ OpenToggle(r, "resume")
    BY <2>3, OpenToggleIInv
  <2>4. CASE CommitPause(r)
    BY <2>4, CommitPauseIInv
  <2>5. CASE CommitResume(r)
    BY <2>5, CommitResumeIInv
  <2> QED
    BY <1>4, <2>1, <2>2, <2>3, <2>4, <2>5 DEF Request, Open, Commit
<1>5. CASE UNCHANGED vars
  BY <1>5 DEF vars, IInv, TypeOK, LocksInv, InTransaction, RowsInv, Costable, CopiesInv, Bounds,
              NoOverdraft, BalanceBacked, SpentNeverOvercounts, PayoutNeverOvercounts
<1> QED
  BY <1>1, <1>2, <1>3, <1>4, <1>5 DEF Next

(* The inductive invariant holds of every behaviour.                       *)
THEOREM Invariance == Spec => []IInv
<1> QED
  BY InitIInv, NextIInv, PTL DEF Spec

(* Columns, ledger totals, row copies and locks keep their types in every  *)
(* run of any number of passes and portal calls: money columns stay whole  *)
(* numbers of cents, and the copies a pass holds are rows it read.         *)
THEOREM TypeCorrect == Spec => []TypeOK
<1>1. IInv => TypeOK
  BY DEF IInv
<1> QED
  BY <1>1, Invariance, PTL

(* No overlap of passes, deposits and crashes takes a balance below zero.  *)
THEOREM NeverOverdrawn == Spec => []NoOverdraft
<1>1. IInv => NoOverdraft
  BY DEF IInv, Bounds
<1> QED
  BY <1>1, Invariance, PTL

(* No lost update leaves an advertiser with more than was deposited.       *)
THEOREM NoMoneyFromNowhere == Spec => []BalanceBacked
<1>1. IInv => BalanceBacked
  BY DEF IInv, Bounds
<1> QED
  BY <1>1, Invariance, PTL

(* What a campaign shows as spent never exceeds what its impressions add   *)
(* up to.                                                                  *)
THEOREM NeverOvercounted == Spec => []SpentNeverOvercounts
<1>1. IInv => SpentNeverOvercounts
  BY DEF IInv, Bounds
<1> QED
  BY <1>1, Invariance, PTL

(* What an OEM sees as its payout never exceeds its accrual rows.          *)
THEOREM NeverOverpaid == Spec => []PayoutNeverOvercounts
<1>1. IInv => PayoutNeverOvercounts
  BY DEF IInv, Bounds
<1> QED
  BY <1>1, Invariance, PTL

(* A pass writes a campaign's status only to pause it.                     *)
LEMMA StepReactivates == IInv /\ [Next]_vars => [ReactivatedByOwner]_vars
<1> SUFFICES ASSUME IInv, [Next]_vars, NEW c \in Campaigns,
                    (~enabled[c] /\ enabled'[c]) \/ (status[c] = "paused" /\ status'[c] = "active")
             PROVE  \E r \in Requests :
                       IsOpen(r, "resume") /\ task[r].row.id = c /\ stage'[r] = "closed"
  BY DEF ReactivatedByOwner
<1>1. ASSUME NEW e \in Events, Receive(e) PROVE FALSE
  BY <1>1 DEF Receive
<1>2. ASSUME NEW w \in Workers, Step(w) PROVE FALSE
  <2>1. ~Charge(w)
    <3> SUFFICES ASSUME NEW n \in Attended, Bill(w, PriceOf(w, n)) PROVE FALSE
      BY DEF Charge, Audiences
    <3>1. campaignRow[w] \in CampaignRows
      BY PricedQuote DEF Bill
    <3> QED
      BY <3>1 DEF Bill, WriteStatus, Flush, CampaignRows, IInv, TypeOK
  <2>2. ~Decline(w)
    BY DEF Decline, IInv, TypeOK
  <2> QED
    BY <1>2, <2>1, <2>2 DEF Step, Continue, Settle, StartPass, Claim, SkipTaken, EndPass, DropUnreferenced,
       LoadCampaign, DropDisabled, LoadAdvertiser, LoadOem, Abort, Leave
<1>3. ASSUME NEW w \in Workers, Crash(w) PROVE FALSE
  BY <1>3 DEF Crash, Leave
<1>4. ASSUME NEW r \in Requests, Request(r)
      PROVE  IsOpen(r, "resume") /\ task[r].row.id = c /\ stage'[r] = "closed"
  <2>1. CASE CommitResume(r)
    BY <2>1 DEF CommitResume, Close, Flush, IInv, TypeOK
  <2>2. CASE CommitPause(r)
    BY <2>2 DEF CommitPause, Flush, IInv, TypeOK
  <2> QED
    BY <1>4, <2>1, <2>2 DEF Request, Open, Commit, OpenDeposit, CommitDeposit, OpenToggle
<1> QED
  BY <1>1, <1>2, <1>3, <1>4 DEF Next, vars

(* However stale the campaign row a pass writes back, it never undoes a    *)
(* pause: only a committing resume makes a campaign servable again.        *)
THEOREM NeverReactivated == Spec => OnlyResumeReactivates
<1> QED
  BY Invariance, StepReactivates, PTL DEF Spec, OnlyResumeReactivates

(* The tables a billing transaction writes, seen as a settlement.          *)
LEMMA StepSettles == IInv /\ [Next]_vars => [Promised!Move]_(Promised!svars)
<1> SUFFICES ASSUME IInv, [Next]_vars, ~ UNCHANGED <<outcome, impression, charged, accrued>>
             PROVE  Promised!Move
  BY DEF Promised!svars
<1>1. ASSUME NEW e \in Events, Receive(e) PROVE Promised!Arrive(e)
  BY <1>1 DEF Receive, Promised!Arrive
<1>2. ASSUME NEW w \in Workers, Step(w) PROVE Promised!Move
  <2>1. CASE DropUnreferenced(w) \/ DropDisabled(w)
    <3>1. event[w] \in Events /\ outcome[event[w]] = "pending"
      BY <2>1 DEF DropUnreferenced, DropDisabled, IInv, LocksInv, InTransaction
    <3>2. Promised!Refuse(event[w], "dropped")
      BY <2>1, <3>1 DEF DropUnreferenced, DropDisabled, Finish, Promised!Refuse
    <3> QED
      BY <3>1, <3>2 DEF Promised!Move
  <2>2. CASE Decline(w)
    <3>1. event[w] \in Events /\ outcome[event[w]] = "pending" /\ campaignRow[w].id = CampaignOf[event[w]]
          /\ campaignRow[w] \in CampaignRows
      BY <2>2, PricedQuote DEF Decline, Audiences, IInv, LocksInv, InTransaction
    <3>2. Payer[event[w]] # None
      BY <3>1 DEF Payer, CampaignRows
    <3>3. Promised!Refuse(event[w], "declined")
      BY <2>2, <3>1, <3>2 DEF Decline, Finish, Promised!Refuse
    <3> QED
      BY <3>1, <3>3 DEF Promised!Move
  <2>3. CASE Charge(w)
    <3>1. PICK n \in Attended : Bill(w, PriceOf(w, n))
      BY <2>3 DEF Charge, Audiences
    <3>2. pc[w] = "oem"
      BY <3>1 DEF Bill
    <3> DEFINE q == PriceOf(w, n)
               e == event[w]
    <3>3. /\ e \in Events /\ outcome[e] = "pending" /\ q \in Quotes /\ q.charge = q.oem + q.kovio
          /\ advertiserRow[w].id = AdvertiserOf[CampaignOf[e]] /\ CampaignOf[e] \in Campaigns
          /\ oemRow[w].id = OemOf[FleetOf[e]]
      BY <3>2, PricedQuote DEF IInv, LocksInv, InTransaction, CampaignRows
    <3>4. Payer[e] = advertiserRow[w].id /\ Payer[e] # None /\ Payee[e] = oemRow[w].id
      BY <3>3 DEF Payer, Payee
    <3>5. /\ impression' = [impression EXCEPT ![e] = q]
          /\ outcome' = [outcome EXCEPT ![e] = "costed"]
          /\ charged' = [charged EXCEPT ![Payer[e]] = @ + q.charge]
          /\ accrued' = [accrued EXCEPT ![Payee[e]] = @ + q.oem]
      BY <3>1, <3>4 DEF Bill, Finish
    <3> HIDE DEF q, e
    <3>6. impression'[e] = q
      BY <3>3, <3>5 DEF IInv, TypeOK
    <3>7. Promised!Cost(e)
      BY <3>3, <3>4, <3>5, <3>6 DEF Promised!Cost
    <3> QED
      BY <3>3, <3>7 DEF Promised!Move
  <2> QED
    BY <1>2, <2>1, <2>2, <2>3 DEF Step, Continue, Settle, StartPass, Claim, SkipTaken, EndPass,
       LoadCampaign, LoadAdvertiser, LoadOem, Abort, Leave
<1>3. ASSUME NEW w \in Workers, Crash(w) PROVE FALSE
  BY <1>3 DEF Crash, Leave
<1>4. ASSUME NEW r \in Requests, Request(r) PROVE FALSE
  BY <1>4 DEF Request, Open, Commit, OpenDeposit, CommitDeposit, OpenToggle, CommitPause, CommitResume
<1>5. ~ UNCHANGED vars
  BY DEF vars
<1> QED
  BY <1>1, <1>2, <1>3, <1>4, <1>5 DEF Next, Promised!Move

(* The passes implement the settlement promise: no event is settled twice, *)
(* and an impression appears in the same step as its charge and accrual.   *)
THEOREM Implements == Spec => SettlesAsPromised
<1>1. Init => Promised!Start
  BY DEF Init, Promised!Start
<1> QED
  BY <1>1, Invariance, StepSettles, PTL DEF Spec, SettlesAsPromised, Promised!Promise

(* A running pass has seen enabled every campaign that is enabled now, and *)
(* the one its campaign row says is enabled.                               *)
PauseInv ==
    \A w \in Workers : pc[w] # "idle" =>
        /\ \A c \in Campaigns : enabled[c] => c \in sawEnabled[w]
        /\ campaignRow[w] # None /\ campaignRow[w].enabled => campaignRow[w].id \in sawEnabled[w]

LEMMA StepPauseInv == IInv /\ PauseInv /\ [Next]_vars => PauseInv'
<1> SUFFICES ASSUME IInv, PauseInv, [Next]_vars PROVE PauseInv'
  OBVIOUS
<1>1. ASSUME NEW e \in Events, Receive(e) PROVE PauseInv'
  BY <1>1 DEF Receive, PauseInv
<1>2. ASSUME NEW w \in Workers, Step(w) PROVE PauseInv'
  <2>1. CASE StartPass(w)
    BY <2>1 DEF StartPass, PauseInv, IInv, TypeOK
  <2>2. CASE LoadCampaign(w)
    <3>1. /\ CampaignOf[event[w]] \in Campaigns \cup {Unknown}
          /\ pc[w] = "claimed" /\ pc' = [pc EXCEPT ![w] = "campaign"]
          /\ enabled' = enabled /\ sawEnabled' = sawEnabled
      BY <2>2 DEF LoadCampaign, IInv, LocksInv, InTransaction
    <3>2. \A v \in Workers \ {w} : campaignRow'[v] = campaignRow[v]
      BY <2>2 DEF LoadCampaign, IInv, TypeOK
    <3>3. \/ campaignRow'[w] \in {None, campaignRow[w]}
          \/ \E c \in Campaigns : campaignRow'[w].id = c /\ campaignRow'[w].enabled = enabled[c]
      BY <2>2, <3>1 DEF LoadCampaign, Load, IInv, TypeOK
    <3> QED
      BY <3>1, <3>2, <3>3 DEF PauseInv, IInv, TypeOK
  <2>3. CASE Charge(w)
    <3>1. PICK n \in Attended : Bill(w, PriceOf(w, n))
      BY <2>3 DEF Charge, Audiences
    <3>2. campaignRow[w] \in CampaignRows /\ pc[w] = "oem"
      BY <3>1, PricedQuote DEF Bill
    <3> DEFINE q == PriceOf(w, n)
               total == campaignRow[w].spent + BudgetUse(q)
               after == IF Exhausted(campaignRow[w].id, total) THEN "paused" ELSE campaignRow[w].status
               new == [campaignRow[w] EXCEPT !.spent = total, !.status = after]
    <3>3. /\ campaignRow' = [campaignRow EXCEPT ![w] = new]
          /\ pc' = [pc EXCEPT ![w] = "scan"]
          /\ enabled' = enabled /\ sawEnabled' = sawEnabled
      BY <3>1 DEF Bill, Finish, WriteStatus
    <3> HIDE DEF q, total, after
    <3>4. new.enabled = campaignRow[w].enabled /\ new.id = campaignRow[w].id
      BY <3>2 DEF CampaignRows
    <3> HIDE DEF new
    <3>5. /\ campaignRow'[w] = new
          /\ \A v \in Workers \ {w} : campaignRow'[v] = campaignRow[v] /\ pc'[v] = pc[v]
          /\ campaignRow[w] # None
      BY <3>2, <3>3 DEF IInv, TypeOK
    <3> QED
      BY <3>2, <3>3, <3>4, <3>5 DEF PauseInv
  <2>4. CASE Decline(w)
    <3>1. campaignRow[w] \in CampaignRows
      BY <2>4, PricedQuote DEF Decline, Audiences
    <3>2. /\ campaignRow'[w].enabled = campaignRow[w].enabled /\ campaignRow'[w].id = campaignRow[w].id
          /\ \A v \in Workers \ {w} : campaignRow'[v] = campaignRow[v]
      BY <2>4, <3>1 DEF Decline, IInv, TypeOK, CampaignRows
    <3> QED
      BY <2>4, <3>1, <3>2 DEF Decline, Finish, PauseInv, IInv, TypeOK
  <2> QED
    BY <1>2, <2>1, <2>2, <2>3, <2>4 DEF Step, Continue, Settle, Claim, SkipTaken, EndPass, DropUnreferenced,
       DropDisabled, LoadAdvertiser, LoadOem, Abort, Leave, Finish, PauseInv, IInv, TypeOK
<1>3. ASSUME NEW w \in Workers, Crash(w) PROVE PauseInv'
  BY <1>3 DEF Crash, Leave, PauseInv, IInv, TypeOK
<1>4. ASSUME NEW r \in Requests, Request(r) PROVE PauseInv'
  <2>1. CASE CommitResume(r)
    BY <2>1 DEF CommitResume, PauseInv, IInv, TypeOK
  <2>2. CASE CommitPause(r)
    <3>1. \A c \in Campaigns : enabled'[c] => enabled[c]
      BY <2>2 DEF CommitPause, Flush, IInv, TypeOK
    <3> QED
      BY <2>2, <3>1 DEF CommitPause, PauseInv
  <2> QED
    BY <1>4, <2>1, <2>2 DEF Request, Open, Commit, OpenDeposit, OpenToggle, CommitDeposit, PauseInv
<1>5. CASE UNCHANGED vars
  BY <1>5 DEF vars, PauseInv
<1> QED
  BY <1>1, <1>2, <1>3, <1>4, <1>5 DEF Next

(* A campaign that its owner pauses is charged, at most, by the passes     *)
(* that were running when it was still enabled.                            *)
THEOREM PausedNextPass == Spec => []PauseTakesEffectNextPass
<1>1. Init => PauseInv
  BY DEF Init, PauseInv
<1>2. IInv /\ PauseInv => PauseTakesEffectNextPass
  BY DEF IInv, RowsInv, Costable, PauseInv, PauseTakesEffectNextPass
<1> QED
  BY <1>1, <1>2, Invariance, StepPauseInv, PTL DEF Spec

----------------------------------------------------------------------------
(* Without overlap: when passes and portal calls do not overlap, the money *)
(* columns agree with the ledger exactly, for every number of plays,       *)
(* passes, calls and crashes.  Beyond IInv this takes two facts: who is at *)
(* work is alone (Alone), so the copies it works from are the rows as they *)
(* are (Fresh).                                                            *)

\* At most one pass or portal call is at work.
Alone ==
    /\ \A w, v \in Workers : pc[w] # "idle" /\ pc[v] # "idle" => w = v
    /\ \A w \in Workers, r \in Requests : pc[w] # "idle" => stage[r] # "open"
    /\ \A r, s \in Requests : stage[r] = "open" /\ stage[s] = "open" => r = s

FreshRows(w) ==
    /\ campaignRow[w] # None =>
          /\ campaignRow[w].spent = spent[campaignRow[w].id]
          /\ campaignRow[w].status = status[campaignRow[w].id]
    /\ advertiserRow[w] # None => advertiserRow[w].balance = balance[advertiserRow[w].id]
    /\ oemRow[w] # None => oemRow[w].pending = pending[oemRow[w].id]

FreshTask(r) ==
    /\ task[r].op = "deposit" => task[r].seen = balance[task[r].org]
    /\ task[r].op = "resume" => ResumeAllowed(task[r].row.id)

\* What is at work holds no stale copy.
Fresh ==
    /\ \A w \in Workers : pc[w] # "idle" => FreshRows(w)
    /\ \A r \in Requests : stage[r] = "open" => FreshTask(r)

SerialInv == IInv /\ Alone /\ Fresh /\ ColumnsMatchLedger /\ ExhaustedStaysPaused

LEMMA SerialIsNext == SerialNext => Next
  BY DEF SerialNext, Next, Step, Request

LEMMA SerialInit == Init => SerialInv
<1> SUFFICES ASSUME Init PROVE SerialInv
  OBVIOUS
<1>1. IInv
  BY InitIInv
<1>2. Alone /\ Fresh
  BY DEF Init, Alone, Fresh
<1>3. ColumnsMatchLedger
  BY DEF Init, ColumnsMatchLedger
<1>4. ExhaustedStaysPaused
  BY DEF Init, ExhaustedStaysPaused
<1> QED
  BY <1>1, <1>2, <1>3, <1>4 DEF SerialInv

(* A step of a pass moves that pass only, and no call.                     *)
LEMMA ContinueFrame ==
    ASSUME IInv, NEW w \in Workers, Continue(w)
    PROVE  /\ pc[w] # "idle" /\ stage' = stage /\ task' = task
           /\ \A v \in Workers \ {w} : pc'[v] = pc[v]
<1>1. pc \in [Workers -> {"idle", "scan", "claimed", "campaign", "advertiser", "oem"}]
  BY DEF IInv, TypeOK
<1>2. CASE Charge(w)
  <2>1. PICK n \in Attended : Bill(w, PriceOf(w, n))
    BY <1>2 DEF Charge, Audiences
  <2> QED
    BY <1>1, <2>1 DEF Bill, Finish
<1> QED
  BY <1>1, <1>2 DEF Continue, Settle, Claim, SkipTaken, EndPass, DropUnreferenced, LoadCampaign, DropDisabled,
     LoadAdvertiser, LoadOem, Decline, Abort, Leave, Finish

LEMMA StepAlone == ASSUME IInv, Alone, SerialNext PROVE Alone'
<1>1. /\ pc \in [Workers -> {"idle", "scan", "claimed", "campaign", "advertiser", "oem"}]
      /\ stage \in [Requests -> {"new", "open", "closed"}]
  BY DEF IInv, TypeOK
<1>2. ASSUME NEW e \in Events, Receive(e) PROVE Alone'
  BY <1>2 DEF Receive, Alone
<1>3. ASSUME NEW w \in Workers, Continue(w) PROVE Alone'
  BY <1>3, ContinueFrame DEF Alone
<1>4. ASSUME NEW w \in Workers, Crash(w) PROVE Alone'
  BY <1>1, <1>4 DEF Crash, Leave, Alone
<1>5. ASSUME NEW w \in Workers, Quiet, StartPass(w) PROVE Alone'
  BY <1>1, <1>5 DEF Quiet, StartPass, Alone
<1>6. ASSUME NEW r \in Requests, Commit(r) PROVE Alone'
  BY <1>1, <1>6 DEF Commit, CommitDeposit, CommitPause, CommitResume, Close, worker, Alone
<1>7. ASSUME NEW r \in Requests, Quiet, Open(r) PROVE Alone'
  BY <1>1, <1>7 DEF Quiet, Open, OpenDeposit, OpenToggle, worker, Alone
<1> QED
  BY <1>2, <1>3, <1>4, <1>5, <1>6, <1>7 DEF SerialNext

Agree == ColumnsMatchLedger /\ ExhaustedStaysPaused

(* The pass at work is the only one whose copies matter.                   *)
LEMMA FreshAfter ==
    ASSUME IInv, Alone, NEW w \in Workers, Continue(w), FreshRows(w)'
    PROVE  Fresh'
<1>1. /\ pc[w] # "idle" /\ stage' = stage
      /\ \A v \in Workers \ {w} : pc'[v] = pc[v]
  BY ContinueFrame
<1> QED
  BY <1>1 DEF Alone, Fresh

LEMMA DeclineSerial ==
    ASSUME SerialInv, NEW w \in Workers, Decline(w)
    PROVE  FreshRows(w)' /\ Agree'
<1> DEFINE row == campaignRow[w]
           new == [row EXCEPT !.status = "paused"]
<1>1. pc[w] = "oem" /\ row \in CampaignRows /\ IInv
  BY PricedQuote DEF SerialInv, Decline, Audiences
<1>2. row.id \in Campaigns /\ row # None /\ row.status = status[row.id] /\ row.spent = spent[row.id]
  BY <1>1 DEF SerialInv, Fresh, FreshRows, CampaignRows
<1>3. campaignRow' = [campaignRow EXCEPT ![w] = new]
  BY DEF Decline
<1>4. new.id = row.id /\ new.spent = row.spent /\ new.status = "paused"
  BY <1>1 DEF CampaignRows
<1>5. campaignRow'[w] = new
  BY <1>1, <1>3 DEF IInv, TypeOK
<1>6. status' = [status EXCEPT ![row.id] = "paused"]
  BY <1>1, <1>2 DEF Decline, IInv, TypeOK
<1> HIDE DEF new
<1>7. FreshRows(w)'
  BY <1>1, <1>2, <1>4, <1>5, <1>6 DEF Decline, FreshRows, SerialInv, Fresh, IInv, TypeOK
<1>8. ColumnsMatchLedger'
  BY DEF Decline, SerialInv, ColumnsMatchLedger
<1>9. ExhaustedStaysPaused'
  BY <1>1, <1>6 DEF Decline, SerialInv, ExhaustedStaysPaused, IInv, TypeOK
<1> QED
  BY <1>7, <1>8, <1>9 DEF Agree

(* A billing transaction that starts from fresh copies leaves the columns  *)
(* in agreement, and pauses the campaign it exhausts.                      *)
LEMMA BillSerial ==
    ASSUME SerialInv, NEW w \in Workers, NEW n \in Attended, Bill(w, PriceOf(w, n))
    PROVE  FreshRows(w)' /\ Agree'
<1> DEFINE q == PriceOf(w, n)
           row == campaignRow[w]
           a == advertiserRow[w]
           o == oemRow[w]
           total == row.spent + q.gross
           after == IF Exhausted(row.id, total) THEN "paused" ELSE row.status
           newRow == [row EXCEPT !.spent = total, !.status = after]
<1>1. pc[w] = "oem" /\ IInv
  BY DEF Bill, SerialInv
<1>2. row \in CampaignRows /\ a \in AdvertiserRows /\ o \in OemRows /\ q \in Quotes
  BY <1>1, PricedQuote
<1>3. /\ row.id \in Campaigns /\ a.id \in Advertisers /\ o.id \in Oems
      /\ row.spent \in Nat /\ a.balance \in Int /\ o.pending \in Nat
      /\ row.status \in {"active", "paused"}
      /\ q.gross \in Nat /\ q.charge \in Nat /\ q.oem \in Nat
      /\ row # None /\ a # None /\ o # None
  BY <1>2 DEF CampaignRows, AdvertiserRows, OemRows, Quotes
<1>4. /\ row.spent = spent[row.id] /\ row.status = status[row.id]
      /\ a.balance = balance[a.id] /\ o.pending = pending[o.id]
  BY <1>1, <1>3 DEF SerialInv, Fresh, FreshRows
<1>5. /\ charged' = [charged EXCEPT ![a.id] = @ + q.charge]
      /\ accrued' = [accrued EXCEPT ![o.id] = @ + q.oem]
      /\ grossed' = [grossed EXCEPT ![row.id] = @ + q.gross]
      /\ spent' = Flush(spent, row.id, row.spent, total)
      /\ balance' = Flush(balance, a.id, a.balance, a.balance - q.charge)
      /\ pending' = Flush(pending, o.id, o.pending, o.pending + q.oem)
      /\ status' = Flush(status, row.id, row.status, after)
      /\ campaignRow' = [campaignRow EXCEPT ![w] = newRow]
      /\ advertiserRow' = [advertiserRow EXCEPT ![w].balance = @ - q.charge]
      /\ oemRow' = [oemRow EXCEPT ![w].pending = @ + q.oem]
      /\ deposited' = deposited
  BY DEF Bill, BudgetUse, PayoutDue, WriteStatus
<1>6. newRow.id = row.id /\ newRow.spent = total /\ newRow.status = after
  BY <1>2 DEF CampaignRows
<1>7. /\ campaignRow'[w] = newRow
      /\ advertiserRow'[w].id = a.id /\ advertiserRow'[w].balance = a.balance - q.charge
      /\ oemRow'[w].id = o.id /\ oemRow'[w].pending = o.pending + q.oem
  BY <1>1, <1>2, <1>5 DEF IInv, TypeOK, AdvertiserRows, OemRows
<1>8. /\ after \in {"active", "paused"}
      /\ Exhausted(row.id, total) => after = "paused"
  BY <1>3
<1>9. total \in Nat /\ total = spent[row.id] + q.gross
  BY <1>3, <1>4
<1> HIDE DEF q, row, a, o, total, after, newRow
<1>10. /\ spent' = [spent EXCEPT ![row.id] = total]
       /\ balance' = [balance EXCEPT ![a.id] = a.balance - q.charge]
       /\ pending' = [pending EXCEPT ![o.id] = o.pending + q.oem]
       /\ status' = [status EXCEPT ![row.id] = after]
  <2>1. /\ spent \in [Campaigns -> Int] /\ spent[row.id] = row.spent
        /\ balance \in [Advertisers -> Int] /\ balance[a.id] = a.balance
        /\ pending \in [Oems -> Int] /\ pending[o.id] = o.pending
        /\ status \in [Campaigns -> {"active", "paused"}] /\ status[row.id] = row.status
    BY <1>1, <1>4 DEF IInv, TypeOK
  <2>2. spent' = [spent EXCEPT ![row.id] = total]
    <3>1. CASE total = row.spent
      BY <1>3, <1>5, <2>1, <3>1 DEF Flush
    <3>2. CASE total # row.spent
      BY <1>5, <3>2 DEF Flush
    <3> QED
      BY <3>1, <3>2
  <2>3. balance' = [balance EXCEPT ![a.id] = a.balance - q.charge]
    <3>1. CASE a.balance - q.charge = a.balance
      BY <1>3, <1>5, <2>1, <3>1 DEF Flush
    <3>2. CASE a.balance - q.charge # a.balance
      BY <1>5, <3>2 DEF Flush
    <3> QED
      BY <3>1, <3>2
  <2>4. pending' = [pending EXCEPT ![o.id] = o.pending + q.oem]
    <3>1. CASE o.pending + q.oem = o.pending
      BY <1>3, <1>5, <2>1, <3>1 DEF Flush
    <3>2. CASE o.pending + q.oem # o.pending
      BY <1>5, <3>2 DEF Flush
    <3> QED
      BY <3>1, <3>2
  <2>5. status' = [status EXCEPT ![row.id] = after]
    <3>1. CASE after = row.status
      BY <1>3, <1>5, <2>1, <3>1 DEF Flush
    <3>2. CASE after # row.status
      BY <1>5, <3>2 DEF Flush
    <3> QED
      BY <3>1, <3>2
  <2> QED
    BY <2>2, <2>3, <2>4, <2>5
<1>11. FreshRows(w)'
  <2>1. spent'[row.id] = total /\ status'[row.id] = after
    BY <1>1, <1>3, <1>10 DEF IInv, TypeOK
  <2>2. balance'[a.id] = a.balance - q.charge
    BY <1>1, <1>3, <1>10 DEF IInv, TypeOK
  <2>3. pending'[o.id] = o.pending + q.oem
    BY <1>1, <1>3, <1>10 DEF IInv, TypeOK
  <2> QED
    BY <1>6, <1>7, <2>1, <2>2, <2>3 DEF FreshRows
<1>12. ColumnsMatchLedger'
  <2>1. ASSUME NEW x \in Advertisers PROVE balance'[x] = deposited'[x] - charged'[x]
    <3>1. balance[x] = deposited[x] - charged[x] /\ balance[x] \in Int /\ deposited[x] \in Int /\ charged[x] \in Int
      BY <1>1 DEF SerialInv, ColumnsMatchLedger, IInv, TypeOK
    <3>2. charged'[x] = IF x = a.id THEN charged[x] + q.charge ELSE charged[x]
      BY <1>1, <1>5 DEF IInv, TypeOK
    <3>3. balance'[x] = IF x = a.id THEN balance[x] - q.charge ELSE balance[x]
      BY <1>1, <1>4, <1>10 DEF IInv, TypeOK
    <3>4. deposited' = deposited
      BY <1>5
    <3> QED
      BY <1>3, <3>1, <3>2, <3>3, <3>4
  <2>2. ASSUME NEW x \in Oems PROVE pending'[x] = accrued'[x]
    <3>1. pending[x] = accrued[x] /\ pending[x] \in Int
      BY <1>1 DEF SerialInv, ColumnsMatchLedger, IInv, TypeOK
    <3>2. accrued'[x] = IF x = o.id THEN accrued[x] + q.oem ELSE accrued[x]
      BY <1>1, <1>5 DEF IInv, TypeOK
    <3>3. pending'[x] = IF x = o.id THEN pending[x] + q.oem ELSE pending[x]
      BY <1>1, <1>4, <1>10 DEF IInv, TypeOK
    <3> QED
      BY <3>1, <3>2, <3>3
  <2>3. ASSUME NEW c \in Campaigns PROVE spent'[c] = grossed'[c]
    <3>1. spent[c] = grossed[c] /\ spent[c] \in Int
      BY <1>1 DEF SerialInv, ColumnsMatchLedger, IInv, TypeOK
    <3>2. grossed'[c] = IF c = row.id THEN grossed[c] + q.gross ELSE grossed[c]
      BY <1>1, <1>5 DEF IInv, TypeOK
    <3>3. spent'[c] = IF c = row.id THEN spent[c] + q.gross ELSE spent[c]
      BY <1>1, <1>9, <1>10 DEF IInv, TypeOK
    <3> QED
      BY <3>1, <3>2, <3>3
  <2> QED
    BY <2>1, <2>2, <2>3 DEF ColumnsMatchLedger
<1>13. ExhaustedStaysPaused'
  BY <1>1, <1>3, <1>8, <1>10 DEF SerialInv, ExhaustedStaysPaused, Exhausted, IInv, TypeOK
<1> QED
  BY <1>11, <1>12, <1>13 DEF Agree

LEMMA ContinueSerial ==
    ASSUME SerialInv, NEW w \in Workers, Continue(w)
    PROVE  Fresh' /\ Agree'
<1>0. IInv /\ Alone /\ FreshRows(w)
  BY ContinueFrame DEF SerialInv, Fresh
<1>1. CASE Charge(w)
  <2>1. PICK n \in Attended : Bill(w, PriceOf(w, n))
    BY <1>1 DEF Charge, Audiences
  <2> QED
    BY <1>0, <2>1, BillSerial, FreshAfter
<1>2. CASE Decline(w)
  BY <1>0, <1>2, DeclineSerial, FreshAfter
<1>3. ASSUME UNCHANGED <<campaigns, money>>, FreshRows(w)'
      PROVE  Fresh' /\ Agree'
  <2>1. Fresh'
    BY <1>0, <1>3, FreshAfter
  <2>2. Agree'
    BY <1>3 DEF SerialInv, Agree, ColumnsMatchLedger, ExhaustedStaysPaused
  <2> QED
    BY <2>1, <2>2
<1>4. ASSUME UNCHANGED <<campaigns, money>>, UNCHANGED rows PROVE FreshRows(w)'
  BY <1>0, <1>4 DEF FreshRows
<1>5. CASE Claim(w) \/ SkipTaken(w) \/ EndPass(w) \/ DropUnreferenced(w) \/ DropDisabled(w)
  BY <1>3, <1>4, <1>5 DEF Claim, SkipTaken, EndPass, DropUnreferenced, DropDisabled, Finish
<1>6. CASE LoadCampaign(w)
  <2>1. UNCHANGED <<campaigns, money, advertiserRow, oemRow>>
    BY <1>6 DEF LoadCampaign
  <2>2. \/ campaignRow'[w] \in {None, campaignRow[w]}
        \/ \E c \in Campaigns : /\ campaignRow'[w].id = c /\ campaignRow'[w].status = status[c]
                                /\ campaignRow'[w].spent = spent[c]
    BY <1>0, <1>6 DEF LoadCampaign, Load, IInv, TypeOK, LocksInv, InTransaction
  <2>3. FreshRows(w)'
    BY <1>0, <2>1, <2>2 DEF FreshRows
  <2> QED
    BY <1>3, <2>1, <2>3
<1>7. CASE LoadAdvertiser(w)
  <2>1. UNCHANGED <<campaigns, money, campaignRow, oemRow>>
    BY <1>7 DEF LoadAdvertiser
  <2>2. \/ advertiserRow'[w] = advertiserRow[w]
        \/ \E a : advertiserRow'[w].id = a /\ advertiserRow'[w].balance = balance[a]
    BY <1>0, <1>7 DEF LoadAdvertiser, Load, IInv, TypeOK
  <2>3. FreshRows(w)'
    BY <1>0, <2>1, <2>2 DEF FreshRows
  <2> QED
    BY <1>3, <2>1, <2>3
<1>8. CASE LoadOem(w)
  <2>1. UNCHANGED <<campaigns, money, campaignRow, advertiserRow>>
    BY <1>8 DEF LoadOem
  <2>2. \/ oemRow'[w] = oemRow[w]
        \/ \E o : oemRow'[w].id = o /\ oemRow'[w].pending = pending[o]
    BY <1>0, <1>8 DEF LoadOem, Load, IInv, TypeOK
  <2>3. FreshRows(w)'
    BY <1>0, <2>1, <2>2 DEF FreshRows
  <2> QED
    BY <1>3, <2>1, <2>3
<1>9. CASE Abort(w)
  <2>1. UNCHANGED <<campaigns, money>>
    BY <1>9 DEF Abort, Leave
  <2>2. FreshRows(w)'
    BY <1>0, <1>9 DEF Abort, Leave, FreshRows, IInv, TypeOK
  <2> QED
    BY <1>3, <2>1, <2>2
<1> QED
  BY <1>1, <1>2, <1>5, <1>6, <1>7, <1>8, <1>9 DEF Continue, Settle

(* Arrivals, crashes and the start of a pass touch no money column.        *)
LEMMA OtherSerial ==
    ASSUME SerialInv,
           \/ \E e \in Events : Receive(e)
           \/ \E w \in Workers : Crash(w) \/ (Quiet /\ StartPass(w))
    PROVE  Fresh' /\ Agree'
<1>1. ASSUME UNCHANGED <<campaigns, money>> PROVE Agree'
  BY <1>1 DEF SerialInv, Agree, ColumnsMatchLedger, ExhaustedStaysPaused
<1>2. ASSUME NEW e \in Events, Receive(e) PROVE Fresh' /\ Agree'
  BY <1>1, <1>2 DEF Receive, SerialInv, Fresh, FreshRows, FreshTask, ResumeAllowed
<1>3. ASSUME NEW w \in Workers, Crash(w) PROVE Fresh' /\ Agree'
  <2>1. \A v \in Workers : pc'[v] # "idle" =>
           /\ pc[v] # "idle" /\ campaignRow'[v] = campaignRow[v]
           /\ advertiserRow'[v] = advertiserRow[v] /\ oemRow'[v] = oemRow[v]
    BY <1>3 DEF Crash, Leave, SerialInv, IInv, TypeOK
  <2>2. UNCHANGED <<campaigns, money, portal>>
    BY <1>3 DEF Crash, Leave
  <2>3. ASSUME NEW v \in Workers, pc'[v] # "idle" PROVE FreshRows(v)'
    BY <2>1, <2>2, <2>3 DEF SerialInv, Fresh, FreshRows
  <2>4. ASSUME NEW r \in Requests, stage'[r] = "open" PROVE FreshTask(r)'
    BY <2>2, <2>4 DEF SerialInv, Fresh, FreshTask, ResumeAllowed
  <2> QED
    BY <1>1, <2>2, <2>3, <2>4 DEF Fresh
<1>4. ASSUME NEW w \in Workers, Quiet, StartPass(w) PROVE Fresh' /\ Agree'
  <2>1. FreshRows(w)'
    BY <1>4 DEF StartPass, FreshRows, SerialInv, IInv, TypeOK
  <2>2. \A v \in Workers \ {w} : pc'[v] = "idle"
    BY <1>4 DEF StartPass, Quiet, SerialInv, IInv, TypeOK
  <2> QED
    BY <1>1, <1>4, <2>1, <2>2 DEF StartPass, Quiet, Fresh
<1> QED
  BY <1>2, <1>3, <1>4

(* A portal call is opened on rows as they are, alone.                     *)
LEMMA OpenSerial ==
    ASSUME SerialInv, NEW r \in Requests, Quiet, Open(r)
    PROVE  Fresh' /\ Agree'
<1>1. UNCHANGED <<campaigns, money, worker>> /\ stage' = [stage EXCEPT ![r] = "open"]
  BY DEF Open, OpenDeposit, OpenToggle
<1>2. Agree'
  BY <1>1 DEF SerialInv, Agree, ColumnsMatchLedger, ExhaustedStaysPaused
<1>3. FreshTask(r)'
  <2>1. CASE OpenDeposit(r)
    BY <2>1 DEF OpenDeposit, FreshTask, SerialInv, IInv, TypeOK
  <2>2. ASSUME NEW op \in {"pause", "resume"}, OpenToggle(r, op) PROVE FreshTask(r)'
    BY <1>1, <2>2 DEF OpenToggle, FreshTask, ResumeAllowed, SerialInv, IInv, TypeOK
  <2> QED
    BY <2>1, <2>2 DEF Open
<1>4. \A w \in Workers : pc'[w] = "idle"
  BY <1>1 DEF worker, Quiet
<1>5. \A s \in Requests \ {r} : stage'[s] # "open"
  BY <1>1 DEF Quiet, SerialInv, IInv, TypeOK
<1> QED
  BY <1>2, <1>3, <1>4, <1>5 DEF Fresh

(* A portal call commits on rows no one else has written.                  *)
LEMMA CommitSerial ==
    ASSUME SerialInv, NEW r \in Requests, Commit(r)
    PROVE  Fresh' /\ Agree'
<1>1. /\ stage[r] = "open" /\ UNCHANGED pc
      /\ stage' = [stage EXCEPT ![r] = "closed"]
  BY DEF Commit, CommitDeposit, CommitPause, CommitResume, IsOpen, Close, worker
<1>2. Fresh'
  BY <1>1 DEF SerialInv, Alone, Fresh, IInv, TypeOK
<1>3. CASE CommitDeposit(r)
  <2> DEFINE t == task[r]
  <2>1. /\ t \in Deposits /\ t.seen = balance[t.org]
        /\ t.org \in Advertisers /\ t.amount \in Nat
    <3>1. task[r] # None /\ task[r].op = "deposit" /\ task[r] \in Deposits \cup Toggles \cup {None}
      BY <1>1, <1>3 DEF CommitDeposit, IsOpen, SerialInv, IInv, TypeOK, CopiesInv
    <3>2. t \in Deposits
      BY <3>1 DEF Toggles
    <3>3. FreshTask(r)
      BY <1>1 DEF SerialInv, Fresh
    <3> QED
      BY <3>1, <3>2, <3>3 DEF FreshTask, Deposits
  <2>2. /\ balance' = Flush(balance, t.org, t.seen, t.seen + t.amount)
        /\ deposited' = [deposited EXCEPT ![t.org] = @ + t.amount]
        /\ UNCHANGED <<campaigns, pending, charged, accrued, grossed>>
    BY <1>3 DEF CommitDeposit, LedgerDeposit
  <2> HIDE DEF t
  <2>3. ASSUME NEW a \in Advertisers PROVE balance'[a] = deposited'[a] - charged'[a]
    <3>1. balance[a] = deposited[a] - charged[a] /\ balance[a] \in Int /\ deposited[a] \in Int /\ charged[a] \in Int
      BY DEF SerialInv, ColumnsMatchLedger, IInv, TypeOK
    <3>2. deposited'[a] = IF a = t.org THEN deposited[a] + t.amount ELSE deposited[a]
      BY <2>1, <2>2 DEF SerialInv, IInv, TypeOK
    <3>3. balance'[a] = IF a = t.org THEN balance[a] + t.amount ELSE balance[a]
      BY <2>1, <2>2, <3>1 DEF Flush, SerialInv, IInv, TypeOK
    <3> QED
      BY <2>1, <2>2, <3>1, <3>2, <3>3
  <2>4. ColumnsMatchLedger'
    BY <2>2, <2>3 DEF SerialInv, ColumnsMatchLedger
  <2>5. ExhaustedStaysPaused'
    BY <2>2 DEF SerialInv, ExhaustedStaysPaused
  <2> QED
    BY <1>2, <2>4, <2>5 DEF Agree
<1>4. CASE CommitPause(r)
  <2>1. UNCHANGED <<spent, money>> /\ \A c \in Campaigns : status'[c] \in {status[c], "paused"}
    BY <1>4 DEF CommitPause, Flush, SerialInv, IInv, TypeOK
  <2> QED
    BY <1>2, <2>1 DEF SerialInv, Agree, ColumnsMatchLedger, ExhaustedStaysPaused
<1>5. CASE CommitResume(r)
  <2>1. UNCHANGED <<spent, money>> /\ \A c \in Campaigns : status'[c] = status[c] \/ c = task[r].row.id
    BY <1>5 DEF CommitResume, Flush, SerialInv, IInv, TypeOK
  <2>2. spent[task[r].row.id] < BudgetTotal[task[r].row.id]
    BY <1>1, <1>5 DEF CommitResume, IsOpen, SerialInv, Fresh, FreshTask, ResumeAllowed
  <2>3. \A c \in Campaigns : spent[c] \in Int /\ BudgetTotal[c] \in Int
    BY DEF SerialInv, IInv, TypeOK
  <2>4. ExhaustedStaysPaused'
    BY <2>1, <2>2, <2>3 DEF SerialInv, ExhaustedStaysPaused
  <2>5. ColumnsMatchLedger'
    BY <2>1 DEF SerialInv, ColumnsMatchLedger
  <2> QED
    BY <1>2, <2>4, <2>5 DEF Agree
<1> QED
  BY <1>3, <1>4, <1>5 DEF Commit

LEMMA StepSerial == SerialInv /\ [SerialNext]_vars => SerialInv'
<1> SUFFICES ASSUME SerialInv, [SerialNext]_vars PROVE SerialInv'
  OBVIOUS
<1>1. IInv /\ Alone /\ [Next]_vars
  BY SerialIsNext DEF SerialInv
<1>2. IInv'
  BY <1>1, NextIInv
<1>3. CASE SerialNext
  <2>1. Alone'
    BY <1>1, <1>3, StepAlone
  <2>2. Fresh' /\ Agree'
    <3>1. ASSUME NEW w \in Workers, Continue(w) PROVE Fresh' /\ Agree'
      BY <3>1, ContinueSerial
    <3>2. ASSUME NEW r \in Requests, Commit(r) PROVE Fresh' /\ Agree'
      BY <3>2, CommitSerial
    <3>3. ASSUME NEW r \in Requests, Quiet, Open(r) PROVE Fresh' /\ Agree'
      BY <3>3, OpenSerial
    <3> QED
      BY <1>3, <3>1, <3>2, <3>3, OtherSerial DEF SerialNext
  <2> QED
    BY <1>2, <2>1, <2>2 DEF SerialInv, Agree
<1>4. CASE UNCHANGED vars
  <2>1. Alone'
    BY <1>1, <1>4 DEF vars, Alone
  <2>2. Fresh'
    BY <1>4 DEF vars, SerialInv, Fresh, FreshRows, FreshTask, ResumeAllowed
  <2>3. ColumnsMatchLedger' /\ ExhaustedStaysPaused'
    BY <1>4 DEF vars, SerialInv, ColumnsMatchLedger, ExhaustedStaysPaused
  <2> QED
    BY <1>2, <2>1, <2>2, <2>3 DEF SerialInv
<1> QED
  BY <1>3, <1>4

(* Without overlap no debit, accrual or deposit is ever lost: each column  *)
(* that a pass or a portal call writes back equals the ledger's total.     *)
THEOREM SerialAgrees == Serial => []ColumnsMatchLedger
<1>1. SerialInv => ColumnsMatchLedger
  BY DEF SerialInv
<1> QED
  BY <1>1, SerialInit, StepSerial, PTL DEF Serial

(* Without overlap a campaign that has used its budget is paused by the    *)
(* step that uses it, and no resume call reactivates it.                   *)
THEOREM SerialExhausted == Serial => []ExhaustedStaysPaused
<1>1. SerialInv => ExhaustedStaysPaused
  BY DEF SerialInv
<1> QED
  BY <1>1, SerialInit, StepSerial, PTL DEF Serial
=============================================================================
