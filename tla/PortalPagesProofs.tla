------------------------- MODULE PortalPagesProofs -------------------------
(***************************************************************************)
(* What the pages of the portals can promise, for any number of plays,     *)
(* campaigns, fleets and pages.  Three facts carry the argument:           *)
(*   - an impression is never changed once it is there (ImpressionsStay),  *)
(*     so every figure that adds up impressions can only grow;             *)
(*   - the ledger is the sum of the impression rows (LedgerInv), so what a *)
(*     campaign has used is bounded by what its impressions cost;          *)
(*   - a page reads the smaller figure of each pair first (ReadInOrder).   *)
(***************************************************************************)
EXTENDS PortalPages, SpendProcessorProofs, SumTheorems

(***************************************************************************)
(*                          The ledger and its rows                        *)
(***************************************************************************)

\* What each event adds to a campaign, an advertiser and an OEM.
GrossRows(imp, c) == [e \in Events |-> IF imp[e] # None /\ CampaignOf[e] = c THEN imp[e].gross ELSE 0]
ChargeRows(imp, a) == [e \in Events |-> IF imp[e] # None /\ Payer[e] = a THEN imp[e].charge ELSE 0]
AccrualRows(imp, o) == [e \in Events |-> IF imp[e] # None /\ Payee[e] = o THEN imp[e].oem ELSE 0]

\* Each ledger total is the sum over the impression rows it stands for.
LedgerMatchesImpressions ==
    /\ \A c \in Campaigns : grossed[c] = SumFunctionOnSet(GrossRows(impression, c), Events)
    /\ \A a \in Advertisers : charged[a] = SumFunctionOnSet(ChargeRows(impression, a), Events)
    /\ \A o \in Oems : accrued[o] = SumFunctionOnSet(AccrualRows(impression, o), Events)

\* An impression is of a known campaign and costs its gross price, or nothing.
PromosAreFree ==
    \A e \in Events : impression[e] # None =>
        /\ CampaignOf[e] \in Campaigns
        /\ impression[e].charge = IF IsPromo[CampaignOf[e]] THEN 0 ELSE impression[e].gross

LedgerInv == IInv /\ LedgerMatchesImpressions /\ PromosAreFree

\* A charge as the pages see it.
Books(e, q) ==
    /\ impression[e] = None
    /\ CampaignOf[e] \in Campaigns
    /\ q.charge = IF IsPromo[CampaignOf[e]] THEN 0 ELSE q.gross
    /\ impression' = [impression EXCEPT ![e] = q]
    /\ grossed' = [grossed EXCEPT ![CampaignOf[e]] = @ + q.gross]
    /\ charged' = [charged EXCEPT ![Payer[e]] = @ + q.charge]
    /\ accrued' = [accrued EXCEPT ![Payee[e]] = @ + q.oem]

LEMMA BillBooks ==
    ASSUME IInv, NEW w \in Workers, NEW n \in Attended, Bill(w, PriceOf(w, n))
    PROVE  /\ event[w] \in Events /\ PriceOf(w, n) \in Quotes
           /\ Books(event[w], PriceOf(w, n))
<1> DEFINE q == PriceOf(w, n)
           e == event[w]
<1>1. pc[w] = "oem"
  BY DEF Bill
<1>2. /\ e \in Events /\ q \in Quotes /\ campaignRow[w].id = CampaignOf[e]
      /\ advertiserRow[w].id = AdvertiserOf[CampaignOf[e]] /\ CampaignOf[e] \in Campaigns
      /\ oemRow[w].id = OemOf[FleetOf[e]]
  BY <1>1, PricedQuote DEF CampaignRows
<1>3. Payer[e] = advertiserRow[w].id /\ Payee[e] = oemRow[w].id
  BY <1>2 DEF Payer, Payee
<1>4. impression[e] = None
  BY <1>1, <1>2 DEF IInv, LocksInv, InTransaction
<1>5. q.charge = IF IsPromo[CampaignOf[e]] THEN 0 ELSE q.gross
  BY <1>2 DEF PriceOf, Quote
<1>6. /\ impression' = [impression EXCEPT ![e] = q]
      /\ grossed' = [grossed EXCEPT ![CampaignOf[e]] = @ + q.gross]
      /\ charged' = [charged EXCEPT ![Payer[e]] = @ + q.charge]
      /\ accrued' = [accrued EXCEPT ![Payee[e]] = @ + q.oem]
  <2> HIDE DEF q, e
  <2>1. Bill(w, q)
    BY DEF q
  <2> QED
    BY <1>2, <1>3, <2>1 DEF Bill, e
<1> QED
  BY <1>2, <1>4, <1>5, <1>6 DEF Books

(* Only a charge touches the impressions and the ledger of charges.        *)
LEMMA OnlyChargesBook ==
    ASSUME IInv, [Next]_vars
    PROVE  \/ UNCHANGED <<impression, grossed, charged, accrued>>
           \/ \E e \in Events, q \in Quotes : Books(e, q)
<1>1. ASSUME NEW w \in Workers, Step(w)
      PROVE  \/ UNCHANGED <<impression, grossed, charged, accrued>>
             \/ \E e \in Events, q \in Quotes : Books(e, q)
  <2>1. CASE Charge(w)
    <3>1. PICK n \in Attended : Bill(w, PriceOf(w, n))
      BY <2>1 DEF Charge, Audiences
    <3> QED
      BY <3>1, BillBooks, Zenon
  <2> QED
    BY <1>1, <2>1 DEF Step, Continue, Settle, StartPass, Claim, SkipTaken, EndPass, DropUnreferenced,
       LoadCampaign, DropDisabled, LoadAdvertiser, LoadOem, Decline, Abort, Leave, events, money, Finish
<1>2. ASSUME NEW e \in Events, Receive(e) PROVE UNCHANGED <<impression, grossed, charged, accrued>>
  BY <1>2 DEF Receive, money
<1>3. ASSUME NEW w \in Workers, Crash(w) PROVE UNCHANGED <<impression, grossed, charged, accrued>>
  BY <1>3 DEF Crash, Leave, money
<1>4. ASSUME NEW r \in Requests, Request(r) PROVE UNCHANGED <<impression, grossed, charged, accrued>>
  BY <1>4 DEF Request, Open, Commit, OpenDeposit, CommitDeposit, OpenToggle, CommitPause, CommitResume,
     events, money
<1>5. UNCHANGED vars => UNCHANGED <<impression, grossed, charged, accrued>>
  BY DEF vars, events, money
<1> QED
  BY <1>1, <1>2, <1>3, <1>4, <1>5 DEF Next

(* A sum over a larger set that adds nothing outside of the smaller one.   *)
LEMMA SumSupport ==
    ASSUME NEW S, IsFiniteSet(S), NEW R \in SUBSET S, NEW f, \A x \in S : f[x] \in Int,
           \A x \in S \ R : f[x] = 0
    PROVE  SumFunctionOnSet(f, S) = SumFunctionOnSet(f, R)
<1> DEFINE T == S \ R
<1>1. IsFiniteSet(R) /\ IsFiniteSet(T) /\ R \cap T = {} /\ R \cup T = S
  BY FS_Subset
<1>2. SumFunctionOnSet(f, T) = 0 /\ SumFunctionOnSet(f, R) \in Int
  BY <1>1, SumZero, SumType
<1>3. \A x \in R \cup T : f[x] \in Int
  BY <1>1
<1> HIDE DEF T
<1>4. SumFunctionOnSet(f, R \cup T) = SumFunctionOnSet(f, R) + SumFunctionOnSet(f, T)
  BY <1>1, <1>3, SumDisjoint
<1>5. SumFunctionOnSet(f, R \cup T) = SumFunctionOnSet(f, S)
  BY <1>1, Zenon
<1> QED
  BY <1>2, <1>4, <1>5

(* One row more changes the sum of its owner by what it adds, and no other.*)
LEMMA RowAdds ==
    ASSUME IsFiniteSet(Events), NEW f, NEW g, NEW e \in Events, f[e] = 0,
           \A x \in Events : f[x] \in Int /\ g[x] \in Int /\ (x # e => f[x] = g[x])
    PROVE  SumFunctionOnSet(g, Events) = SumFunctionOnSet(f, Events) + g[e]
<1>1. SumFunctionOnSet(g, Events) = SumFunctionOnSet(f, Events) - f[e] + g[e]
  BY SumChange
<1>2. SumFunctionOnSet(f, Events) \in Int
  BY SumType
<1> QED
  BY <1>1, <1>2

LEMMA LedgerStep ==
    ASSUME LedgerInv, [Next]_vars
    PROVE  LedgerInv'
<1>1. IInv' /\ TypeOK /\ IsFiniteSet(Events)
  BY NextIInv, PagesAssumption DEF LedgerInv, IInv
<1>2. CASE UNCHANGED <<impression, grossed, charged, accrued>>
  BY <1>1, <1>2 DEF LedgerInv, LedgerMatchesImpressions, PromosAreFree, GrossRows, ChargeRows, AccrualRows
<1>3. ASSUME NEW e \in Events, NEW q \in Quotes, Books(e, q) PROVE LedgerInv'
  <2> DEFINE new == impression'
             old == impression
  <2>1. /\ old[e] = None /\ new[e] = q /\ q # None
        /\ \A x \in Events : x # e => new[x] = old[x]
        /\ \A x \in Events : old[x] # None => old[x] \in Quotes
    BY <1>1, <1>3, NoneAssumption DEF Books, TypeOK
  <2>2. q.gross \in Nat /\ q.charge \in Nat /\ q.oem \in Nat
    BY DEF Quotes
  <2>3. \A x \in Events : old[x] # None => old[x].gross \in Nat /\ old[x].charge \in Nat /\ old[x].oem \in Nat
    BY <2>1 DEF Quotes
  <2>4. Payer[e] \in Advertisers /\ Payee[e] \in Oems /\ CampaignOf[e] \in Campaigns
    BY <1>3, WiringAssumption DEF Books, Payer, Payee
  <2>5. ASSUME NEW c \in Campaigns
        PROVE  grossed'[c] = SumFunctionOnSet(GrossRows(new, c), Events)
    <3> DEFINE f == GrossRows(old, c)
               g == GrossRows(new, c)
    <3>1. /\ f[e] = 0 /\ g[e] = (IF CampaignOf[e] = c THEN q.gross ELSE 0)
          /\ \A x \in Events : f[x] \in Int /\ g[x] \in Int /\ (x # e => f[x] = g[x])
      <4> HIDE DEF new, old
      <4> QED
        BY <2>1, <2>2, <2>3 DEF GrossRows
    <3>2. grossed[c] = SumFunctionOnSet(f, Events)
      BY DEF LedgerInv, LedgerMatchesImpressions
    <3>3. grossed'[c] = grossed[c] + (IF CampaignOf[e] = c THEN q.gross ELSE 0) /\ grossed[c] \in Nat
      BY <1>1, <1>3, <2>2, <2>4 DEF Books, TypeOK
    <3> HIDE DEF f, g
    <3>4. SumFunctionOnSet(g, Events) = SumFunctionOnSet(f, Events) + g[e]
      BY <1>1, <3>1, RowAdds
    <3>5. grossed'[c] = SumFunctionOnSet(g, Events)
      BY <3>1, <3>2, <3>3, <3>4
    <3> QED
      BY <3>5 DEF g
  <2>6. ASSUME NEW a \in Advertisers
        PROVE  charged'[a] = SumFunctionOnSet(ChargeRows(new, a), Events)
    <3> DEFINE f == ChargeRows(old, a)
               g == ChargeRows(new, a)
    <3>1. /\ f[e] = 0 /\ g[e] = (IF Payer[e] = a THEN q.charge ELSE 0)
          /\ \A x \in Events : f[x] \in Int /\ g[x] \in Int /\ (x # e => f[x] = g[x])
      <4> HIDE DEF new, old
      <4> QED
        BY <2>1, <2>2, <2>3 DEF ChargeRows
    <3>2. charged[a] = SumFunctionOnSet(f, Events)
      BY DEF LedgerInv, LedgerMatchesImpressions
    <3>3. charged'[a] = charged[a] + (IF Payer[e] = a THEN q.charge ELSE 0) /\ charged[a] \in Nat
      BY <1>1, <1>3, <2>2, <2>4 DEF Books, TypeOK
    <3> HIDE DEF f, g
    <3>4. SumFunctionOnSet(g, Events) = SumFunctionOnSet(f, Events) + g[e]
      BY <1>1, <3>1, RowAdds
    <3>5. charged'[a] = SumFunctionOnSet(g, Events)
      BY <3>1, <3>2, <3>3, <3>4
    <3> QED
      BY <3>5 DEF g
  <2>7. ASSUME NEW o \in Oems
        PROVE  accrued'[o] = SumFunctionOnSet(AccrualRows(new, o), Events)
    <3> DEFINE f == AccrualRows(old, o)
               g == AccrualRows(new, o)
    <3>1. /\ f[e] = 0 /\ g[e] = (IF Payee[e] = o THEN q.oem ELSE 0)
          /\ \A x \in Events : f[x] \in Int /\ g[x] \in Int /\ (x # e => f[x] = g[x])
      <4> HIDE DEF new, old
      <4> QED
        BY <2>1, <2>2, <2>3 DEF AccrualRows
    <3>2. accrued[o] = SumFunctionOnSet(f, Events)
      BY DEF LedgerInv, LedgerMatchesImpressions
    <3>3. accrued'[o] = accrued[o] + (IF Payee[e] = o THEN q.oem ELSE 0) /\ accrued[o] \in Nat
      BY <1>1, <1>3, <2>2, <2>4 DEF Books, TypeOK
    <3> HIDE DEF f, g
    <3>4. SumFunctionOnSet(g, Events) = SumFunctionOnSet(f, Events) + g[e]
      BY <1>1, <3>1, RowAdds
    <3>5. accrued'[o] = SumFunctionOnSet(g, Events)
      BY <3>1, <3>2, <3>3, <3>4
    <3> QED
      BY <3>5 DEF g
  <2>8. PromosAreFree'
    BY <1>3, <2>1 DEF LedgerInv, PromosAreFree, Books
  <2> QED
    BY <1>1, <2>5, <2>6, <2>7, <2>8 DEF LedgerInv, LedgerMatchesImpressions
<1> QED
  BY <1>2, <1>3, OnlyChargesBook DEF LedgerInv

LEMMA LedgerInit == Init => LedgerInv
<1> SUFFICES ASSUME Init PROVE LedgerInv
  OBVIOUS
<1>1. IInv /\ IsFiniteSet(Events)
  BY InitIInv, PagesAssumption
<1>2. \A e \in Events : impression[e] = None
  BY DEF Init
<1>3. \A c : /\ \A e \in Events : GrossRows(impression, c)[e] = 0
             /\ \A e \in Events : ChargeRows(impression, c)[e] = 0
             /\ \A e \in Events : AccrualRows(impression, c)[e] = 0
  BY <1>2 DEF GrossRows, ChargeRows, AccrualRows
<1>4. \A c : /\ SumFunctionOnSet(GrossRows(impression, c), Events) = 0
             /\ SumFunctionOnSet(ChargeRows(impression, c), Events) = 0
             /\ SumFunctionOnSet(AccrualRows(impression, c), Events) = 0
  BY <1>1, <1>3, SumZero
<1>5. LedgerMatchesImpressions
  BY <1>4 DEF LedgerMatchesImpressions, Init
<1>6. PromosAreFree
  BY <1>2 DEF PromosAreFree
<1> QED
  BY <1>1, <1>5, <1>6 DEF LedgerInv

(* The gross price, the charges and the accruals of the ledger are the     *)
(* sums over the impression rows, through any overlap of passes, portal    *)
(* calls and crashes: the rows of one event are committed together.        *)
THEOREM LedgerIsImpressions == Spec => []LedgerMatchesImpressions
<1>1. LedgerInv => LedgerMatchesImpressions
  BY DEF LedgerInv
<1> QED
  BY <1>1, LedgerInit, LedgerStep, PTL DEF Spec

(***************************************************************************)
(*                     The figures as functions of the rows                *)
(***************************************************************************)

\* The figures that add up impressions.
Growing == {"plays", "money", "plays24", "plays30", "samples24", "samples30",
            "money24", "money30", "fleets"}

\* Scope, Since and Money for given impression rows.
InScope(imp, on) == {e \in Events : imp[e] # None
                             /\ on \in {CampaignOf[e], Payer[e], Payee[e], FleetOf[e]}}
InSince(imp, on, hours) == {e \in InScope(imp, on) : ShownAt[e] >= Now - hours}
InShare(imp, on, e) == IF on \in Oems \cup Fleets THEN imp[e].oem ELSE imp[e].charge
MoneyIn(imp, on, S) == SumFunctionOnSet([e \in S |-> InShare(imp, on, e)], S)
FleetsIn(imp, on) == SumFunctionOnSet([f \in FleetsOf(on) |-> MoneyIn(imp, f, InSince(imp, f, Month))],
                                      FleetsOf(on))

\* What each impression is worth to whom a page is about, nothing without a row.
Worth(imp, on) == [e \in Events |-> IF imp[e] = None THEN 0 ELSE InShare(imp, on, e)]

IsRows(imp) == imp \in [Events -> Quotes \cup {None}]

LEMMA FigureIn ==
    ASSUME NEW on
    PROVE  /\ Scope(on) = InScope(impression, on)
           /\ \A hours : Since(on, hours) = InSince(impression, on, hours)
           /\ \A S : Money(on, S) = MoneyIn(impression, on, S)
           /\ Figure(on, "used") = spent[on]
           /\ Figure(on, "campaigns") = Cardinality(OwnCampaigns(on))
           /\ Figure(on, "active") = Cardinality({c \in OwnCampaigns(on) : status[c] = "active"})
           /\ Figure(on, "paused") = Cardinality({c \in OwnCampaigns(on) : status[c] = "paused"})
           /\ Figure(on, "plays") = Cardinality(InScope(impression, on))
           /\ Figure(on, "money") = MoneyIn(impression, on, InScope(impression, on))
           /\ Figure(on, "plays24") = Cardinality(InSince(impression, on, Day))
           /\ Figure(on, "samples24") = Cardinality(InSince(impression, on, Day))
           /\ Figure(on, "plays30") = Cardinality(InSince(impression, on, Month))
           /\ Figure(on, "samples30") = Cardinality(InSince(impression, on, Month))
           /\ Figure(on, "money24") = MoneyIn(impression, on, InSince(impression, on, Day))
           /\ Figure(on, "money30") = MoneyIn(impression, on, InSince(impression, on, Month))
           /\ Figure(on, "days") = MoneyIn(impression, on, Series(on))
           /\ Figure(on, "fleets") = FleetsIn(impression, on)
<1>1. Scope(on) = InScope(impression, on) /\ \A hours : Since(on, hours) = InSince(impression, on, hours)
  BY DEF Scope, Since, InScope, InSince
<1>2. \A x, S : Money(x, S) = MoneyIn(impression, x, S)
  BY Zenon DEF Money, MoneyIn, Share, InShare
<1>3. \A x : Since(x, Month) = InSince(impression, x, Month)
  BY DEF Scope, Since, InScope, InSince
<1>4. SumFunctionOnSet([f \in FleetsOf(on) |-> Money(f, Since(f, Month))], FleetsOf(on)) = FleetsIn(impression, on)
  BY <1>2, <1>3, Zenon DEF FleetsIn
<1>5. Figure(on, "used") = spent[on]
  BY DEF Figure
<1>6. /\ Figure(on, "campaigns") = Cardinality(OwnCampaigns(on))
      /\ Figure(on, "active") = Cardinality({c \in OwnCampaigns(on) : status[c] = "active"})
      /\ Figure(on, "paused") = Cardinality({c \in OwnCampaigns(on) : status[c] = "paused"})
  BY DEF Figure
<1>7. /\ Figure(on, "plays") = Cardinality(Scope(on))
      /\ Figure(on, "money") = Money(on, Scope(on))
      /\ Figure(on, "plays24") = Cardinality(Since(on, Day))
      /\ Figure(on, "samples24") = Cardinality(Since(on, Day))
      /\ Figure(on, "plays30") = Cardinality(Since(on, Month))
      /\ Figure(on, "samples30") = Cardinality(Since(on, Month))
      /\ Figure(on, "money24") = Money(on, Since(on, Day))
      /\ Figure(on, "money30") = Money(on, Since(on, Month))
      /\ Figure(on, "days") = Money(on, Series(on))
  BY DEF Figure
<1>8. Figure(on, "fleets") = SumFunctionOnSet([f \in FleetsOf(on) |-> Money(f, Since(f, Month))], FleetsOf(on))
  BY DEF Figure
<1> QED
  BY <1>1, <1>2, <1>4, <1>5, <1>6, <1>7, <1>8

LEMMA WorthType ==
    ASSUME NEW imp, IsRows(imp), NEW on
    PROVE  \A e \in Events : Worth(imp, on)[e] \in Nat
<1> SUFFICES ASSUME NEW e \in Events PROVE Worth(imp, on)[e] \in Nat
  OBVIOUS
<1>1. imp[e] # None => imp[e].oem \in Nat /\ imp[e].charge \in Nat
  BY DEF IsRows, Quotes
<1> QED
  BY <1>1 DEF Worth, InShare

(* Money is a sum of one function, whatever set it is taken over.          *)
LEMMA MoneyOfWorth ==
    ASSUME NEW imp, IsRows(imp), NEW on, NEW S \in SUBSET Events, \A e \in S : imp[e] # None
    PROVE  /\ IsFiniteSet(S)
           /\ MoneyIn(imp, on, S) = SumFunctionOnSet(Worth(imp, on), S)
           /\ MoneyIn(imp, on, S) \in Nat
<1> DEFINE f == Worth(imp, on)
           g == [e \in S |-> InShare(imp, on, e)]
<1>1. IsFiniteSet(S)
  BY PagesAssumption, FS_Subset
<1>2. \A e \in S : f[e] \in Nat
  BY WorthType
<1>3. \A e \in S : f[e] = g[e]
  BY DEF Worth
<1>4. MoneyIn(imp, on, S) = SumFunctionOnSet(g, S)
  BY DEF MoneyIn
<1> HIDE DEF f, g
<1>5. SumFunctionOnSet(g, S) = SumFunctionOnSet(f, S)
  BY <1>1, <1>2, <1>3, SumSame
<1>6. SumFunctionOnSet(f, S) \in Nat
  BY <1>1, <1>2, SumType
<1> QED
  BY <1>1, <1>4, <1>5, <1>6 DEF f

\* The rows that are there stay as they are.
Keeps(imp, new) == \A e \in Events : imp[e] # None => new[e] = imp[e]

(* More rows never bring less money.                                       *)
LEMMA MoneyGrows ==
    ASSUME NEW imp, IsRows(imp), NEW new, IsRows(new), Keeps(imp, new), NEW on,
           NEW S \in SUBSET Events, \A e \in S : imp[e] # None,
           NEW T \in SUBSET Events, \A e \in T : new[e] # None, S \subseteq T
    PROVE  MoneyIn(imp, on, S) <= MoneyIn(new, on, T)
<1> DEFINE f == Worth(imp, on)
           g == Worth(new, on)
<1>1. /\ MoneyIn(imp, on, S) = SumFunctionOnSet(f, S) /\ IsFiniteSet(S)
      /\ MoneyIn(new, on, T) = SumFunctionOnSet(g, T) /\ IsFiniteSet(T)
  BY MoneyOfWorth
<1>2. \A e \in Events : f[e] \in Nat /\ g[e] \in Nat
  BY WorthType
<1>3. \A e \in S : f[e] = g[e]
  BY DEF Worth, InShare, Keeps
<1> HIDE DEF f, g
<1>4. SumFunctionOnSet(f, S) = SumFunctionOnSet(g, S)
  BY <1>1, <1>2, <1>3, SumSame
<1>5. SumFunctionOnSet(g, S) <= SumFunctionOnSet(g, T)
  BY <1>1, <1>2, SumSubset
<1> QED
  BY <1>1, <1>4, <1>5

LEMMA ScopesGrow ==
    ASSUME NEW imp, IsRows(imp), NEW new, IsRows(new), Keeps(imp, new), NEW on
    PROVE  /\ InScope(imp, on) \in SUBSET Events
           /\ \A e \in InScope(imp, on) : imp[e] # None
           /\ InScope(imp, on) \subseteq InScope(new, on)
           /\ \A hours : /\ InSince(imp, on, hours) \subseteq InScope(imp, on)
                         /\ InSince(imp, on, hours) \subseteq InSince(new, on, hours)
  BY NoneAssumption DEF IsRows, Keeps, InScope, InSince

LEMMA FiguresGrow ==
    ASSUME NEW imp, IsRows(imp), NEW new, IsRows(new), Keeps(imp, new), NEW on, NEW hours
    PROVE  /\ Cardinality(InScope(imp, on)) \in Nat
           /\ Cardinality(InScope(imp, on)) <= Cardinality(InScope(new, on))
           /\ MoneyIn(imp, on, InScope(imp, on)) \in Nat
           /\ MoneyIn(imp, on, InScope(imp, on)) <= MoneyIn(new, on, InScope(new, on))
           /\ Cardinality(InSince(imp, on, hours)) \in Nat
           /\ Cardinality(InSince(imp, on, hours)) <= Cardinality(InSince(new, on, hours))
           /\ MoneyIn(imp, on, InSince(imp, on, hours)) \in Nat
           /\ MoneyIn(imp, on, InSince(imp, on, hours)) <= MoneyIn(new, on, InSince(new, on, hours))
<1> DEFINE A == InScope(imp, on)
           B == InScope(new, on)
           C == InSince(imp, on, hours)
           D == InSince(new, on, hours)
<1>1. /\ A \in SUBSET Events /\ A \subseteq B /\ C \subseteq A /\ C \subseteq D
      /\ \A e \in A : imp[e] # None
  BY ScopesGrow
<1>2. Keeps(new, new)
  BY DEF Keeps
<1>3. B \in SUBSET Events /\ D \subseteq B /\ \A e \in B : new[e] # None
  BY <1>2, ScopesGrow
<1> HIDE DEF A, B, C, D
<1>4. IsFiniteSet(B)
  BY <1>3, PagesAssumption, FS_Subset
<1>5. IsFiniteSet(D)
  BY <1>3, <1>4, FS_Subset
<1>6. /\ Cardinality(A) \in Nat /\ Cardinality(A) <= Cardinality(B)
      /\ Cardinality(C) \in Nat /\ Cardinality(C) <= Cardinality(D)
  BY <1>1, <1>4, <1>5, FS_Subset, FS_CardinalityType
<1>7. MoneyIn(imp, on, A) \in Nat /\ MoneyIn(imp, on, A) <= MoneyIn(new, on, B)
  BY <1>1, <1>3, MoneyOfWorth, MoneyGrows
<1>8. C \in SUBSET Events /\ (\A e \in C : imp[e] # None) /\ D \in SUBSET Events /\ (\A e \in D : new[e] # None)
  BY <1>1, <1>3
<1>9. MoneyIn(imp, on, C) \in Nat /\ MoneyIn(imp, on, C) <= MoneyIn(new, on, D)
  BY <1>1, <1>8, MoneyOfWorth, MoneyGrows
<1> QED
  BY <1>6, <1>7, <1>9 DEF A, B, C, D

LEMMA FleetsGrow ==
    ASSUME NEW imp, IsRows(imp), NEW new, IsRows(new), Keeps(imp, new), NEW on
    PROVE  FleetsIn(imp, on) \in Nat /\ FleetsIn(imp, on) <= FleetsIn(new, on)
<1> DEFINE K == FleetsOf(on)
           f == [k \in K |-> MoneyIn(imp, k, InSince(imp, k, Month))]
           g == [k \in K |-> MoneyIn(new, k, InSince(new, k, Month))]
<1>1. IsFiniteSet(K)
  BY PagesAssumption, FS_Subset DEF FleetsOf
<1>2. Keeps(new, new)
  BY DEF Keeps
<1>3. \A k \in K : f[k] \in Nat /\ g[k] \in Nat /\ f[k] <= g[k]
  BY <1>2, FiguresGrow
<1>4. FleetsIn(imp, on) = SumFunctionOnSet(f, K) /\ FleetsIn(new, on) = SumFunctionOnSet(g, K)
  BY DEF FleetsIn
<1> HIDE DEF K, f, g
<1>5. SumFunctionOnSet(f, K) \in Nat
  BY <1>1, <1>3, SumType
<1>6. SumFunctionOnSet(f, K) <= SumFunctionOnSet(g, K)
  BY <1>1, <1>3, SumMonotone
<1> QED
  BY <1>4, <1>5, <1>6

----------------------------------------------------------------------------
(* How figures of one moment relate.                                       *)

(* The month covers the day.                                               *)
LEMMA DayInMonth ==
    ASSUME NEW imp, IsRows(imp), NEW on
    PROVE  /\ Cardinality(InSince(imp, on, Day)) <= Cardinality(InSince(imp, on, Month))
           /\ MoneyIn(imp, on, InSince(imp, on, Day)) <= MoneyIn(imp, on, InSince(imp, on, Month))
<1> DEFINE C == InSince(imp, on, Day)
           D == InSince(imp, on, Month)
<1>1. Keeps(imp, imp)
  BY DEF Keeps
<1>2. C \subseteq D
  BY PagesAssumption DEF InSince, InScope, Day, Month
<1>3. D \in SUBSET Events /\ \A e \in D : imp[e] # None
  BY <1>1, ScopesGrow
<1>4. IsFiniteSet(D)
  BY <1>3, PagesAssumption, FS_Subset
<1> HIDE DEF C, D
<1>5. Cardinality(C) <= Cardinality(D)
  BY <1>2, <1>4, FS_Subset
<1>6. C \in SUBSET Events /\ \A e \in C : imp[e] # None
  BY <1>2, <1>3
<1>7. MoneyIn(imp, on, C) <= MoneyIn(imp, on, D)
  BY <1>1, <1>2, <1>3, <1>6, MoneyGrows
<1> QED
  BY <1>5, <1>7 DEF C, D

(* A key belongs to one table, so a page is about the rows of one kind.    *)
LEMMA ScopeByKind ==
    ASSUME NEW imp, IsRows(imp)
    PROVE  /\ \A c \in Campaigns : InScope(imp, c) = {e \in Events : imp[e] # None /\ CampaignOf[e] = c}
           /\ \A o \in Oems : InScope(imp, o) = {e \in Events : imp[e] # None /\ Payee[e] = o}
           /\ \A f \in Fleets : InScope(imp, f) = {e \in Events : imp[e] # None /\ FleetOf[e] = f}
<1>1. \A e \in Events : /\ CampaignOf[e] \in Campaigns \cup {NoReference, Unknown}
                        /\ FleetOf[e] \in Fleets /\ Payee[e] \in Oems
                        /\ Payer[e] \in Advertisers \cup {None}
                        /\ Payee[e] = OemOf[FleetOf[e]]
  BY WiringAssumption DEF Payer, Payee
<1>2. \A c \in Campaigns : \A e \in Events : c # Payer[e] /\ c # Payee[e] /\ c # FleetOf[e]
  BY <1>1, KeysAssumption
<1>3. \A o \in Oems : \A e \in Events : o # CampaignOf[e] /\ o # Payer[e] /\ o # FleetOf[e]
  BY <1>1, KeysAssumption, KindsAssumption
<1>4. \A f \in Fleets : \A e \in Events : f # CampaignOf[e] /\ f # Payer[e] /\ f # Payee[e]
  BY <1>1, KeysAssumption
<1> QED
  BY <1>2, <1>3, <1>4 DEF InScope

(* The fleets of an OEM make up its month.                                 *)
LEMMA FleetsMakeMonth ==
    ASSUME NEW imp, IsRows(imp), NEW o \in Oems
    PROVE  FleetsIn(imp, o) = MoneyIn(imp, o, InSince(imp, o, Month))
<1> DEFINE K == FleetsOf(o)
           S == InSince(imp, o, Month)
           f == Worth(imp, o)
           part == [k \in K |-> InSince(imp, k, Month)]
           h == [k \in K |-> MoneyIn(imp, k, InSince(imp, k, Month))]
<1>1. IsFiniteSet(K)
  BY PagesAssumption, FS_Subset DEF FleetsOf
<1>2. Keeps(imp, imp)
  BY DEF Keeps
<1>3. S \in SUBSET Events /\ \A e \in S : imp[e] # None
  BY <1>2, ScopesGrow
<1>4. \A k \in K : part[k] = {e \in Events : imp[e] # None /\ FleetOf[e] = k /\ ShownAt[e] >= Now - Month}
  BY ScopeByKind DEF InSince, FleetsOf
<1>5. S = {e \in Events : imp[e] # None /\ OemOf[FleetOf[e]] = o /\ ShownAt[e] >= Now - Month}
  <2>1. InScope(imp, o) = {e \in Events : imp[e] # None /\ Payee[e] = o}
    BY ScopeByKind
  <2>2. \A e \in Events : Payee[e] = OemOf[FleetOf[e]]
    BY DEF Payee
  <2> QED
    BY <2>1, <2>2 DEF InSince
<1>6. UNION {part[k] : k \in K} = S
  <2>1. \A k \in K : part[k] \subseteq S
    BY <1>4, <1>5 DEF FleetsOf
  <2>2. \A e \in S : FleetOf[e] \in K /\ e \in part[FleetOf[e]]
    BY <1>4, <1>5, WiringAssumption DEF FleetsOf
  <2> HIDE DEF K, S, part
  <2> QED
    BY <2>1, <2>2
<1>7. \A j, k \in K : j # k => part[j] \cap part[k] = {}
  BY <1>4
<1>8. \A e \in S : f[e] \in Int
  BY <1>3, WorthType
<1>9. ASSUME NEW k \in K PROVE h[k] = SumFunctionOnSet(f, part[k])
  <2> DEFINE g == Worth(imp, k)
             P == part[k]
  <2>1. P \in SUBSET Events /\ \A e \in P : imp[e] # None
    BY <1>4
  <2>2. h[k] = MoneyIn(imp, k, P)
    OBVIOUS
  <2>3. \A e \in P : f[e] = g[e]
    BY <2>1 DEF Worth, InShare, FleetsOf
  <2> HIDE DEF P, h, f, g
  <2>4. h[k] = SumFunctionOnSet(g, P) /\ IsFiniteSet(P)
    BY <2>1, <2>2, MoneyOfWorth DEF g
  <2>5. \A e \in P : f[e] \in Int
    BY <2>1, WorthType DEF f
  <2>6. SumFunctionOnSet(f, P) = SumFunctionOnSet(g, P)
    BY <2>3, <2>4, <2>5, SumSame
  <2> QED
    BY <2>4, <2>6 DEF P
<1>10. FleetsIn(imp, o) = SumFunctionOnSet(h, K)
  BY DEF FleetsIn
<1>11. MoneyIn(imp, o, S) = SumFunctionOnSet(f, S) /\ IsFiniteSet(S)
  BY <1>3, MoneyOfWorth
<1>12. \A k \in K : part[k] \subseteq S
  BY <1>6
<1> HIDE DEF K, S, f, part, h
<1>13. SumFunctionOnSet(h, K) = SumFunctionOnSet(f, UNION {part[k] : k \in K})
  BY <1>1, <1>7, <1>8, <1>9, <1>11, <1>12, SumByParts
<1>14. SumFunctionOnSet(f, UNION {part[k] : k \in K}) = SumFunctionOnSet(f, S)
  BY <1>6, Zenon
<1> QED
  BY <1>10, <1>11, <1>13, <1>14 DEF S

(* What a campaign has used is at most what its impressions cost it.       *)
LEMMA UsedIsPaid ==
    ASSUME LedgerInv, NEW c \in Campaigns, ~IsPromo[c]
    PROVE  spent[c] <= MoneyIn(impression, c, InScope(impression, c))
<1> DEFINE S == InScope(impression, c)
           f == GrossRows(impression, c)
           g == Worth(impression, c)
<1>1. IsRows(impression) /\ TypeOK /\ spent[c] <= grossed[c]
  BY DEF LedgerInv, IInv, TypeOK, Bounds, SpentNeverOvercounts, IsRows
<1>2. S = {e \in Events : impression[e] # None /\ CampaignOf[e] = c}
  BY <1>1, ScopeByKind
<1>3. \A e \in Events : impression[e] # None => impression[e].gross \in Nat /\ impression[e].charge \in Nat
  BY <1>1 DEF IsRows, Quotes
<1>4. \A e \in Events : f[e] \in Int /\ (e \notin S => f[e] = 0)
  BY <1>2, <1>3 DEF GrossRows
<1>5. \A e \in S : f[e] = g[e]
  <2>1. c \notin Oems \cup Fleets
    BY KeysAssumption
  <2> QED
    BY <1>2, <2>1 DEF GrossRows, Worth, InShare, LedgerInv, PromosAreFree
<1>6. grossed[c] = SumFunctionOnSet(f, Events)
  BY DEF LedgerInv, LedgerMatchesImpressions
<1>7. S \in SUBSET Events /\ \A e \in S : impression[e] # None
  BY <1>2
<1> HIDE DEF S, f, g
<1>8. MoneyIn(impression, c, S) = SumFunctionOnSet(g, S) /\ IsFiniteSet(S)
  BY <1>1, <1>7, MoneyOfWorth DEF g
<1>9. SumFunctionOnSet(f, Events) = SumFunctionOnSet(f, S)
  BY <1>4, <1>7, PagesAssumption, SumSupport
<1>10. SumFunctionOnSet(f, S) = SumFunctionOnSet(g, S)
  BY <1>4, <1>5, <1>7, <1>8, SumSame
<1> QED
  BY <1>1, <1>6, <1>8, <1>9, <1>10 DEF S

(* The 30 dates of the series are the hours between two midnights.         *)
LEMMA DatesOfSeries ==
    ASSUME NEW t \in Nat, NEW now \in Nat
    PROVE  now \div 24 - t \div 24 \in 0..29
              <=> ~(t < (now \div 24 - 29) * 24 \/ t >= (now \div 24 + 1) * 24)
<1>1. \A x \in Nat : x \div 24 \in Nat /\ 24 * (x \div 24) <= x /\ x < 24 * (x \div 24) + 24
  OBVIOUS
<1>2. PICK n \in Nat : n = now \div 24
  BY <1>1
<1>3. PICK d \in Nat : d = t \div 24 /\ 24 * d <= t /\ t < 24 * d + 24
  BY <1>1
<1>4. n - d \in 0..29 <=> ~(t < (n - 29) * 24 \/ t >= (n + 1) * 24)
  BY <1>3
<1> QED
  BY <1>2, <1>3, <1>4

LEMMA DatesMakeMonth ==
    ASSUME IsRows(impression), page.on \in Oems \cup Fleets
    PROVE  MoneyIn(impression, page.on, Series(page.on)) =
              MoneyIn(impression, page.on, InSince(impression, page.on, Month)) - Money(page.on, OnEdge)
<1> DEFINE on == page.on
           S == Series(on)
           R == OnEdge
           M == InSince(impression, on, Month)
           f == Worth(impression, on)
<1>1. on \notin Campaigns /\ Since(on, Month) = M
  BY KeysAssumption, FigureIn
<1>2. \A e \in M : e \in Events /\ impression[e] # None /\ ShownAt[e] \in Nat
  BY PagesAssumption DEF InSince, InScope
<1>3. \A e \in M : InSeries(e) <=> ~(\/ ShownAt[e] < (Now \div Day - 29) * Day
                                     \/ ShownAt[e] >= (Now \div Day + 1) * Day)
  <2> SUFFICES ASSUME NEW e \in M
               PROVE  InSeries(e) <=> ~(\/ ShownAt[e] < (Now \div Day - 29) * Day
                                        \/ ShownAt[e] >= (Now \div Day + 1) * Day)
    OBVIOUS
  <2>1. ShownAt[e] \in Nat /\ Now \in Nat
    BY <1>2, PagesAssumption
  <2> QED
    BY <2>1, DatesOfSeries DEF InSeries, Day
<1>4. S = {e \in M : InSeries(e)}
  BY <1>1 DEF Series
<1>5. R = {e \in M : \/ ShownAt[e] < (Now \div Day - 29) * Day
                     \/ ShownAt[e] >= (Now \div Day + 1) * Day}
  BY <1>1 DEF OnEdge
<1>6. S \cup R = M /\ S \cap R = {}
  <2> HIDE DEF M, S, R
  <2> QED
    BY <1>3, <1>4, <1>5
<1>7. Money(on, R) = MoneyIn(impression, on, R)
  BY FigureIn
<1>8. /\ M \in SUBSET Events /\ \A e \in M : impression[e] # None
      /\ S \in SUBSET Events /\ \A e \in S : impression[e] # None
      /\ R \in SUBSET Events /\ \A e \in R : impression[e] # None
  BY <1>2, <1>4, <1>5
<1>9. \A e \in Events : f[e] \in Int
  BY WorthType
<1> HIDE DEF on, S, R, M, f
<1>10. /\ MoneyIn(impression, on, M) = SumFunctionOnSet(f, M)
       /\ MoneyIn(impression, on, S) = SumFunctionOnSet(f, S) /\ IsFiniteSet(S)
       /\ MoneyIn(impression, on, R) = SumFunctionOnSet(f, R) /\ IsFiniteSet(R)
       /\ MoneyIn(impression, on, R) \in Nat /\ MoneyIn(impression, on, S) \in Nat
  BY <1>8, MoneyOfWorth DEF f
<1>11. \A e \in S \cup R : f[e] \in Int
  BY <1>8, <1>9
<1>12. SumFunctionOnSet(f, S \cup R) = SumFunctionOnSet(f, S) + SumFunctionOnSet(f, R)
  BY <1>6, <1>10, <1>11, SumDisjoint
<1>13. SumFunctionOnSet(f, S \cup R) = SumFunctionOnSet(f, M)
  BY <1>6, Zenon
<1>14. MoneyIn(impression, on, S) = MoneyIn(impression, on, M) - Money(on, R)
  BY <1>7, <1>10, <1>12, <1>13
<1> QED
  BY <1>14 DEF on, S, R, M

(* Every campaign is active or paused.                                     *)
LEMMA CampaignsAddUp ==
    ASSUME TypeOK, NEW on
    PROVE  Cardinality(OwnCampaigns(on)) = Cardinality({c \in OwnCampaigns(on) : status[c] = "active"})
                                         + Cardinality({c \in OwnCampaigns(on) : status[c] = "paused"})
<1> DEFINE A == {c \in OwnCampaigns(on) : status[c] = "active"}
           P == {c \in OwnCampaigns(on) : status[c] = "paused"}
           O == OwnCampaigns(on)
<1>1. IsFiniteSet(O)
  BY PagesAssumption, FS_Subset DEF OwnCampaigns
<1>2. \A c \in O : status[c] \in {"active", "paused"}
  BY DEF TypeOK, OwnCampaigns
<1>3. A \cup P = O /\ A \cap P = {}
  BY <1>2
<1> HIDE DEF A, P, O
<1>4. IsFiniteSet(A) /\ IsFiniteSet(P)
  BY <1>1, <1>3, FS_Subset
<1>5. Cardinality(A \cup P) = Cardinality(A) + Cardinality(P) - Cardinality(A \cap P)
  BY <1>4, FS_Union
<1>6. Cardinality(A \cap P) = 0
  BY <1>3, FS_EmptySet, Zenon
<1>7. Cardinality(A) \in Nat /\ Cardinality(P) \in Nat
  BY <1>4, FS_CardinalityType
<1>8. Cardinality(A \cup P) = Cardinality(O)
  BY <1>3, Zenon
<1>9. Cardinality(O) = Cardinality(A) + Cardinality(P)
  BY <1>5, <1>6, <1>7, <1>8
<1> QED
  BY <1>9 DEF A, P, O

----------------------------------------------------------------------------
(* In what order a page reads.                                             *)

\* The first figure of each pair never gets ahead of the second.
Pairs == {<<"plays24", "plays30">>, <<"plays30", "samples30">>, <<"money24", "money30">>,
          <<"money30", "fleets">>, <<"used", "money">>}

\* The second figure of each pair is never shown without the first.
Needs == {<<"active", "paused">>, <<"campaigns", "paused">>, <<"money30", "fleets">>}

Reads(shows) ==
    /\ Len(shows) \in Nat
    /\ \A i \in 1..Len(shows) : shows[i] \in Figures
    /\ \A i, j \in 1..Len(shows) : shows[i] = shows[j] => i = j
    /\ \A i, j \in 1..Len(shows) : <<shows[i], shows[j]>> \in Pairs => i < j
    /\ \A j \in 1..Len(shows) : \A n \in Figures :
          <<n, shows[j]>> \in Needs => \E i \in 1..Len(shows) : i < j /\ shows[i] = n

LEMMA OrderOfReads ==
    ASSUME NEW shows, Reads(shows), NEW i \in 1..Len(shows), NEW j \in 1..Len(shows),
           <<shows[i], shows[j]>> \in Pairs
    PROVE  i < j
BY DEF Reads

LEMMA ReadInOrder ==
    /\ Reads(CampaignDetail) /\ Reads(AdvertiserDashboard) /\ Reads(OemDashboard) /\ Reads(FleetDetail)
<1>1. Reads(CampaignDetail)
  BY DEF Reads, CampaignDetail, Figures, Pairs, Needs
<1>2. Reads(AdvertiserDashboard)
  BY DEF Reads, AdvertiserDashboard, Figures, Pairs, Needs
<1>3. Reads(OemDashboard)
  BY DEF Reads, OemDashboard, Figures, Pairs, Needs
<1>4. Reads(FleetDetail)
  BY DEF Reads, FleetDetail, Figures, Pairs, Needs
<1> QED
  BY <1>1, <1>2, <1>3, <1>4

(* Who reads which figures.                                                *)
LEMMA PageKinds ==
    ASSUME NEW p \in Pages
    PROVE  /\ Reads(p.shows)
           /\ \A i, j \in 1..Len(p.shows) :
                 /\ p.shows[i] = "used" => p.on \in Campaigns
                 /\ p.shows[i] = "fleets" => p.on \in Oems
                 /\ p.shows[i] = "days" /\ p.shows[j] = "money30" => p.on \in Oems \cup Fleets
<1>1. CASE p.on \in Campaigns /\ p.shows = CampaignDetail
  BY <1>1, ReadInOrder DEF CampaignDetail
<1>2. CASE p.on \in Advertisers /\ p.shows = AdvertiserDashboard
  BY <1>2, ReadInOrder DEF AdvertiserDashboard
<1>3. CASE p.on \in Oems /\ p.shows = OemDashboard
  BY <1>3, ReadInOrder DEF OemDashboard
<1>4. CASE p.on \in Fleets /\ p.shows = FleetDetail
  BY <1>4, ReadInOrder DEF FleetDetail
<1> QED
  BY <1>1, <1>2, <1>3, <1>4 DEF Pages

LEMMA FigureNat ==
    ASSUME TypeOK, NEW on, NEW name \in Figures, name = "used" => on \in Campaigns
    PROVE  Figure(on, name) \in Nat
<1> DEFINE imp == impression
<1>1. IsRows(imp) /\ Keeps(imp, imp)
  BY DEF TypeOK, IsRows, Keeps
<1>2. \A hours : /\ Cardinality(InScope(imp, on)) \in Nat
                 /\ MoneyIn(imp, on, InScope(imp, on)) \in Nat
                 /\ Cardinality(InSince(imp, on, hours)) \in Nat
                 /\ MoneyIn(imp, on, InSince(imp, on, hours)) \in Nat
  BY <1>1, FiguresGrow
<1>3. FleetsIn(imp, on) \in Nat
  BY <1>1, FleetsGrow
<1>4. MoneyIn(imp, on, Series(on)) \in Nat
  <2>1. Series(on) \in SUBSET Events /\ \A e \in Series(on) : imp[e] # None
    BY DEF Series, Since, Scope
  <2> QED
    BY <1>1, <2>1, MoneyOfWorth
<1>5. \A T \in SUBSET OwnCampaigns(on) : Cardinality(T) \in Nat
  BY PagesAssumption, FS_Subset, FS_CardinalityType DEF OwnCampaigns
<1>6. /\ Cardinality(OwnCampaigns(on)) \in Nat
      /\ Cardinality({c \in OwnCampaigns(on) : status[c] = "active"}) \in Nat
      /\ Cardinality({c \in OwnCampaigns(on) : status[c] = "paused"}) \in Nat
  BY <1>5
<1>7. name = "used" => spent[on] \in Nat
  BY DEF TypeOK
<1>8. /\ Figure(on, "used") = spent[on]
      /\ Figure(on, "campaigns") = Cardinality(OwnCampaigns(on))
      /\ Figure(on, "active") = Cardinality({c \in OwnCampaigns(on) : status[c] = "active"})
      /\ Figure(on, "paused") = Cardinality({c \in OwnCampaigns(on) : status[c] = "paused"})
      /\ Figure(on, "plays") = Cardinality(InScope(imp, on))
      /\ Figure(on, "money") = MoneyIn(imp, on, InScope(imp, on))
      /\ Figure(on, "plays24") = Cardinality(InSince(imp, on, Day))
      /\ Figure(on, "samples24") = Cardinality(InSince(imp, on, Day))
      /\ Figure(on, "plays30") = Cardinality(InSince(imp, on, Month))
      /\ Figure(on, "samples30") = Cardinality(InSince(imp, on, Month))
      /\ Figure(on, "money24") = MoneyIn(imp, on, InSince(imp, on, Day))
      /\ Figure(on, "money30") = MoneyIn(imp, on, InSince(imp, on, Month))
      /\ Figure(on, "days") = MoneyIn(imp, on, Series(on))
      /\ Figure(on, "fleets") = FleetsIn(imp, on)
  BY FigureIn
<1> HIDE DEF imp
<1>9. /\ Figure(on, "used") \in Nat \/ name # "used"
      /\ Figure(on, "campaigns") \in Nat /\ Figure(on, "active") \in Nat /\ Figure(on, "paused") \in Nat
      /\ Figure(on, "plays") \in Nat /\ Figure(on, "money") \in Nat
      /\ Figure(on, "plays24") \in Nat /\ Figure(on, "samples24") \in Nat
      /\ Figure(on, "plays30") \in Nat /\ Figure(on, "samples30") \in Nat
      /\ Figure(on, "money24") \in Nat /\ Figure(on, "money30") \in Nat
      /\ Figure(on, "days") \in Nat /\ Figure(on, "fleets") \in Nat
  BY <1>2, <1>3, <1>4, <1>6, <1>7, <1>8
<1> QED
  BY <1>9 DEF Figures

(* At any one moment no figure is ahead of the one that covers it.         *)
LEMMA FiguresRelate ==
    ASSUME LedgerInv, NEW on, NEW a, NEW b, <<a, b>> \in Pairs, a # "used", b = "fleets" => on \in Oems
    PROVE  Figure(on, a) <= Figure(on, b)
<1>1. TypeOK /\ IsRows(impression)
  BY DEF LedgerInv, IInv, TypeOK, IsRows
<1>2. /\ Figure(on, "plays30") \in Nat /\ Figure(on, "money30") \in Nat
  BY <1>1, FigureNat DEF Figures
<1>3. /\ Figure(on, "plays24") = Cardinality(InSince(impression, on, Day))
      /\ Figure(on, "plays30") = Cardinality(InSince(impression, on, Month))
      /\ Figure(on, "samples30") = Cardinality(InSince(impression, on, Month))
      /\ Figure(on, "money24") = MoneyIn(impression, on, InSince(impression, on, Day))
      /\ Figure(on, "money30") = MoneyIn(impression, on, InSince(impression, on, Month))
      /\ Figure(on, "fleets") = FleetsIn(impression, on)
  BY FigureIn
<1>4. /\ Cardinality(InSince(impression, on, Day)) <= Cardinality(InSince(impression, on, Month))
      /\ MoneyIn(impression, on, InSince(impression, on, Day))
             <= MoneyIn(impression, on, InSince(impression, on, Month))
  BY <1>1, DayInMonth
<1>5. on \in Oems => FleetsIn(impression, on) = MoneyIn(impression, on, InSince(impression, on, Month))
  BY <1>1, FleetsMakeMonth
<1>6. /\ Figure(on, "plays24") <= Figure(on, "plays30")
      /\ Figure(on, "plays30") <= Figure(on, "samples30")
      /\ Figure(on, "money24") <= Figure(on, "money30")
      /\ on \in Oems => Figure(on, "money30") <= Figure(on, "fleets")
  BY <1>2, <1>3, <1>4, <1>5
<1> QED
  BY <1>6 DEF Pairs

(* An impression is never changed or removed.                              *)
LEMMA ImpressionsStay ==
    ASSUME IInv, [Next]_vars
    PROVE  IsRows(impression) /\ IsRows(impression') /\ Keeps(impression, impression')
<1>1. IInv' /\ TypeOK /\ TypeOK'
  BY NextIInv DEF IInv
<1>2. IsRows(impression) /\ IsRows(impression')
  BY <1>1 DEF TypeOK, IsRows
<1>3. ASSUME NEW e \in Events, NEW q \in Quotes, Books(e, q) PROVE Keeps(impression, impression')
  BY <1>1, <1>3 DEF Books, Keeps, TypeOK
<1>4. UNCHANGED impression => Keeps(impression, impression')
  BY DEF Keeps
<1> QED
  BY <1>2, <1>3, <1>4, OnlyChargesBook

\* FigureIn for the next state.
LEMMA FigureNext ==
    ASSUME NEW on
    PROVE  /\ Figure(on, "plays")' = Cardinality(InScope(impression', on))
           /\ Figure(on, "money")' = MoneyIn(impression', on, InScope(impression', on))
           /\ Figure(on, "plays24")' = Cardinality(InSince(impression', on, Day))
           /\ Figure(on, "samples24")' = Cardinality(InSince(impression', on, Day))
           /\ Figure(on, "plays30")' = Cardinality(InSince(impression', on, Month))
           /\ Figure(on, "samples30")' = Cardinality(InSince(impression', on, Month))
           /\ Figure(on, "money24")' = MoneyIn(impression', on, InSince(impression', on, Day))
           /\ Figure(on, "money30")' = MoneyIn(impression', on, InSince(impression', on, Month))
           /\ Figure(on, "fleets")' = FleetsIn(impression', on)
<1>1. \A x : Scope(x)' = InScope(impression', x) /\ \A hours : Since(x, hours)' = InSince(impression', x, hours)
  BY DEF Scope, Since, InScope, InSince
<1>2. /\ Figure(on, "plays")' = Cardinality(Scope(on)')
      /\ Figure(on, "money")' = Money(on, Scope(on))'
      /\ Figure(on, "plays24")' = Cardinality(Since(on, Day)')
      /\ Figure(on, "samples24")' = Cardinality(Since(on, Day)')
      /\ Figure(on, "plays30")' = Cardinality(Since(on, Month)')
      /\ Figure(on, "samples30")' = Cardinality(Since(on, Month)')
      /\ Figure(on, "money24")' = Money(on, Since(on, Day))'
      /\ Figure(on, "money30")' = Money(on, Since(on, Month))'
      /\ Figure(on, "fleets")' = SumFunctionOnSet([f \in FleetsOf(on) |-> Money(f, Since(f, Month))'], FleetsOf(on))
  BY DEF Figure
<1>3. /\ Money(on, Scope(on))' = MoneyIn(impression', on, Scope(on)')
      /\ \A x : Money(x, Since(x, Day))' = MoneyIn(impression', x, Since(x, Day)')
      /\ \A x : Money(x, Since(x, Month))' = MoneyIn(impression', x, Since(x, Month)')
  BY Zenon DEF Money, MoneyIn, Share, InShare
<1>4. SumFunctionOnSet([f \in FleetsOf(on) |-> Money(f, Since(f, Month))'], FleetsOf(on)) = FleetsIn(impression', on)
  <2>1. \A x : Money(x, Since(x, Month))' = MoneyIn(impression', x, InSince(impression', x, Month))
    BY <1>1, <1>3
  <2> QED
    BY <2>1, Zenon DEF FleetsIn
<1> QED
  BY <1>1, <1>2, <1>3, <1>4

LEMMA FigureGrows ==
    ASSUME IInv, [Next]_vars, NEW on, NEW name \in Growing
    PROVE  Figure(on, name) <= Figure(on, name)'
<1> DEFINE imp == impression
           new == impression'
<1>1. IsRows(imp) /\ IsRows(new) /\ Keeps(imp, new)
  BY ImpressionsStay
<1>2. \A hours : /\ Cardinality(InScope(imp, on)) <= Cardinality(InScope(new, on))
                 /\ MoneyIn(imp, on, InScope(imp, on)) <= MoneyIn(new, on, InScope(new, on))
                 /\ Cardinality(InSince(imp, on, hours)) <= Cardinality(InSince(new, on, hours))
                 /\ MoneyIn(imp, on, InSince(imp, on, hours)) <= MoneyIn(new, on, InSince(new, on, hours))
  BY <1>1, FiguresGrow
<1>3. FleetsIn(imp, on) <= FleetsIn(new, on)
  BY <1>1, FleetsGrow
<1>4. /\ Figure(on, "plays")' = Cardinality(InScope(new, on))
      /\ Figure(on, "money")' = MoneyIn(new, on, InScope(new, on))
      /\ Figure(on, "plays24")' = Cardinality(InSince(new, on, Day))
      /\ Figure(on, "samples24")' = Cardinality(InSince(new, on, Day))
      /\ Figure(on, "plays30")' = Cardinality(InSince(new, on, Month))
      /\ Figure(on, "samples30")' = Cardinality(InSince(new, on, Month))
      /\ Figure(on, "money24")' = MoneyIn(new, on, InSince(new, on, Day))
      /\ Figure(on, "money30")' = MoneyIn(new, on, InSince(new, on, Month))
      /\ Figure(on, "fleets")' = FleetsIn(new, on)
  BY FigureNext DEF new
<1>5. /\ Figure(on, "plays") = Cardinality(InScope(imp, on))
      /\ Figure(on, "money") = MoneyIn(imp, on, InScope(imp, on))
      /\ Figure(on, "plays24") = Cardinality(InSince(imp, on, Day))
      /\ Figure(on, "samples24") = Cardinality(InSince(imp, on, Day))
      /\ Figure(on, "plays30") = Cardinality(InSince(imp, on, Month))
      /\ Figure(on, "samples30") = Cardinality(InSince(imp, on, Month))
      /\ Figure(on, "money24") = MoneyIn(imp, on, InSince(imp, on, Day))
      /\ Figure(on, "money30") = MoneyIn(imp, on, InSince(imp, on, Month))
      /\ Figure(on, "fleets") = FleetsIn(imp, on)
  BY FigureIn
<1> HIDE DEF imp, new
<1> QED
  BY <1>2, <1>3, <1>4, <1>5 DEF Growing

(***************************************************************************)
(*                                The pages                                *)
(***************************************************************************)

PageRows == [on : Campaigns \cup Advertisers \cup Oems \cup Fleets,
             shows : {p.shows : p \in Pages}, at : Nat, figures : [Figures -> Nat], alone : BOOLEAN]

IsPage(p) == /\ p \in PageRows
             /\ [on |-> p.on, shows |-> p.shows] \in Pages
             /\ p.at <= Len(p.shows)

\* What holds of the figure a page has read i-th: it is no more than what the same
\* statement would find now, and just that if nothing came between.
Read(p, i) ==
    LET name == p.shows[i]
    IN  /\ name \in Growing => p.figures[name] <= Figure(p.on, name)
        /\ name = "used" /\ ~IsPromo[p.on] => p.figures[name] <= Figure(p.on, "money")
        /\ p.alone /\ name # "used" => p.figures[name] = Figure(p.on, name)

PageInv ==
    page # None => IsPage(page) /\ \A i \in 1..page.at : Read(page, i)

PagesInv == LedgerInv /\ PageInv /\ NoFigureAhead

LEMMA PageFacts ==
    ASSUME NEW p, IsPage(p)
    PROVE  /\ Reads(p.shows) /\ p.at \in Nat /\ p.at <= Len(p.shows)
           /\ p.alone \in BOOLEAN /\ p.figures \in [Figures -> Nat]
           /\ \A i, j \in 1..Len(p.shows) :
                 /\ p.shows[i] = "used" => p.on \in Campaigns
                 /\ p.shows[i] = "fleets" => p.on \in Oems
                 /\ p.shows[i] = "days" /\ p.shows[j] = "money30" => p.on \in Oems \cup Fleets
<1> DEFINE q == [on |-> p.on, shows |-> p.shows]
<1>1. q.on = p.on /\ q.shows = p.shows /\ q \in Pages
  BY DEF IsPage
<1> HIDE DEF q
<1>2. /\ Reads(q.shows)
      /\ \A i, j \in 1..Len(q.shows) :
            /\ q.shows[i] = "used" => q.on \in Campaigns
            /\ q.shows[i] = "fleets" => q.on \in Oems
            /\ q.shows[i] = "days" /\ q.shows[j] = "money30" => q.on \in Oems \cup Fleets
  BY <1>1, PageKinds
<1>3. p.at \in Nat /\ p.at <= Len(p.shows) /\ p.alone \in BOOLEAN /\ p.figures \in [Figures -> Nat]
  BY DEF IsPage, PageRows
<1> QED
  BY <1>1, <1>2, <1>3, Zenon

\* The page with one more figure.
Taken(p, name, fig) == [p EXCEPT !.at = p.at + 1, !.figures[name] = fig]

LEMMA TakeFigure ==
    ASSUME NEW p \in PageRows, NEW name \in Figures, NEW fig \in Nat, NEW q, q = Taken(p, name, fig)
    PROVE  /\ q \in PageRows /\ q.on = p.on /\ q.shows = p.shows /\ q.at = p.at + 1 /\ q.alone = p.alone
           /\ q.figures[name] = fig
           /\ \A n \in Figures : n # name => q.figures[n] = p.figures[n]
<1> DEFINE A == Campaigns \cup Advertisers \cup Oems \cup Fleets
           B == {x.shows : x \in Pages}
<1>1. PageRows = [on : A, shows : B, at : Nat, figures : [Figures -> Nat], alone : BOOLEAN]
  BY DEF PageRows
<1> HIDE DEF A, B
<1>2. p \in [on : A, shows : B, at : Nat, figures : [Figures -> Nat], alone : BOOLEAN]
  BY <1>1
<1>3. q.figures = [p.figures EXCEPT ![name] = fig] /\ q.at = p.at + 1
  BY <1>2 DEF Taken
<1>4. q.on = p.on /\ q.shows = p.shows /\ q.alone = p.alone
  BY <1>2 DEF Taken
<1>5. q.figures \in [Figures -> Nat] /\ q.at \in Nat
  BY <1>2, <1>3
<1>6. q = [on |-> q.on, shows |-> q.shows, at |-> q.at, figures |-> q.figures, alone |-> q.alone]
  BY <1>2 DEF Taken
<1>7. q \in PageRows
  BY <1>1, <1>2, <1>4, <1>5, <1>6
<1>8. \A n \in Figures : q.figures[n] = IF n = name THEN fig ELSE p.figures[n]
  BY <1>2, <1>3
<1> QED
  BY <1>3, <1>4, <1>7, <1>8

(* A figure that is read does not change while its rows do not.            *)
LEMMA FigureSame ==
    ASSUME UNCHANGED <<impression, status>>, NEW on, NEW name \in Figures,
           name = "used" => UNCHANGED spent
    PROVE  Figure(on, name)' = Figure(on, name)
<1>1. /\ \A x : Scope(x)' = Scope(x)
      /\ \A x, hours : Since(x, hours)' = Since(x, hours)
  BY DEF Scope, Since
<1>2. \A x : Series(x)' = Series(x)
  BY <1>1 DEF Series
<1>3. \A x, S : Money(x, S)' = Money(x, S)
  BY Zenon DEF Money, Share
<1>4. \A x : /\ Money(x, Scope(x))' = Money(x, Scope(x))
             /\ Money(x, Since(x, Day))' = Money(x, Since(x, Day))
             /\ Money(x, Since(x, Month))' = Money(x, Since(x, Month))
             /\ Money(x, Series(x))' = Money(x, Series(x))
  BY <1>1, <1>2, Zenon DEF Money, Share
<1>5. SumFunctionOnSet([f \in FleetsOf(on) |-> Money(f, Since(f, Month))'], FleetsOf(on))
        = SumFunctionOnSet([f \in FleetsOf(on) |-> Money(f, Since(f, Month))], FleetsOf(on))
  BY <1>4, Zenon
<1>6. CASE name \in {"used", "campaigns", "active", "paused"}
  BY <1>6 DEF Figure
<1>7. CASE name = "fleets"
  BY <1>5, <1>7 DEF Figure
<1>8. CASE name \in {"plays", "plays24", "samples24", "plays30", "samples30"}
  BY <1>1, <1>8 DEF Figure
<1>9. CASE name \in {"money", "money24", "money30", "days"}
  BY <1>4, <1>9 DEF Figure
<1> QED
  BY <1>6, <1>7, <1>8, <1>9 DEF Figures

(* Two figures that a page shows were read one before the other.           *)
LEMMA Shows ==
    ASSUME page # None
    PROVE  Shown = {page.shows[i] : i \in 1..page.at}
  BY DEF Shown

LEMMA OpenPageStep ==
    ASSUME PagesInv, OpenPage
    PROVE  PageInv' /\ NoFigureAhead'
<1>1. PICK p \in Pages : page' = [on |-> p.on, shows |-> p.shows, at |-> 0,
                                  figures |-> [name \in Figures |-> 0], alone |-> TRUE]
  BY DEF OpenPage
<1>2. page'.at = 0 /\ page'.on = p.on /\ page'.shows = p.shows
  BY <1>1
<1>3. IsPage(page')
  <2>1. p.on \in Campaigns \cup Advertisers \cup Oems \cup Fleets /\ p = [on |-> p.on, shows |-> p.shows]
    BY DEF Pages
  <2>2. page' \in PageRows
    BY <1>1, <2>1 DEF PageRows
  <2>3. Len(p.shows) \in Nat
    BY PageKinds DEF Reads
  <2> QED
    BY <1>2, <2>1, <2>2, <2>3 DEF IsPage
<1>4. PageInv'
  BY <1>2, <1>3 DEF PageInv
<1>5. Shown' = {}
  BY <1>2 DEF Shown
<1>6. NoFigureAhead'
  BY <1>5 DEF NoFigureAhead
<1> QED
  BY <1>4, <1>6

LEMMA NextNat ==
    ASSUME IsRows(impression'), NEW on, NEW name \in Growing
    PROVE  Figure(on, name)' \in Nat
<1> DEFINE new == impression'
<1>1. IsRows(new) /\ Keeps(new, new)
  BY DEF Keeps
<1>2. \A hours : /\ Cardinality(InScope(new, on)) \in Nat
                 /\ MoneyIn(new, on, InScope(new, on)) \in Nat
                 /\ Cardinality(InSince(new, on, hours)) \in Nat
                 /\ MoneyIn(new, on, InSince(new, on, hours)) \in Nat
  BY <1>1, FiguresGrow
<1>3. FleetsIn(new, on) \in Nat
  BY <1>1, FleetsGrow
<1> HIDE DEF new
<1> QED
  BY <1>2, <1>3, FigureNext DEF Growing, new

(* Reading keeps the invariant: what a page reads is what there is now, and*)
(* the smaller figure of a pair was read before.                           *)
LEMMA ReadFigureStep ==
    ASSUME PagesInv, ReadFigure
    PROVE  PageInv' /\ NoFigureAhead'
<1> DEFINE k == page.at + 1
<1>1. PICK p : p = page
  OBVIOUS
<1>2. PICK q : q = page'
  OBVIOUS
<1>3. PICK name : name = p.shows[k]
  OBVIOUS
<1>4. PICK fig : fig = Figure(p.on, name)
  OBVIOUS
<1>5. IsPage(p) /\ p.at < Len(p.shows) /\ p # None
  BY <1>1 DEF PagesInv, PageInv, ReadFigure
<1>6. q = Taken(p, name, fig)
  BY <1>1, <1>2, <1>3, <1>4 DEF ReadFigure, Taken
<1>7. /\ Reads(p.shows) /\ p.at \in Nat /\ p.alone \in BOOLEAN /\ p.figures \in [Figures -> Nat]
      /\ k \in 1..Len(p.shows) /\ k = p.at + 1 /\ name \in Figures
      /\ \A i \in 1..Len(p.shows) : p.shows[i] \in Figures
  <2>1. Reads(p.shows) /\ p.at \in Nat /\ p.alone \in BOOLEAN /\ p.figures \in [Figures -> Nat]
    BY <1>5, PageFacts
  <2>2. Len(p.shows) \in Nat /\ \A i \in 1..Len(p.shows) : p.shows[i] \in Figures
    BY <2>1 DEF Reads
  <2>3. k \in 1..Len(p.shows) /\ k = p.at + 1
    BY <1>1, <1>5, <2>1, <2>2
  <2> QED
    BY <1>3, <2>1, <2>2, <2>3
<1>8. /\ name = "used" => p.on \in Campaigns
      /\ name = "fleets" => p.on \in Oems
  BY <1>3, <1>5, <1>7, PageFacts
<1>9. LedgerInv /\ TypeOK /\ UNCHANGED vars
  BY DEF PagesInv, LedgerInv, IInv, ReadFigure
<1>10. fig \in Nat
  BY <1>4, <1>7, <1>8, <1>9, FigureNat
<1>11. /\ q \in PageRows /\ q.on = p.on /\ q.shows = p.shows /\ q.at = k /\ q.alone = p.alone
       /\ q.figures[name] = fig
       /\ \A n \in Figures : n # name => q.figures[n] = p.figures[n]
  <2>1. p \in PageRows
    BY <1>5 DEF IsPage
  <2>2. name \in Figures /\ fig \in Nat /\ q = Taken(p, name, fig)
    BY <1>6, <1>7, <1>10
  <2>3. /\ q \in PageRows /\ q.on = p.on /\ q.shows = p.shows /\ q.at = p.at + 1 /\ q.alone = p.alone
        /\ q.figures[name] = fig
        /\ \A n \in Figures : n # name => q.figures[n] = p.figures[n]
    BY ONLY <2>1, <2>2, TakeFigure
  <2> QED
    BY <1>7, <2>3
<1>12. IsPage(q)
  BY <1>5, <1>7, <1>11 DEF IsPage
<1>13. \A on : \A n \in Figures : Figure(on, n)' = Figure(on, n)
  <2>1. UNCHANGED <<impression, status, spent>>
    BY <1>9 DEF vars, events, campaigns
  <2> QED
    BY <2>1, FigureSame
<1>14. \A i \in 1..p.at : Read(p, i) /\ i \in 1..Len(p.shows) /\ p.shows[i] # name
  BY <1>1, <1>3, <1>5, <1>7 DEF PagesInv, PageInv, Reads
<1>15. name = "used" /\ ~IsPromo[p.on] => fig <= Figure(p.on, "money")
  <2> SUFFICES ASSUME name = "used", ~IsPromo[p.on] PROVE fig <= Figure(p.on, "money")
    OBVIOUS
  <2>1. p.on \in Campaigns
    BY <1>8
  <2>2. spent[p.on] <= MoneyIn(impression, p.on, InScope(impression, p.on))
    BY <1>9, <2>1, UsedIsPaid
  <2>3. fig = spent[p.on] /\ Figure(p.on, "money") = MoneyIn(impression, p.on, InScope(impression, p.on))
    BY <1>4, FigureIn
  <2> QED
    BY <2>2, <2>3
<1>16. \A i \in 1..k : Read(q, i)'
  <2> SUFFICES ASSUME NEW i \in 1..k PROVE Read(q, i)'
    OBVIOUS
  <2> DEFINE n == p.shows[i]
  <2>1. /\ n \in Figures /\ "money" \in Figures
    BY <1>7 DEF Figures
  <2>2. Figure(p.on, n)' = Figure(p.on, n) /\ Figure(p.on, "money")' = Figure(p.on, "money")
    BY <1>13, <2>1
  <2>3. CASE i = k
    BY <1>3, <1>4, <1>7, <1>10, <1>11, <1>15, <2>2, <2>3 DEF Read
  <2>4. CASE i \in 1..p.at
    <3>1. Read(p, i) /\ q.figures[n] = p.figures[n]
      BY <1>11, <1>14, <2>1, <2>4
    <3> QED
      BY <1>11, <2>2, <3>1 DEF Read
  <2> QED
    BY <1>7, <2>3, <2>4
<1>17. PageInv'
  BY <1>2, <1>11, <1>12, <1>16 DEF PageInv
<1>18. NoFigureAhead'
  <2> SUFFICES ASSUME NEW a, NEW b, <<a, b>> \in Pairs, a \in Shown', b \in Shown',
                      a = "used" => ~IsPromo[q.on]
               PROVE  q.figures[a] <= q.figures[b]
    BY <1>2 DEF NoFigureAhead, Fig, Pairs
  <2>1. \A x : x \in Shown' => \E i \in 1..k : q.shows[i] = x
    BY <1>2, <1>11 DEF Shown
  <2>2. PICK i \in 1..k : p.shows[i] = a
    BY <1>11, <2>1
  <2>3. PICK j \in 1..k : p.shows[j] = b
    BY <1>11, <2>1
  <2>4. i < j
    <3>1. i \in 1..Len(p.shows) /\ j \in 1..Len(p.shows)
      BY <1>7
    <3>2. <<p.shows[i], p.shows[j]>> \in Pairs
      BY <2>2, <2>3
    <3> QED
      BY ONLY <1>7, <3>1, <3>2, OrderOfReads
  <2>5. i \in 1..p.at /\ a # name /\ a \in Figures
    BY <1>7, <1>14, <2>2, <2>4
  <2>6. q.figures[a] = p.figures[a]
    BY <1>11, <2>5
  <2>7. CASE j \in 1..p.at
    <3>1. b # name /\ b \in Figures
      BY <1>7, <1>14, <2>3, <2>7
    <3>2. q.figures[b] = p.figures[b]
      BY <1>11, <3>1
    <3>3. a \in Shown /\ b \in Shown
      BY <1>1, <1>5, <2>2, <2>3, <2>5, <2>7 DEF Shown
    <3>4. p.figures[a] <= p.figures[b]
      BY <1>1, <1>11, <3>3 DEF PagesInv, NoFigureAhead, Fig, Pairs
    <3> QED
      BY <2>6, <3>2, <3>4
  <2>8. CASE j = k
    <3>1. b = name /\ q.figures[b] = fig
      BY <1>3, <1>7, <1>11, <2>3, <2>8
    <3>2. Read(p, i)
      BY <1>14, <2>5
    <3>3. CASE a = "used"
      <4>1. b = "money"
        BY <3>3 DEF Pairs
      <4>2. p.figures[a] <= Figure(p.on, "money")
        BY <1>11, <2>2, <3>2, <3>3 DEF Read
      <4> QED
        BY <1>4, <2>6, <3>1, <4>1, <4>2
    <3>4. CASE a # "used"
      <4>1. a \in Growing
        BY <3>4 DEF Pairs, Growing
      <4>2. p.figures[a] <= Figure(p.on, a)
        BY <2>2, <3>2, <4>1 DEF Read
      <4>3. Figure(p.on, a) <= Figure(p.on, b)
        BY <1>8, <1>9, <3>1, <3>4, FiguresRelate
      <4>4. Figure(p.on, a) \in Nat /\ p.figures[a] \in Nat
        BY <1>7, <1>9, <2>5, <3>4, FigureNat
      <4> QED
        BY <1>4, <1>10, <2>6, <3>1, <4>2, <4>3, <4>4
    <3> QED
      BY <3>3, <3>4
  <2> QED
    BY <1>7, <2>7, <2>8
<1> QED
  BY <1>17, <1>18

(* Whatever is settled meanwhile, what a page has read stays within bounds.*)
LEMMA ProcessingStep ==
    ASSUME PagesInv, Processing
    PROVE  PageInv' /\ NoFigureAhead'
<1>1. CASE page = None
  <2>1. page' = None
    BY <1>1 DEF Processing
  <2> QED
    BY <2>1 DEF PageInv, NoFigureAhead, Shown
<1>2. CASE page # None
  <2>1. PICK p : p = page
    OBVIOUS
  <2>2. PICK q : q = page'
    OBVIOUS
  <2>3. PICK same \in BOOLEAN : same <=> UNCHANGED <<impression, status>>
    OBVIOUS
  <2>4. q = [p EXCEPT !.alone = p.alone /\ UNCHANGED <<impression, status>>]
    BY <1>2, <2>1, <2>2 DEF Processing
  <2>5. IsPage(p) /\ \A i \in 1..p.at : Read(p, i)
    BY <1>2, <2>1 DEF PagesInv, PageInv
  <2>6. /\ Reads(p.shows) /\ p.at \in Nat /\ p.at <= Len(p.shows)
        /\ p.alone \in BOOLEAN /\ p.figures \in [Figures -> Nat]
    BY <2>5, PageFacts
  <2>7. /\ q \in PageRows /\ q.on = p.on /\ q.shows = p.shows /\ q.at = p.at
        /\ q.figures = p.figures /\ (q.alone => p.alone /\ UNCHANGED <<impression, status>>)
    <3>1. q = [p EXCEPT !.alone = p.alone /\ same]
      BY <2>3, <2>4
    <3>2. (p.alone /\ same) \in BOOLEAN
      BY <2>6
    <3>3. /\ q \in PageRows /\ q.on = p.on /\ q.shows = p.shows /\ q.at = p.at
          /\ q.figures = p.figures /\ (q.alone => p.alone /\ same)
      BY <2>5, <3>1, <3>2 DEF IsPage, PageRows
    <3> QED
      BY <2>3, <3>3
  <2>8. IsPage(q)
    BY <2>5, <2>7 DEF IsPage
  <2>9. IInv /\ [Next]_vars
    BY SerialIsNext DEF PagesInv, LedgerInv, Processing
  <2>10. TypeOK
    BY <2>9 DEF IInv
  <2>11. ASSUME NEW i \in 1..q.at PROVE Read(q, i)'
    <3> DEFINE n == p.shows[i]
    <3>1. /\ i \in 1..Len(p.shows) /\ n \in Figures /\ Read(p, i)
          /\ p.figures[n] \in Nat
      BY <2>5, <2>6, <2>7 DEF Reads
    <3>2. n \in Growing => p.figures[n] <= Figure(p.on, n)'
      <4> SUFFICES ASSUME n \in Growing PROVE p.figures[n] <= Figure(p.on, n)'
        OBVIOUS
      <4>1. Figure(p.on, n) <= Figure(p.on, n)' /\ p.figures[n] <= Figure(p.on, n)
        BY <2>9, <3>1, FigureGrows DEF Read
      <4>2. Figure(p.on, n) \in Nat
        BY <2>10, <3>1, FigureNat DEF Growing
      <4>3. Figure(p.on, n)' \in Nat
        BY <2>9, ImpressionsStay, NextNat
      <4> QED
        BY <3>1, <4>1, <4>2, <4>3
    <3>3. n = "used" /\ ~IsPromo[p.on] => p.figures[n] <= Figure(p.on, "money")'
      <4> SUFFICES ASSUME n = "used", ~IsPromo[p.on] PROVE p.figures[n] <= Figure(p.on, "money")'
        OBVIOUS
      <4>1. Figure(p.on, "money") <= Figure(p.on, "money")' /\ p.figures[n] <= Figure(p.on, "money")
        BY <2>9, <3>1, FigureGrows DEF Read, Growing
      <4>2. Figure(p.on, "money") \in Nat
        BY <2>10, FigureNat DEF Figures
      <4>3. Figure(p.on, "money")' \in Nat
        BY <2>9, ImpressionsStay, NextNat DEF Growing
      <4> QED
        BY <3>1, <4>1, <4>2, <4>3
    <3>4. q.alone /\ n # "used" => p.figures[n] = Figure(p.on, n)'
      BY <2>7, <3>1, FigureSame DEF Read
    <3> QED
      BY <2>7, <3>2, <3>3, <3>4 DEF Read
  <2>12. PageInv'
    BY <2>2, <2>8, <2>11 DEF PageInv
  <2>13. NoFigureAhead'
    <3>1. Shown' \subseteq Shown
      BY <1>2, <2>1, <2>2, <2>7 DEF Shown
    <3> QED
      BY <2>1, <2>2, <2>7, <3>1 DEF PagesInv, NoFigureAhead, Fig
  <2> QED
    BY <2>12, <2>13
<1> QED
  BY <1>1, <1>2

LEMMA PagesStep == PagesInv /\ [PagesNext]_<<vars, pageVars>> => PagesInv'
<1> SUFFICES ASSUME PagesInv, [PagesNext]_<<vars, pageVars>> PROVE PagesInv'
  OBVIOUS
<1>1. [Next]_vars
  BY SerialIsNext DEF PagesNext, OpenPage, ReadFigure, ShowPage, Processing
<1>2. LedgerInv'
  BY <1>1, LedgerStep DEF PagesInv
<1>3. CASE ShowPage
  BY <1>2, <1>3 DEF ShowPage, PagesInv, PageInv, NoFigureAhead, Shown
<1>4. CASE UNCHANGED <<vars, pageVars>>
  <2>1. UNCHANGED <<impression, status, spent, page>>
    BY <1>4 DEF vars, events, campaigns, pageVars
  <2>2. ASSUME page # None, NEW i \in 1..page.at, Read(page, i) PROVE Read(page, i)'
    <3>1. page.shows[i] \in Figures /\ "money" \in Figures
      <4>1. IsPage(page)
        BY <2>2 DEF PagesInv, PageInv
      <4> QED
        BY <2>2, <4>1, PageFacts DEF Reads, Figures
    <3>2. \A on : \A n \in Figures : Figure(on, n)' = Figure(on, n)
      BY <2>1, FigureSame
    <3> QED
      BY <2>1, <2>2, <3>1, <3>2 DEF Read
  <2>3. PageInv' /\ NoFigureAhead'
    BY <2>1, <2>2 DEF PagesInv, PageInv, NoFigureAhead, Shown, Fig, IsPage
  <2> QED
    BY <1>2, <2>3 DEF PagesInv
<1> QED
  BY <1>2, <1>3, <1>4, OpenPageStep, ReadFigureStep, ProcessingStep DEF PagesNext, PagesInv

LEMMA PagesInitially == PagesInit => PagesInv
<1> SUFFICES ASSUME PagesInit PROVE PagesInv
  OBVIOUS
<1>1. LedgerInv /\ page = None
  BY LedgerInit DEF PagesInit
<1> QED
  BY <1>1 DEF PagesInv, PageInv, NoFigureAhead, Shown

LEMMA PagesInvariance == PagesSpec => []PagesInv
  BY PagesInitially, PagesStep, PTL DEF PagesSpec

(* However many plays are settled between the statements of a page, no     *)
(* figure of it is ahead of one that covers it: the last day of the month, *)
(* the month of its fleets, the used budget of what its plays cost.        *)
THEOREM PagesNeverAhead == PagesSpec => []NoFigureAhead
<1>1. PagesInv => NoFigureAhead
  BY DEF PagesInv
<1> QED
  BY <1>1, PagesInvariance, PTL

LEMMA AddsUp ==
    ASSUME PagesInv, page # None, page.alone
    PROVE  /\ "paused" \in Shown => Fig("active") + Fig("paused") = Fig("campaigns")
           /\ "fleets" \in Shown => Fig("fleets") = Fig("money30")
           /\ {"days", "money30"} \subseteq Shown =>
                 Fig("days") = Fig("money30") - Money(page.on, OnEdge)
<1>1. IsPage(page) /\ LedgerInv /\ TypeOK /\ IsRows(impression)
  BY DEF PagesInv, PageInv, LedgerInv, IInv, TypeOK, IsRows
<1>2. /\ Reads(page.shows) /\ page.at \in Nat /\ page.at <= Len(page.shows) /\ Len(page.shows) \in Nat
      /\ \A i, j \in 1..Len(page.shows) :
            /\ page.shows[i] = "fleets" => page.on \in Oems
            /\ page.shows[i] = "days" /\ page.shows[j] = "money30" => page.on \in Oems \cup Fleets
  BY <1>1, PageFacts DEF Reads
<1>3. \A n : n \in Shown <=> \E i \in 1..page.at : page.shows[i] = n
  BY Shows
<1>4. \A n : n \in Shown /\ n # "used" => Fig(n) = Figure(page.on, n)
  BY <1>3 DEF PagesInv, PageInv, Read, Fig
<1>5. \A n \in Figures : \A m : m \in Shown /\ <<n, m>> \in Needs => n \in Shown
  <2> SUFFICES ASSUME NEW n \in Figures, NEW m, m \in Shown, <<n, m>> \in Needs PROVE n \in Shown
    OBVIOUS
  <2>1. PICK j \in 1..page.at : page.shows[j] = m
    BY <1>3
  <2>2. PICK i \in 1..Len(page.shows) : i < j /\ page.shows[i] = n
    BY <1>2, <2>1 DEF Reads
  <2> QED
    BY <1>2, <1>3, <2>2
<1>6. "paused" \in Shown => Fig("active") + Fig("paused") = Fig("campaigns")
  <2> SUFFICES ASSUME "paused" \in Shown PROVE Fig("active") + Fig("paused") = Fig("campaigns")
    OBVIOUS
  <2>1. "active" \in Shown /\ "campaigns" \in Shown
    BY <1>5 DEF Needs, Figures
  <2>2. /\ Fig("active") = Figure(page.on, "active") /\ Fig("paused") = Figure(page.on, "paused")
        /\ Fig("campaigns") = Figure(page.on, "campaigns")
    BY <1>4, <2>1
  <2>3. Figure(page.on, "campaigns") = Figure(page.on, "active") + Figure(page.on, "paused")
    <3>1. /\ Figure(page.on, "campaigns") = Cardinality(OwnCampaigns(page.on))
          /\ Figure(page.on, "active") = Cardinality({c \in OwnCampaigns(page.on) : status[c] = "active"})
          /\ Figure(page.on, "paused") = Cardinality({c \in OwnCampaigns(page.on) : status[c] = "paused"})
      BY FigureIn
    <3> QED
      BY <1>1, <3>1, CampaignsAddUp, Zenon
  <2> QED
    BY <2>2, <2>3
<1>7. "fleets" \in Shown => Fig("fleets") = Fig("money30")
  <2> SUFFICES ASSUME "fleets" \in Shown PROVE Fig("fleets") = Fig("money30")
    OBVIOUS
  <2>1. "money30" \in Shown /\ page.on \in Oems
    BY <1>2, <1>3, <1>5 DEF Needs, Figures
  <2>2. Figure(page.on, "fleets") = Figure(page.on, "money30")
    <3>1. /\ Figure(page.on, "fleets") = FleetsIn(impression, page.on)
          /\ Figure(page.on, "money30") = MoneyIn(impression, page.on, InSince(impression, page.on, Month))
      BY FigureIn
    <3> QED
      BY <1>1, <2>1, <3>1, FleetsMakeMonth, Zenon
  <2> QED
    BY <1>4, <2>1, <2>2
<1>8. {"days", "money30"} \subseteq Shown => Fig("days") = Fig("money30") - Money(page.on, OnEdge)
  <2> SUFFICES ASSUME "days" \in Shown, "money30" \in Shown
               PROVE  Fig("days") = Fig("money30") - Money(page.on, OnEdge)
    OBVIOUS
  <2>1. page.on \in Oems \cup Fleets
    BY <1>2, <1>3
  <2>2. MoneyIn(impression, page.on, Series(page.on)) =
           MoneyIn(impression, page.on, InSince(impression, page.on, Month)) - Money(page.on, OnEdge)
    BY <1>1, <2>1, DatesMakeMonth
  <2>3. /\ Figure(page.on, "days") = MoneyIn(impression, page.on, Series(page.on))
        /\ Figure(page.on, "money30") = MoneyIn(impression, page.on, InSince(impression, page.on, Month))
    BY FigureIn
  <2>4. Fig("days") = Figure(page.on, "days") /\ Fig("money30") = Figure(page.on, "money30")
    BY <1>4
  <2> QED
    BY <2>2, <2>3, <2>4
<1> QED
  BY <1>6, <1>7, <1>8

(* A page that nothing came between adds up: campaigns, fleets and days    *)
(* make up the totals beside them, but for the plays of the month that are *)
(* on none of the 30 dates of the series.                                  *)
THEOREM UndisturbedAddsUp == PagesSpec => []PageAddsUp
<1>1. PagesInv => PageAddsUp
  BY AddsUp DEF PageAddsUp
<1> QED
  BY <1>1, PagesInvariance, PTL
=============================================================================
