------------------------------ MODULE LeadMarket ------------------------------
(***************************************************************************)
(* The board on which offices refer clients to each other, and the credits *)
(* they pay with.  An office publishes a lead, another one buys it: the    *)
(* buyer pays credits, the referrer receives credits or money, and the     *)
(* platform keeps a fee.  Credits are an append-only ledger; the balance   *)
(* is its sum, and an hourly sweep of every API replica writes off gifts   *)
(* that were not used in time.                                             *)
(*                                                                         *)
(* Each action is one statement a transaction may wait at or be overtaken  *)
(* before (READ COMMITTED): a purchase holds the row of the referral from  *)
(* its claim, and from BuyLock the office's spending lock                  *)
(* (pg_advisory_xact_lock), which offers and the sweep take too.  Both     *)
(* locks end with the transaction, so they are read off the sessions.      *)
(***************************************************************************)
EXTENDS CreditLedger, FiniteSets

CONSTANTS
  Offices, Leads,
  Veterans,            \* offices that have their initial grant
  Owner,               \* the office a lead, or the property of an offer, belongs to
  Sessions, Seat,      \* users' requests, and the office each belongs to
  Sweepers,            \* API replicas
  Offers,              \* (property, demand of the network) pairs
  Price, FeePercent, BonusPercent,   \* the credit economy
  OfferCost, InitialGrant, TopUp,    \* in credits
  MaxShares,           \* bounds the referrals published
  MaxTopUps,           \* bounds the credit packages bought
  None

ASSUME MarketAssumption ==
  /\ Owner \in [Leads \cup Offers -> Offices] /\ Seat \in [Sessions -> Offices] /\ Veterans \subseteq Offices
  /\ Price \in Nat \ {0} /\ FeePercent \in [{"credits", "cash"} -> 0..100] /\ BonusPercent \in Nat
  /\ OfferCost \in Nat \ {0} /\ InitialGrant \in Nat /\ TopUp \in Nat \ {0}
  /\ MaxShares \in Nat /\ MaxTopUps \in Nat
  /\ None \notin Offices \cup Leads \cup Offers

VARIABLES
  lead,      \* status of an origin lead
  share,     \* table shared_leads, by number
  offered,   \* table coop_offers
  ledger,    \* table credit_ledger, one sequence per office
  payouts,   \* table payout_ledger: the referrals paid in money
  fees,      \* table platform_credit_ledger: one row per referral
  session,   \* where each request stands
  sweeper,   \* where each replica's sweep stands
  aged,      \* per office: how many of its ledger's rows are past the validity
  topUps

vars == <<lead, share, offered, ledger, payouts, fees, session, sweeper, aged, topUps>>
tables == <<lead, share, offered, ledger, payouts, fees>>
clock == <<aged, topUps>>

Shares == 1..MaxShares
Modes == {"credits", "cash"}

Idle    == [pc |-> "idle", on |-> None]
Resting == [office |-> None, plan |-> <<>>]
NoShare(status) == [status |-> status, lead |-> None, mode |-> "credits", buyer |-> None]

Init ==
  /\ lead = [l \in Leads |-> "open"]
  /\ share = [x \in Shares |-> NoShare("unused")]
  /\ offered = {}
  /\ ledger = [o \in Offices |-> IF o \in Veterans THEN <<Entry("initial_grant", InitialGrant, None)>> ELSE <<>>]
  /\ payouts = <<>>
  /\ fees = <<>>
  /\ session = [s \in Sessions |-> Idle]
  /\ sweeper = [w \in Sweepers |-> Resting]
  /\ aged = [o \in Offices |-> 0]
  /\ topUps = 0

-----------------------------------------------------------------------------
(***************************************************************************)
(* The ledger.                                                             *)
(***************************************************************************)
Balance(o) == SumOf(ledger[o])

\* settleReferral: the fee is rounded down, the bonus for taking credits up.
Settled(mode) ==
  LET fee == (Price * FeePercent[mode]) \div 100
      net == Max({0, Price - fee}) IN
  [fee |-> fee, credits |-> IF mode = "credits" THEN net + (net * BonusPercent + 99) \div 100 ELSE 0]

\* buyLead leaves the referrer something whatever the row says.
PlatformFee(mode) == Max({0, Min({Settled(mode).fee, Price - 1})})

ReferrerPayout(mode) ==
  IF Settled(mode).credits > 0 THEN Settled(mode).credits ELSE Price - PlatformFee(mode)

\* Credits the platform made out of nothing.
BonusCredits(mode) ==
  IF mode = "cash" THEN 0 ELSE Max({0, ReferrerPayout(mode) - (Price - PlatformFee(mode))})

\* The platform's row of a sale.
FeeRow(x, mode) ==
  [ref |-> x, fee |-> PlatformFee(mode), bonus |-> BonusCredits(mode), cash |-> mode = "cash"]

\* What the sweep writes off now.
Planned(o) == PlannedOf(ledger[o], aged[o])

-----------------------------------------------------------------------------
(***************************************************************************)
(* Locks.                                                                  *)
(***************************************************************************)
InState(pcs) == {s \in Sessions : session[s].pc \in pcs}

\* Rows an open purchase has updated.
RowHeld(x) == \E s \in InState({"claimed", "funded"}) : session[s].on = x

LeadRowsHeld(l) == \E x \in Shares : share[x].lead = l /\ RowHeld(x)

SpendHeld(o) ==
  \/ \E s \in InState({"funded", "offer_funded"}) : Seat[s] = o
  \/ \E w \in Sweepers : sweeper[w].office = o

Go(s, pc) == session' = [session EXCEPT ![s].pc = pc]
Finish(s) == session' = [session EXCEPT ![s] = Idle]
At(s, pc) == session[s].pc = pc

-----------------------------------------------------------------------------
(***************************************************************************)
(* The referring office.                                                   *)
(***************************************************************************)

\* shareLead, up to the search for a referral that was sold.
ShareRead(s, l) ==
  /\ At(s, "idle")
  /\ Owner[l] = Seat[s]
  /\ lead[l] = "open"
  /\ \A x \in Shares : ~(share[x].lead = l /\ share[x].status = "sold")
  /\ session' = [session EXCEPT ![s] = [pc |-> "sharing", on |-> l]]
  /\ UNCHANGED <<tables, sweeper, clock>>

ActiveShareOf(l) == {x \in Shares : share[x].lead = l /\ share[x].status = "active"}

\* Its insert waits for a purchase that has the referral in hand, and is refused
\* when the lead stands on the board (the partial unique index).
ShareWrite(s, mode) ==
  LET l == session[s].on
      free == {x \in Shares : share[x].status = "unused"} IN
  /\ At(s, "sharing")
  /\ ~LeadRowsHeld(l)
  /\ \/ ActiveShareOf(l) # {} /\ UNCHANGED share
     \/ /\ ActiveShareOf(l) = {} /\ free # {}
        /\ share' = [share EXCEPT ![Min(free)] =
             [status |-> "active", lead |-> l, mode |-> mode, buyer |-> None]]
  /\ Finish(s)
  /\ UNCHANGED <<lead, offered, ledger, payouts, fees, sweeper, clock>>

WithdrawLead(x) ==
  /\ share[x].status = "active"
  /\ ~RowHeld(x)
  /\ share' = [share EXCEPT ![x] = NoShare("down")]
  /\ UNCHANGED <<lead, offered, ledger, payouts, fees, session, sweeper, clock>>

\* The referrer turns the lead into a buyer of its own.
ConvertLead(l) ==
  /\ lead[l] = "open"
  /\ lead' = [lead EXCEPT ![l] = "closed"]
  /\ UNCHANGED <<share, offered, ledger, payouts, fees, session, sweeper, clock>>

\* It deletes the lead, and its referrals unless they were sold.
RemoveLead(l) ==
  /\ lead[l] = "open"
  /\ ~LeadRowsHeld(l)
  /\ lead' = [lead EXCEPT ![l] = "closed"]
  /\ share' = [x \in Shares |-> IF share[x].lead = l /\ share[x].status # "sold"
                                THEN NoShare("down") ELSE share[x]]
  /\ UNCHANGED <<offered, ledger, payouts, fees, session, sweeper, clock>>

-----------------------------------------------------------------------------
(***************************************************************************)
(* buyLead.                                                                *)
(***************************************************************************)
\* The referral and the referrer's lead, both read before the transaction of the
\* purchase: a referral whose client was taken care of comes down from the board.
BuyRead(s, x) ==
  /\ At(s, "idle")
  /\ share[x].status = "active"
  /\ Owner[share[x].lead] # Seat[s]
  /\ \/ /\ lead[share[x].lead] = "open"
        /\ session' = [session EXCEPT ![s] = [pc |-> "checked", on |-> x]]
        /\ UNCHANGED share
     \/ /\ lead[share[x].lead] # "open"
        /\ ~RowHeld(x)
        /\ share' = [share EXCEPT ![x] = NoShare("down")]
        /\ UNCHANGED session
  /\ UNCHANGED <<lead, offered, ledger, payouts, fees, sweeper, clock>>

\* Mutant of BuyClaim: the update takes a sold row too.
ClaimAny(s) ==
  /\ At(s, "checked")
  /\ ~RowHeld(session[s].on)
  /\ share[session[s].on].status \in {"active", "sold"}
  /\ Go(s, "claimed")
  /\ UNCHANGED <<tables, sweeper, clock>>

\* The conditional update active -> sold, uncommitted.
BuyClaim(s) ==
  LET x == session[s].on IN
  /\ At(s, "checked")
  /\ ~RowHeld(x)
  /\ \/ share[x].status = "active" /\ Go(s, "claimed")
     \/ share[x].status # "active" /\ Finish(s)
  /\ UNCHANGED <<tables, sweeper, clock>>

\* lockCreditSpend, and the balance read under it.
BuyLock(s) ==
  LET o == Seat[s] IN
  /\ At(s, "claimed")
  /\ ~SpendHeld(o)
  /\ \/ Balance(o) >= Price /\ Go(s, "funded")
     \/ Balance(o) < Price /\ Finish(s)
  /\ UNCHANGED <<tables, sweeper, clock>>

\* What a sale writes, both sides in one commit.
BuyCommit(s) ==
  LET x == session[s].on
      o == Seat[s]
      referrer == Owner[share[x].lead]
      mode == share[x].mode IN
  /\ At(s, "funded")
  /\ share' = [share EXCEPT ![x].status = "sold", ![x].buyer = o]
  /\ ledger' = [ledger EXCEPT
       ![o] = Append(@, Entry("lead_purchase", -Price, x)),
       ![referrer] = IF mode = "credits" THEN Append(@, Entry("lead_sale", ReferrerPayout(mode), x)) ELSE @]
  /\ payouts' = IF mode = "cash" THEN Append(payouts, [office |-> referrer, ref |-> x]) ELSE payouts
  /\ fees' = Append(fees, FeeRow(x, mode))
  /\ Finish(s)
  /\ UNCHANGED <<lead, offered, sweeper, clock>>

-----------------------------------------------------------------------------
(***************************************************************************)
(* Other ways credits come and go.                                         *)
(***************************************************************************)

\* offerProperty, up to the search for an earlier offer of the same property.
OfferRead(s, p) ==
  /\ At(s, "idle")
  /\ Owner[p] = Seat[s]
  /\ p \notin offered
  /\ session' = [session EXCEPT ![s] = [pc |-> "offering", on |-> p]]
  /\ UNCHANGED <<tables, sweeper, clock>>

OfferLock(s) ==
  LET o == Seat[s] IN
  /\ At(s, "offering")
  /\ ~SpendHeld(o)
  /\ \/ Balance(o) >= OfferCost /\ Go(s, "offer_funded")
     \/ Balance(o) < OfferCost /\ Finish(s)
  /\ UNCHANGED <<tables, sweeper, clock>>

\* Mutant of OfferCommit: nothing refuses the second row of one offer.
OfferTwice(s) ==
  LET o == Seat[s] IN
  /\ At(s, "offer_funded")
  /\ offered' = offered \cup {session[s].on}
  /\ ledger' = [ledger EXCEPT ![o] = Append(@, Entry("coop_offer", -OfferCost, session[s].on))]
  /\ Finish(s)
  /\ UNCHANGED <<lead, share, payouts, fees, sweeper, clock>>

\* The offer is unique; when a double click was faster, nothing is charged.
OfferCommit(s) ==
  LET o == Seat[s]
      p == session[s].on IN
  /\ At(s, "offer_funded")
  /\ \/ p \in offered /\ UNCHANGED <<offered, ledger>>
     \/ /\ p \notin offered
        /\ offered' = offered \cup {p}
        /\ ledger' = [ledger EXCEPT ![o] = Append(@, Entry("coop_offer", -OfferCost, p))]
  /\ Finish(s)
  /\ UNCHANGED <<lead, share, payouts, fees, sweeper, clock>>

\* balance: an office without a row in the ledger gets its first one, without a lock.
GrantRead(s) ==
  /\ At(s, "idle")
  /\ ledger[Seat[s]] = <<>>
  /\ Go(s, "granting")
  /\ UNCHANGED <<tables, sweeper, clock>>

GrantWrite(s) ==
  LET o == Seat[s] IN
  /\ At(s, "granting")
  /\ ledger' = [ledger EXCEPT ![o] = Append(@, Entry("initial_grant", InitialGrant, None))]
  /\ Finish(s)
  /\ UNCHANGED <<lead, share, offered, payouts, fees, sweeper, clock>>

\* A package of credits was paid (SubscriptionCheckout).
BuyCredits(o) ==
  /\ topUps < MaxTopUps
  /\ topUps' = topUps + 1
  /\ ledger' = [ledger EXCEPT ![o] = Append(@, Entry("purchase", TopUp, None))]
  /\ UNCHANGED <<lead, share, offered, payouts, fees, session, sweeper, aged>>

\* A request dies or its transaction times out: nothing of it is kept.
Rollback(s) ==
  /\ ~At(s, "idle")
  /\ Finish(s)
  /\ UNCHANGED <<tables, sweeper, clock>>

-----------------------------------------------------------------------------
(***************************************************************************)
(* CreditExpiryService.                                                    *)
(***************************************************************************)

\* Time passes: the rows the ledgers have by now outlive the validity of credits.
Age ==
  /\ \E o \in Offices : aged[o] < Len(ledger[o])
  /\ aged' = [o \in Offices |-> Len(ledger[o])]
  /\ UNCHANGED <<tables, session, sweeper, topUps>>

\* Mutant of SweepLock: the sweep trusts the unique index alone.
SweepUnlocked(w, o) ==
  /\ sweeper[w] = Resting
  /\ Planned(o) # <<>>
  /\ sweeper' = [sweeper EXCEPT ![w] = [office |-> o, plan |-> Planned(o)]]
  /\ UNCHANGED <<tables, session, clock>>

\* A replica comes to office o, waits for the spending lock and reads the ledger.
SweepLock(w, o) ==
  /\ sweeper[w] = Resting
  /\ ~SpendHeld(o)
  /\ Planned(o) # <<>>
  /\ sweeper' = [sweeper EXCEPT ![w] = [office |-> o, plan |-> Planned(o)]]
  /\ UNCHANGED <<tables, session, clock>>

\* The partial unique index credit_ledger_expiry_once; a refused insert aborts
\* the transaction.
Refused(w) ==
  \E i \in DOMAIN sweeper[w].plan : ExpiryOf(ledger[sweeper[w].office], sweeper[w].plan[i].ref) # {}

SweepCommit(w) ==
  LET o == sweeper[w].office IN
  /\ sweeper[w] # Resting
  /\ \/ Refused(w) /\ UNCHANGED ledger
     \/ ~Refused(w) /\ ledger' = [ledger EXCEPT ![o] = @ \o sweeper[w].plan]
  /\ sweeper' = [sweeper EXCEPT ![w] = Resting]
  /\ UNCHANGED <<lead, share, offered, payouts, fees, session, clock>>

\* The replica dies, or the transaction times out.
SweepAbort(w) ==
  /\ sweeper[w] # Resting
  /\ sweeper' = [sweeper EXCEPT ![w] = Resting]
  /\ UNCHANGED <<tables, session, clock>>

-----------------------------------------------------------------------------
Referrer ==
  \/ \E s \in Sessions :
       (\E l \in Leads : ShareRead(s, l)) \/ (\E mode \in Modes : ShareWrite(s, mode))
  \/ \E x \in Shares : WithdrawLead(x)
  \/ \E l \in Leads : ConvertLead(l) \/ RemoveLead(l)

Buy == \E s \in Sessions :
  \/ \E x \in Shares : BuyRead(s, x)
  \/ BuyClaim(s) \/ BuyLock(s) \/ BuyCommit(s)

Credits ==
  \/ \E s \in Sessions :
       \/ \E p \in Offers : OfferRead(s, p)
       \/ OfferLock(s) \/ OfferCommit(s) \/ GrantRead(s) \/ GrantWrite(s) \/ Rollback(s)
  \/ \E o \in Offices : BuyCredits(o)

Expiry ==
  \/ Age
  \/ \E w \in Sweepers : (\E o \in Offices : SweepLock(w, o)) \/ SweepCommit(w) \/ SweepAbort(w)

Next == Referrer \/ Buy \/ Credits \/ Expiry

Spec == Init /\ [][Next]_vars

-----------------------------------------------------------------------------
(***************************************************************************)
(* Properties.                                                             *)
(***************************************************************************)
\* No office owes credits: not two purchases of one office at once, nor a
\* purchase and a sweep that read the same balance, take it below zero
\* (credit-expiry.service.ts saw -20 without the lock).
NoDebt == \A o \in Offices : Balance(o) >= 0

RowsOf(L, kind, ref) == {i \in DOMAIN L : L[i].kind = kind /\ L[i].ref = ref}

OnceIf(condition) == IF condition THEN 1 ELSE 0

Sold(x) == share[x].status = "sold"

SoldFor(x, o, mode) == Sold(x) /\ Owner[share[x].lead] = o /\ share[x].mode = mode

Paid(x, o) == {i \in DOMAIN payouts : payouts[i].ref = x /\ payouts[i].office = o}

FeesOf(x) == {i \in DOMAIN fees : fees[i].ref = x}

\* A referral is paid once or not at all, and the four books agree: its buyer,
\* and nobody else, was charged once, the platform has one row, and the referrer
\* was paid once, in the currency it chose; of a sale for credits, what the
\* platform made (the bonus) less what it kept (the fee) is all that came into
\* the world.
SaleSettledOnce ==
  \A x \in Shares :
    /\ Cardinality(FeesOf(x)) = OnceIf(Sold(x))
    /\ \A o \in Offices :
         /\ Cardinality(RowsOf(ledger[o], "lead_purchase", x)) = OnceIf(Sold(x) /\ o = share[x].buyer)
         /\ Cardinality(RowsOf(ledger[o], "lead_sale", x)) = OnceIf(SoldFor(x, o, "credits"))
         /\ Cardinality(Paid(x, o)) = OnceIf(SoldFor(x, o, "cash"))
    /\ \A i \in FeesOf(x), o, r \in Offices :
         \A c \in RowsOf(ledger[o], "lead_purchase", x), d \in RowsOf(ledger[r], "lead_sale", x) :
           ledger[o][c].amount + ledger[r][d].amount = fees[i].bonus - fees[i].fee

\* An offer that stands was charged once, to the office whose property it is, one
\* that does not was not charged.
OfferChargedOnce ==
  \A p \in Offers, o \in Offices :
    Cardinality(RowsOf(ledger[o], "coop_offer", p)) = OnceIf(p \in offered /\ o = Owner[p])

\* The batches the sweep reconstructs are the balance, to the credit: what was
\* spent is never written off again, nor is a batch written off twice, and
\* credits an office paid for stay.
OnlyLeftoversExpire ==
  \A o \in Offices :
    LET L == ledger[o]
        left == Remaining(L) IN
    /\ Balance(o) = Total(left)
    /\ \A b \in DOMAIN L : ExpiryOf(L, b) # {} =>
         Lapses(L[b]) /\ left[b] = 0 /\ Cardinality(ExpiryOf(L, b)) = 1
===============================================================================
