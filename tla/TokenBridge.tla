---------------------------- MODULE TokenBridge ----------------------------
(***************************************************************************)
(* The token bridge: a check-out sends tokens of this chain to a token     *)
(* pool, whose owner pays out elsewhere; a check-in sends tokens of the    *)
(* pool to a user, who has paid elsewhere.  Both are requests that stay    *)
(* open until the pool's owner closes them with what came of it (or, for a *)
(* check-in, until the user cancels it), and both are limited by amounts   *)
(* that are kept apart from the requests: pending amounts go up when a     *)
(* request is opened and down when it is closed.                           *)
(*                                                                         *)
(* A transaction that fails has no effect: an action is one that succeeds. *)
(* Requests are numbered in the order they are opened; in the code a       *)
(* request has the timestamp of its transaction, which is also the key of  *)
(* its transfer.                                                           *)
(***************************************************************************)
EXTENDS Ledger, Functions

CONSTANTS
  User,
  Sender,       \* addresses on the other network
  Pool,         \* token pools; the configuration names one of them
  Funds,        \* balance of each user and of each pool at first
  Amounts,      \* amounts of requests
  FeeRates,     \* checkout_fee_rate, in whole units per unit
  MinPerRequest, MaxPerRequest, MaxPerDay,    \* limits on check-outs
  MaxRequests,  \* bound on the requests
  MaxDay        \* bound on the days

Id == 1..MaxRequests
Day == 1..MaxDay
Account == User \cup Pool

BridgeIsAssumed ==
  /\ IsFiniteSet(User) /\ IsFiniteSet(Pool)
  /\ Pool \cap (User \cup Sender) = {}
  /\ Funds \in Nat /\ Amounts \subseteq Nat /\ FeeRates \subseteq Nat
  /\ MinPerRequest \in Nat /\ MaxPerRequest \in Nat /\ MaxPerDay \in Nat
  /\ MaxRequests \in Nat /\ MaxDay \in Nat \ {0}

VARIABLES
  db,       \* balances, requests and statistics
  config,   \* the token pool and the fee rate
  day,      \* the day of the last block
  opened,   \* how many requests were opened
  fees      \* history: the fees of the check-outs that were completed
vars == <<db, config, day, opened, fees>>

Init ==
  /\ \E p \in Pool, r \in FeeRates : config = [pool |-> p, feeRate |-> r]
  /\ db = [bal |-> [a \in Account |-> Funds],
           sent |-> {},
           checkins |-> <<>>,    \* the open requests
           checkouts |-> <<>>,
           pendingIn |-> [a \in Sender \cup Pool |-> 0],
           completeIn |-> [u \in User |-> 0],
           completeInTotal |-> 0,
           pendingOut |-> [u \in User |-> 0],
           pendingOutTotal |-> 0,
           completeDaily |-> [d \in Day |-> 0],
           completeOutTotal |-> 0]
  /\ day = 1
  /\ opened = 0
  /\ fees = 0

\* The request id is the next one
Open(requests, request) ==
  [id \in DOMAIN requests \cup {opened + 1} |-> IF id = opened + 1 THEN request ELSE requests[id]]
Close(requests, id) == Restrict(requests, DOMAIN requests \ {id})

\* Statistics that forget the sender
PendingInPool(d, sender, pool, delta) == [d EXCEPT !.pendingIn[pool] = @ + delta]

\* updateStatsForPendingCheckin
PendingIn(d, sender, pool, delta) ==
  [d EXCEPT !.pendingIn[sender] = @ + delta, !.pendingIn[pool] = @ + delta]

\* updateStatsForCompleteCheckin
CompleteIn(d, u, amount) ==
  [d EXCEPT !.completeIn[u] = @ + amount, !.completeInTotal = @ + amount]

\* validateCheckinAmount
CheckinFits(sender, amount) ==
  /\ db.pendingIn[sender] <= 0
  /\ amount + db.pendingIn[config.pool] <= db.bal[config.pool]

\* _openCheckin
OpenCheckin(u, sender, amount) ==
  /\ opened < MaxRequests
  /\ CheckinFits(sender, amount)
  /\ db' = PendingIn([db EXCEPT !.checkins =
                        Open(@, [user |-> u, sender |-> sender, amount |-> amount])],
                     sender, config.pool, amount)
  /\ opened' = opened + 1
  /\ UNCHANGED <<config, day, fees>>

\* _cancelCheckin: the user removes the request
CancelCheckin(id) ==
  LET request == db.checkins[id]
  IN  /\ db' = PendingIn([db EXCEPT !.checkins = Close(@, id)],
                         request.sender, config.pool, -request.amount)
      /\ UNCHANGED <<config, day, opened, fees>>

\* _closeCheckin: the owner of the pool closes it, when the tokens came or did not
\* come.  Removing the request triggers _cancelCheckin, which then does nothing.
CloseCheckin(id, completed) ==
  LET request == db.checkins[id]
      paid == Transfer(CompleteIn(db, request.user, request.amount),
                       config.pool, request.user, request.amount, <<"in", id>>)
      done == IF completed THEN paid ELSE db
  IN  /\ done # Failed
      /\ db' = PendingIn([done EXCEPT !.checkins = Close(@, id)],
                         request.sender, config.pool, -request.amount)
      /\ UNCHANGED <<config, day, opened, fees>>

\* updateStatsForPendingCheckout
PendingOut(d, u, delta) ==
  [d EXCEPT !.pendingOut[u] = @ + delta, !.pendingOutTotal = @ + delta]

\* updateStatsForCompleteCheckout
CompleteOut(d, amount) ==
  [d EXCEPT !.completeDaily[day] = @ + amount, !.completeOutTotal = @ + amount]

\* What a check-out costs, or gives back
WithFee(amount, rate) == amount + amount * rate

\* A limit that looks only at what was completed on the day
FitsToday(d, amount) ==
  /\ amount \in MinPerRequest..MaxPerRequest
  /\ amount + d.completeDaily[day] <= MaxPerDay

\* validateCheckoutAmount: the pending total already has the amount
CheckoutFits(d, amount) ==
  /\ amount \in MinPerRequest..MaxPerRequest
  /\ d.pendingOutTotal + d.completeDaily[day] <= MaxPerDay

\* _openCheckout
OpenCheckout(u, amount) ==
  LET request == [user |-> u, amount |-> amount, feeRate |-> config.feeRate]
      pending == PendingOut([db EXCEPT !.checkouts = Open(@, request)], u, amount)
      paid == Transfer(pending, u, config.pool, WithFee(amount, config.feeRate), <<"out", opened + 1>>)
  IN  /\ opened < MaxRequests
      /\ CheckoutFits(pending, amount)
      /\ paid # Failed
      /\ db' = paid
      /\ opened' = opened + 1
      /\ UNCHANGED <<config, day, fees>>

\* A refund at the rate of the day
RefundOfNow(d, id) ==
  Transfer(d, config.pool, d.checkouts[id].user,
           WithFee(d.checkouts[id].amount, config.feeRate), <<"refund", id>>)

\* The refund of a check-out that failed, fee included
Refund(d, id) ==
  Transfer(d, config.pool, d.checkouts[id].user,
           WithFee(d.checkouts[id].amount, d.checkouts[id].feeRate), <<"refund", id>>)

\* _closeCheckout
CloseCheckout(id, completed) ==
  LET request == db.checkouts[id]
      done == IF completed THEN CompleteOut(db, request.amount) ELSE Refund(db, id)
  IN  /\ done # Failed
      /\ db' = PendingOut([done EXCEPT !.checkouts = Close(@, id)], request.user, -request.amount)
      /\ fees' = IF completed THEN fees + request.amount * request.feeRate ELSE fees
      /\ UNCHANGED <<config, day, opened>>

\* The configuration is a blockchain parameter, which its owner may change
SetConfig(pool, rate) ==
  /\ config' = [pool |-> pool, feeRate |-> rate]
  /\ config' # config
  /\ UNCHANGED <<db, day, opened, fees>>

NextDay ==
  /\ day < MaxDay
  /\ day' = day + 1
  /\ UNCHANGED <<db, config, opened, fees>>

Next ==
  \/ \E u \in User, s \in Sender, amount \in Amounts : OpenCheckin(u, s, amount)
  \/ \E id \in DOMAIN db.checkins : CancelCheckin(id)
  \/ \E id \in DOMAIN db.checkins, completed \in BOOLEAN : CloseCheckin(id, completed)
  \/ \E u \in User, amount \in Amounts : OpenCheckout(u, amount)
  \/ \E id \in DOMAIN db.checkouts, completed \in BOOLEAN : CloseCheckout(id, completed)
  \/ \E p \in Pool, r \in FeeRates : SetConfig(p, r)
  \/ NextDay

Spec == Init /\ [][Next]_vars

-----------------------------------------------------------------------------
Summed(requests, ids) == Total([id \in ids |-> requests[id].amount], ids)

(* Type invariant: no balance, no pending amount of a sender or a user and *)
(* no total is ever negative.                                              *)
TypeOK ==
  /\ \A a \in Account : db.bal[a] \in Nat
  /\ \A s \in Sender : db.pendingIn[s] \in Nat
  /\ \A u \in User : db.pendingOut[u] \in Nat
  /\ db.pendingOutTotal \in Nat
  /\ DOMAIN db.checkins \cap DOMAIN db.checkouts = {}
  /\ DOMAIN db.checkins \cup DOMAIN db.checkouts \subseteq 1..opened

(* The pending amounts are those of the open requests, by whichever way    *)
(* each request was closed; the pools' pending amounts are so in sum.      *)
PendingIsOpen ==
  /\ \A s \in Sender :
       db.pendingIn[s] = Summed(db.checkins, {id \in DOMAIN db.checkins : db.checkins[id].sender = s})
  /\ Total(db.pendingIn, Pool) = Summed(db.checkins, DOMAIN db.checkins)
  /\ \A u \in User :
       db.pendingOut[u] = Summed(db.checkouts, {id \in DOMAIN db.checkouts : db.checkouts[id].user = u})
  /\ db.pendingOutTotal = Summed(db.checkouts, DOMAIN db.checkouts)

(* What is checked out on a day never exceeds the limit, although requests *)
(* are checked when they are opened and counted on the day they are closed.*)
DailyLimitKept ==
  /\ \A d \in Day : db.completeDaily[d] <= MaxPerDay
  /\ db.pendingOutTotal + db.completeDaily[day] <= MaxPerDay

(* The pools have what they had, and what was checked out, with the fees   *)
(* of the time it was asked for, less what was checked in: a check-out     *)
(* that fails costs nothing, whatever the fee rate has become.             *)
BooksBalance ==
  Total(db.bal, Pool) =
    Funds * Cardinality(Pool) + db.completeOutTotal + fees - db.completeInTotal
      + Total([id \in DOMAIN db.checkouts |->
                 WithFee(db.checkouts[id].amount, db.checkouts[id].feeRate)], DOMAIN db.checkouts)

=============================================================================
