--------------------------- MODULE DepositPromise ---------------------------
(***************************************************************************)
(* What online deposits promise a guest: money Qi took is either the       *)
(* deposit of a booking the guest has, or on its way back, and it goes     *)
(* back at most once.                                                      *)
(***************************************************************************)
CONSTANT Deposits

VARIABLES money,        \* where the guest's money is
          booked        \* it is the deposit of a booking the guest has

promiseVars == <<money, booked>>

PromiseInit == /\ money = [d \in Deposits |-> "guest"]
               /\ booked = [d \in Deposits |-> FALSE]

Take(d) == /\ money[d] = "guest"
           /\ money' = [money EXCEPT ![d] = "bank"]
           /\ UNCHANGED booked

\* The venue keeps it: with the booking, or for good (a no-show).
Book(d) == /\ money[d] = "bank"
           /\ money' = [money EXCEPT ![d] = "venue"]
           /\ booked' = [booked EXCEPT ![d] = TRUE]

Forfeit(d) == /\ money[d] = "venue" /\ booked[d]
              /\ booked' = [booked EXCEPT ![d] = FALSE]
              /\ UNCHANGED money

Owe(d) == /\ money[d] \in {"bank", "venue"}
          /\ money' = [money EXCEPT ![d] = "owed"]
          /\ booked' = [booked EXCEPT ![d] = FALSE]

PayBack(d) == /\ money[d] = "owed"
              /\ money' = [money EXCEPT ![d] = "returned"]
              /\ UNCHANGED booked

\* Whatever else goes on leaves the guest's money where it is.
Rest == UNCHANGED promiseVars

PromiseNext ==
    \/ Rest
    \/ \E d \in Deposits : \/ Take(d) \/ Book(d) \/ Forfeit(d)
                          \/ Owe(d) \/ PayBack(d)

PromiseSpec == PromiseInit /\ [][PromiseNext]_promiseVars
=============================================================================
