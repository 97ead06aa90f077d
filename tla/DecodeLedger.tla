---------------------------- MODULE DecodeLedger ----------------------------
(***************************************************************************)
(* DecodeCreditLedger of m12_decode.py: reservations of a decode capacity  *)
(* shared by all attempts, over time.  A ledger keeps what is reserved     *)
(* ahead (active), what runs (executing) and the debt of every attempt     *)
(* that has not been settled (reserved).  One credit is held for one unit  *)
(* of time per credit, so a reservation is as long as it is wide; attempts *)
(* reserve at least one credit.                                            *)
(***************************************************************************)
EXTENDS Integers, SequencesExt

CONSTANT Capacity       \* capacity_credits

ASSUME CapacityAssumption == Capacity \in Nat \ {0}

\* A DecodeReservation holds its credits from starts on until before releases.
Reservation(a, amount, starts, releases) ==
    [attempt |-> a, credits |-> amount, starts |-> starts, releases |-> releases]

EmptyLedger == [active |-> {}, executing |-> {}, reserved |-> <<>>]

Temporal(ledger) == ledger.active \cup ledger.executing

Held(items, t) ==
    SumFunction([x \in {y \in items : y.starts <= t /\ t < y.releases} |-> x.credits])

Breakpoints(items, starts, releases) ==
    {starts} \cup {t \in {x.starts : x \in items} : starts < t /\ t < releases}

\* The width one reservation can take of the capacity.
Width(amount) == Min({amount, Capacity})

\* The width is free from this moment on for as long as it is reserved.
Fits(items, width, starts) ==
    \A t \in Breakpoints(items, starts, starts + width) : Held(items, t) + width <= Capacity

\* available_at: now, or the first release after now, from where it fits.
AvailableAt(ledger, amount, time, excluded) ==
    LET items      == {x \in Temporal(ledger) : x.attempt # excluded}
        candidates == {time} \cup {t \in {x.releases : x \in items} : t > time}
    IN  Min({t \in candidates : Fits(items, Width(amount), t)})

Holds(items, a) == \E x \in items : x.attempt = a

\* reserve raises for an attempt that is reserved or runs already.
MayReserve(ledger, a) == ~Holds(Temporal(ledger), a)

\* The chunks of a reservation, one after the other, each as wide as it can be.
Chunks(ledger, a, amount, time) ==
    LET left(i) == amount - (i - 1) * Capacity
        Placed(i, cursor) ==
            LET width  == Width(left(i))
                starts == AvailableAt(ledger, width, cursor, <<>>)
            IN  Reservation(a, width, starts, starts + width)
        chunk[i \in 1..amount] == Placed(i, IF i = 1 THEN time ELSE chunk[i - 1].releases)
    IN  {chunk[i] : i \in {j \in 1..amount : left(j) > 0}}

WithDebt(reserved, a, amount) ==
    [b \in DOMAIN reserved \cup {a} |-> IF b = a THEN amount ELSE reserved[b]]

Reserve(ledger, a, amount, time) ==
    [ledger EXCEPT !.active = @ \cup Chunks(ledger, a, amount, time),
                   !.reserved = WithDebt(@, a, amount)]

\* Where the first chunk of the attempt starts.
StartsAt(ledger, a) == Min({x.starts : x \in {y \in ledger.active : y.attempt = a}})

\* activate raises for an attempt that runs, and when what runs leaves no room.
MayActivate(ledger, a, amount, starts, releases) ==
    /\ ~Holds(ledger.executing, a)
    /\ \A t \in Breakpoints(ledger.executing, starts, releases) :
          Held(ledger.executing, t) + Width(amount) <= Capacity

\* Variant: what was reserved for that time stays.
Invalidates(x, starts, releases) == FALSE

\* A reservation made for a time at which the attempt now runs.
Overlaps(x, starts, releases) == x.starts < releases /\ starts < x.releases

\* Variant: a reservation goes with its debt.
ActivateDroppingDebt(ledger, a, amount, starts, releases) ==
    LET gone == {x.attempt : x \in {y \in ledger.active :
                               y.attempt # a /\ Overlaps(y, starts, releases)}}
        kept == {x \in ledger.active : x.attempt \notin gone \cup {a}}
    IN  [active    |-> kept,
         executing |-> ledger.executing \cup {Reservation(a, Width(amount), starts, releases)},
         reserved  |-> [b \in (DOMAIN ledger.reserved \cup {a}) \ gone |->
                          IF b = a THEN amount ELSE ledger.reserved[b]]]

\* The attempt runs; its reservation and every reservation it overlaps goes,
\* with all its chunks, while its debt stays.
Activate(ledger, a, amount, starts, releases) ==
    LET planned == {x \in ledger.active : x.attempt # a}
        gone    == {x.attempt : x \in {y \in planned : Overlaps(y, starts, releases)}}
    IN  [active    |-> {x \in planned : x.attempt \notin gone},
         executing |-> ledger.executing \cup {Reservation(a, Width(amount), starts, releases)},
         reserved  |-> IF Holds(ledger.active, a) THEN ledger.reserved
                       ELSE WithDebt(ledger.reserved, a, amount)]

\* Variant: the debt stays.
SettleKeepingDebt(ledger, a) ==
    [ledger EXCEPT !.active = {x \in @ : x.attempt # a},
                   !.executing = {x \in @ : x.attempt # a}]

\* settle raises KeyError for an attempt that holds nothing.
MaySettle(ledger, a) == Holds(Temporal(ledger), a)

Settle(ledger, a) ==
    [active    |-> {x \in ledger.active : x.attempt # a},
     executing |-> {x \in ledger.executing : x.attempt # a},
     reserved  |-> [b \in DOMAIN ledger.reserved \ {a} |-> ledger.reserved[b]]]
=============================================================================
