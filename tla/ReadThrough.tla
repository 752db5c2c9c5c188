---------------------------- MODULE ReadThrough -----------------------------
(***************************************************************************)
(* What the cache promises to those who query through it, with no lock, no *)
(* list and no eviction order.                                             *)
(*                                                                         *)
(* A flight is one round trip to the database.  The first client to ask    *)
(* for a key starts a flight; the clients that ask while it is current     *)
(* join it, and all of them are told its one outcome.  An open flight is   *)
(* never replaced: only a landed one may be forgotten, and only its own    *)
(* leader may withdraw it, to fail it.                                     *)
(***************************************************************************)
EXTENDS Naturals

CONSTANTS Clients, Keys, Values, Flights, NULL,
          Answers   \* what the database may answer to each key

VARIABLES
    current,    \* the flight that a client asking for a key joins
    outcome,    \* what came of each flight
    client      \* what each client asked for, on which flight, its reply

vars == <<current, outcome, client>>

Unused == "unused"
Open   == "open"
Failed == "failed"

Idle == [role |-> "idle", key |-> NULL, flight |-> NULL, reply |-> NULL]

\* A flight is reused once no key and no client refers to it.
Settle(heard, cur, clients) ==
    [f \in Flights |->
        IF \/ \E k \in Keys : cur[k] = f
           \/ \E c \in Clients : clients[c].flight = f
        THEN heard[f] ELSE Unused]

Aboard(c) == client[c].flight
Asked(c)  == client[c].key

Init ==
    /\ current = [k \in Keys |-> NULL]
    /\ outcome = [f \in Flights |-> Unused]
    /\ client = [c \in Clients |-> Idle]

Board(c, k, f, role) ==
    client' = [client EXCEPT ![c] = [role |-> role, key |-> k, flight |-> f,
                                     reply |-> NULL]]

\* Nothing is known of the key and nobody is finding out.
Start(c, k) ==
    /\ client[c].role = "idle"
    /\ current[k] = NULL
    /\ \E f \in Flights :
          /\ outcome[f] = Unused
          /\ current' = [current EXCEPT ![k] = f]
          /\ outcome' = [outcome EXCEPT ![f] = Open]
          /\ Board(c, k, f, "leads")

\* The key is known, or somebody is finding out.
Join(c, k) ==
    /\ client[c].role = "idle"
    /\ current[k] # NULL
    /\ Board(c, k, current[k], "joined")
    /\ UNCHANGED <<current, outcome>>

\* A result is dropped: expired, or evicted for lack of room.
Forget(k) ==
    /\ current[k] # NULL
    /\ outcome[current[k]] \in Values
    /\ current' = [current EXCEPT ![k] = NULL]
    /\ outcome' = Settle(outcome, current', client)
    /\ UNCHANGED client

\* The database answered: from now on the key has a result.
Land(c) ==
    /\ client[c].role = "leads"
    /\ outcome[Aboard(c)] = Open
    /\ current[Asked(c)] = Aboard(c)
    /\ \E v \in Answers[Asked(c)] :
          outcome' = [outcome EXCEPT ![Aboard(c)] = v]
    /\ UNCHANGED <<current, client>>

\* The database failed: nobody else joins ...
Withdraw(c) ==
    /\ client[c].role = "leads"
    /\ outcome[Aboard(c)] = Open
    /\ current[Asked(c)] = Aboard(c)
    /\ current' = [current EXCEPT ![Asked(c)] = NULL]
    /\ UNCHANGED <<outcome, client>>

\* ... and whoever joined learns of it.
Fail(c) ==
    /\ client[c].role = "leads"
    /\ outcome[Aboard(c)] = Open
    /\ current[Asked(c)] # Aboard(c)
    /\ outcome' = [outcome EXCEPT ![Aboard(c)] = Failed]
    /\ UNCHANGED <<current, client>>

\* Leader and joiners alike are told what came of their flight.
Answer(c) ==
    /\ client[c].role \in {"leads", "joined"}
    /\ outcome[Aboard(c)] # Open
    /\ client' = [client EXCEPT ![c].role = "answered",
                                ![c].reply = outcome[Aboard(c)]]
    /\ UNCHANGED <<current, outcome>>

Leave(c) ==
    /\ client[c].role = "answered"
    /\ client' = [client EXCEPT ![c] = Idle]
    /\ outcome' = Settle(outcome, current, client')
    /\ UNCHANGED current

Next ==
    \/ \E c \in Clients, k \in Keys : Start(c, k) \/ Join(c, k)
    \/ \E k \in Keys : Forget(k)
    \/ \E c \in Clients : Land(c) \/ Withdraw(c) \/ Fail(c)
                          \/ Answer(c) \/ Leave(c)

Spec == Init /\ [][Next]_vars

=============================================================================
