------------------------------ MODULE WsTicket ------------------------------
(***************************************************************************)
(* The door of wsbridge.py: the sniffing of POST /bridge/ticket before the *)
(* websockets parser, the store of single-use tickets, and the check of an *)
(* upgrade. A request head arrives in pieces: the method, the rest of its  *)
(* line, its headers and the end of the head.                              *)
(***************************************************************************)
EXTENDS Naturals, Sequences, FiniteSets

CONSTANTS
    Conns,    \* TCP connections
    Tickets,  \* random tickets
    Ttl,      \* TICKET_TTL
    MaxTime,  \* bound on the clock
    Restarts  \* bound on restarts of the service

Shape == {Ttl, MaxTime, Restarts} \subseteq Nat

VARIABLES
    c,        \* c[k]: the connection
    expiry,   \* the live tickets and when they stop working
    minted,   \* tickets handed out, and when
    opened,   \* opened[t]: links opened with ticket t, and when the last was
    now, restarts

vars == <<c, expiry, minted, opened, now, restarts>>

Kinds == {"ask", "upgrade", "junk"}      \* junk: a method no ticket request has
NoTicket == "none"
Closed == [state |-> "closed", kind |-> "junk", cred |-> NoTicket, got |-> 0, sniffed |-> 0, passed |-> 0]

TypeOK ==
    /\ \A k \in Conns :
         /\ c[k].state \in {"closed", "sniffing", "passing", "answered", "open", "refused"}
         /\ c[k].kind \in Kinds /\ c[k].sniffed \in 0..4 /\ c[k].passed \in 0..4
    /\ DOMAIN expiry \subseteq Tickets /\ DOMAIN expiry \subseteq minted

Init ==
    /\ c = [k \in Conns |-> Closed] /\ expiry = <<>> /\ minted = {}
    /\ opened = [t \in Tickets |-> 0] /\ now = 0 /\ restarts = 0

Live(at) == [t \in {u \in DOMAIN expiry : at < expiry[u]} |-> expiry[t]]

\* cred: a ticket, the key as a bearer, or nothing.
Connects(k, kind, cred) ==
    /\ c[k].state = "closed"
    /\ cred \in minted \cup {"key", NoTicket}
    /\ c' = [c EXCEPT ![k] = [Closed EXCEPT !.state = "sniffing", !.kind = kind, !.cred = cred]]
    /\ UNCHANGED <<expiry, minted, opened, now, restarts>>

\* data_received: a whole line decides; before that, a method that cannot
\* start a ticket request does.
Settled(kind, n) == IF n >= 2 THEN kind # "ask" ELSE kind = "junk"

Handed(k, n) == c[k].sniffed + n

\* n more pieces of the head arrive.
Receives(k, n) ==
    LET head == c[k].sniffed + n IN
    /\ c[k].state \in {"sniffing", "passing"} /\ n >= 1 /\ c[k].got + n <= 4
    /\ c' = [c EXCEPT
         ![k].got = @ + n,
         ![k].sniffed = IF c[k].state = "sniffing" /\ ~Settled(c[k].kind, head) THEN head ELSE 0,
         ![k].passed = IF c[k].state = "passing" THEN @ + n
                       ELSE IF Settled(c[k].kind, head) THEN Handed(k, n) ELSE @,
         ![k].state = IF @ = "sniffing" /\ Settled(c[k].kind, head) THEN "passing" ELSE @]
    /\ UNCHANGED <<expiry, minted, opened, now, restarts>>

\* answer_ticket_request: the head of a ticket request is whole.
Mint(k, t) ==
    /\ c[k].state = "sniffing" /\ c[k].sniffed = 4 /\ c[k].cred = "key" /\ t \notin minted
    /\ expiry' = [u \in DOMAIN Live(now) \cup {t} |-> IF u = t THEN now + Ttl ELSE expiry[u]]
    /\ minted' = minted \cup {t}
    /\ c' = [c EXCEPT ![k] = [Closed EXCEPT !.state = "answered"]]
    /\ UNCHANGED <<opened, now, restarts>>

RefuseAsk(k) ==
    /\ c[k].state = "sniffing" /\ c[k].sniffed = 4 /\ c[k].cred # "key"
    /\ c' = [c EXCEPT ![k] = [Closed EXCEPT !.state = "answered"]]
    /\ UNCHANGED <<expiry, minted, opened, now, restarts>>

Spent(t) == [u \in DOMAIN Live(now) \ {t} |-> expiry[u]]
Redeemable(t) == t \in DOMAIN Live(now)

\* authorize: a bearer key, else a ticket that redeem takes out of the store.
Upgrades(k) ==
    /\ c[k].state = "passing" /\ c[k].passed = 4 /\ c[k].kind = "upgrade"
    /\ \/ c[k].cred = "key" /\ UNCHANGED <<expiry, opened>>
       \/ /\ c[k].cred \in Tickets /\ Redeemable(c[k].cred)
          /\ expiry' = Spent(c[k].cred) /\ opened' = [opened EXCEPT ![c[k].cred] = @ + 1]
    /\ c' = [c EXCEPT ![k].state = "open"]
    /\ UNCHANGED <<minted, now, restarts>>

RefuseUpgrade(k) ==
    /\ c[k].state = "passing" /\ c[k].passed = 4
    /\ c[k].kind # "upgrade" \/ (c[k].cred # "key" /\ ~(c[k].cred \in Tickets /\ Redeemable(c[k].cred)))
    /\ expiry' = Live(now) /\ c' = [c EXCEPT ![k].state = "refused"]
    /\ UNCHANGED <<minted, opened, now, restarts>>

Closes(k) ==
    /\ c[k].state \in {"answered", "open", "refused"} /\ c' = [c EXCEPT ![k] = Closed]
    /\ UNCHANGED <<expiry, minted, opened, now, restarts>>

Tick == now < MaxTime /\ now' = now + 1 /\ UNCHANGED <<c, expiry, minted, opened, restarts>>

\* Tickets live in memory only.
Restart ==
    /\ restarts < Restarts /\ restarts' = restarts + 1
    /\ c' = [k \in Conns |-> Closed] /\ expiry' = <<>>
    /\ UNCHANGED <<minted, opened, now>>

Next ==
    \/ \E k \in Conns : \/ \E kind \in Kinds, cred \in Tickets \cup {"key", NoTicket} : Connects(k, kind, cred)
                        \/ \E n \in 1..4 : Receives(k, n)
                        \/ \E t \in Tickets : Mint(k, t)
                        \/ RefuseAsk(k) \/ Upgrades(k) \/ RefuseUpgrade(k) \/ Closes(k)
    \/ Tick \/ Restart

Spec == Init /\ [][Next]_vars

-----------------------------------------------------------------------------
\* A ticket opens one link at most, whichever connections present it.
TicketOpensOnce == \A t \in Tickets : opened[t] <= 1

\* A ticket opens a link only within its lifetime, and none across a restart.
OpensInTime ==
    \A t \in Tickets : opened'[t] # opened[t] => t \in DOMAIN expiry /\ now < expiry[t]

\* However the head is cut into pieces, a ticket request is not shown to the
\* websockets parser, and any other request reaches it piece for piece.
ByteForByte ==
    \A k \in Conns :
        /\ c[k].kind = "ask" => c[k].passed = 0
        /\ c[k].state = "passing" => c[k].passed = c[k].got
        /\ c[k].state = "sniffing" => c[k].sniffed = c[k].got
=============================================================================
