----------------------------- MODULE LinkProofs -----------------------------
(***************************************************************************)
(* Safety of what carries the App's calls to a turn and its frames back    *)
(* (the group MCLinks), for every value of the constants. cf is a record   *)
(* of a component's constants; the lemmas hold for any such record, and    *)
(* the theorems at the end for the records of all scenarios of MCLinks.    *)
(***************************************************************************)
EXTENDS MCLinks, FiniteSets, Lists, SequenceTheorems, FiniteSetTheorems, TLAPS

-----------------------------------------------------------------------------
(* Lists.                                                                  *)

\* Without the element at i, the others keep their order.
LEMMA RemovedAtIs ==
  ASSUME NEW S, NEW q \in Seq(S), NEW i \in DOMAIN q
  PROVE  /\ RemovedAt(q, i) \in Seq(S) /\ Len(RemovedAt(q, i)) = Len(q) - 1
         /\ \A j \in DOMAIN RemovedAt(q, i) :
               RemovedAt(q, i)[j] = q[IF j < i THEN j ELSE j + 1]
         /\ \A j \in DOMAIN q : j # i =>
               /\ (IF j < i THEN j ELSE j - 1) \in DOMAIN RemovedAt(q, i)
               /\ RemovedAt(q, i)[IF j < i THEN j ELSE j - 1] = q[j]
  <1>1. Len(q) \in Nat /\ DOMAIN q = 1..Len(q) /\ i \in 1..Len(q) /\ Len(q) - 1 \in Nat
    BY LenProperties
  <1>2. \A j \in 1..(Len(q) - 1) : RemovedAt(q, i)[j] = q[IF j < i THEN j ELSE j + 1]
    BY DEF RemovedAt
  <1>3. \A j \in 1..(Len(q) - 1) : (IF j < i THEN j ELSE j + 1) \in 1..Len(q) BY <1>1
  <1>4. \A j \in 1..Len(q) : q[j] \in S BY <1>1, ElementOfSeq
  <1>5. RemovedAt(q, i) \in [1..(Len(q) - 1) -> S] BY <1>3, <1>4 DEF RemovedAt
  <1>6. RemovedAt(q, i) \in Seq(S) /\ Len(RemovedAt(q, i)) = Len(q) - 1
    <2> DEFINE n == Len(q) - 1
               r == RemovedAt(q, i)
    <2>1. n \in Nat /\ r \in [1..n -> S] BY <1>1, <1>5
    <2> HIDE DEF n, r
    <2>2. r \in Seq(S) /\ DOMAIN r = 1..n BY <2>1, IsASeq
    <2>3. Len(r) = n BY <2>1, <2>2, LenProperties
    <2> QED BY <2>2, <2>3 DEF r, n
  <1>7. DOMAIN RemovedAt(q, i) = 1..(Len(q) - 1) BY DEF RemovedAt
  <1> HIDE DEF RemovedAt
  <1> QED BY <1>1, <1>2, <1>6, <1>7

\* Without e, a list that holds it once holds all the others.
LEMMA RemovedIs ==
  ASSUME NEW S, NEW q \in Seq(S), IsInjective(q), NEW e
  PROVE  /\ Removed(q, e) \in Seq(S) /\ IsInjective(Removed(q, e))
         /\ Range(Removed(q, e)) = Range(q) \ {e}
  <1>1. CASE e \notin Range(q) BY <1>1 DEF Removed
  <1>2. CASE e \in Range(q)
    <2> DEFINE i == CHOOSE k \in DOMAIN q : q[k] = e
               r == RemovedAt(q, i)
    <2>1. i \in DOMAIN q /\ q[i] = e BY <1>2 DEF Range
    <2>2. Removed(q, e) = r BY <1>2 DEF Removed
    <2> HIDE DEF i
    <2>3. /\ r \in Seq(S) /\ Len(r) = Len(q) - 1
          /\ \A j \in DOMAIN r : r[j] = q[IF j < i THEN j ELSE j + 1]
          /\ \A j \in DOMAIN q : j # i => /\ (IF j < i THEN j ELSE j - 1) \in DOMAIN r
                                          /\ r[IF j < i THEN j ELSE j - 1] = q[j]
      BY <2>1, RemovedAtIs
    <2> HIDE DEF r
    <2>4. DOMAIN r = 1..(Len(q) - 1) /\ DOMAIN q = 1..Len(q) /\ Len(q) \in Nat
      BY <2>3, LenProperties
    <2>5. \A j \in DOMAIN r : /\ (IF j < i THEN j ELSE j + 1) \in DOMAIN q
                              /\ (IF j < i THEN j ELSE j + 1) # i
      BY <2>1, <2>4
    <2>6. IsInjective(r)
      <3> SUFFICES ASSUME NEW a \in DOMAIN r, NEW b \in DOMAIN r, r[a] = r[b] PROVE a = b
        BY DEF IsInjective
      <3>1. (IF a < i THEN a ELSE a + 1) = (IF b < i THEN b ELSE b + 1)
        BY <2>3, <2>5 DEF IsInjective
      <3> QED BY <3>1, <2>1, <2>4
    <2>7. \A j \in DOMAIN r : r[j] \in Range(q) \ {e}
      BY <2>1, <2>3, <2>5 DEF IsInjective, Range
    <2>8. Range(r) \subseteq Range(q) \ {e} BY <2>7 DEF Range
    <2>9. ASSUME NEW x \in Range(q) \ {e} PROVE x \in Range(r)
      <3>1. PICK j \in DOMAIN q : q[j] = x BY DEF Range
      <3>2. j # i BY <2>1, <3>1
      <3> QED BY <2>3, <3>1, <3>2 DEF Range
    <2> QED BY <2>2, <2>3, <2>6, <2>8, <2>9
  <1> QED BY <1>1, <1>2

-----------------------------------------------------------------------------
(* WsTicket.                                                               *)

\* A connection, its counters of pieces, and where the pieces went.
Connection(cf) ==
    [state : {"closed", "sniffing", "passing", "answered", "open", "refused"},
     kind : Ticket(cf)!Kinds, cred : cf.Tickets \cup {"key", "none"},
     got : 0..4, sniffed : 0..4, passed : 0..4]

PieceFacts(cf) ==
    \A k \in cf.Conns :
        /\ c[k].state = "passing" => c[k].passed = c[k].got
        /\ c[k].state = "sniffing" => c[k].sniffed = c[k].got /\ c[k].passed = 0
        /\ c[k].kind = "ask" => c[k].passed = 0 /\ c[k].state # "passing"

\* A ticket in the store was handed out and has opened nothing yet.
StoreFacts(cf) ==
    /\ minted \subseteq cf.Tickets /\ DOMAIN expiry \subseteq minted
    /\ opened \in [cf.Tickets -> 0..1]
    /\ \A t \in cf.Tickets : t \in DOMAIN expiry \/ t \notin minted => opened[t] = 0

TicketInv(cf) == c \in [cf.Conns -> Connection(cf)] /\ PieceFacts(cf) /\ StoreFacts(cf)

LEMMA TicketImplies ==
  ASSUME NEW cf, TicketInv(cf)
  PROVE  Ticket(cf)!TypeOK /\ Ticket(cf)!TicketOpensOnce /\ Ticket(cf)!ByteForByte
  BY DEF TicketInv, Connection, PieceFacts, StoreFacts, Ticket!TypeOK,
         Ticket!TicketOpensOnce, Ticket!ByteForByte

LEMMA TicketStarts ==
  ASSUME NEW cf, Ticket(cf)!Init
  PROVE  TicketInv(cf)
  <1> USE DEF Ticket!Init, Ticket!Closed, Ticket!NoTicket, Ticket!Kinds
  <1>1. c \in [cf.Conns -> Connection(cf)] BY DEF Connection
  <1>2. PieceFacts(cf) BY DEF PieceFacts
  <1>3. StoreFacts(cf) BY DEF StoreFacts
  <1> QED BY <1>1, <1>2, <1>3 DEF TicketInv

\* The connections: pieces move on, or the connection is over.
LEMMA PiecesKept ==
  ASSUME NEW cf, TicketInv(cf), [Ticket(cf)!Next]_(Ticket(cf)!vars)
  PROVE  c' \in [cf.Conns -> Connection(cf)] /\ PieceFacts(cf)'
  <1> USE DEF TicketInv, PieceFacts, Ticket!Closed, Ticket!NoTicket, Ticket!Kinds
  <1>1. ASSUME NEW k \in cf.Conns, NEW kind \in Ticket(cf)!Kinds,
               NEW cred, Ticket(cf)!Connects(k, kind, cred)
        PROVE  c' \in [cf.Conns -> Connection(cf)] /\ PieceFacts(cf)'
    <2> DEFINE v == [Ticket(cf)!Closed EXCEPT !.state = "sniffing", !.kind = kind, !.cred = cred]
    <2>1. c' = [c EXCEPT ![k] = v] BY <1>1 DEF Ticket!Connects
    <2>2. cred \in cf.Tickets \cup {"key", "none"} BY <1>1 DEF Ticket!Connects, StoreFacts
    <2>3. v \in Connection(cf)
      <3>1. Ticket(cf)!Closed \in Connection(cf) BY DEF Connection
      <3>2. \A v0 \in Connection(cf) : [v0 EXCEPT !.cred = cred] \in Connection(cf)
        BY <2>2 DEF Connection
      <3>3. \A v0 \in Connection(cf) : [v0 EXCEPT !.kind = kind] \in Connection(cf)
        BY DEF Connection
      <3>4. [Ticket(cf)!Closed EXCEPT !.state = "sniffing"] \in Connection(cf)
        BY <3>1 DEF Connection
      <3>5. v = [[[Ticket(cf)!Closed EXCEPT !.state = "sniffing"] EXCEPT !.kind = kind]
                    EXCEPT !.cred = cred]
        OBVIOUS
      <3> QED BY <3>2, <3>3, <3>4, <3>5
    <2>4. v.state = "sniffing" /\ v.sniffed = v.got /\ v.passed = 0 OBVIOUS
    <2> HIDE DEF v
    <2> QED BY <2>1, <2>3, <2>4
  <1>2. ASSUME NEW k \in cf.Conns, NEW n \in 1..4, Ticket(cf)!Receives(k, n)
        PROVE  c' \in [cf.Conns -> Connection(cf)] /\ PieceFacts(cf)'
    <2>1. c[k] \in Connection(cf) BY <1>2
    <2> DEFINE v == c'[k]
    <2>2. c' = [c EXCEPT ![k] = v] BY <1>2 DEF Ticket!Receives
    <2>3. v \in Connection(cf)
      BY <1>2, <2>1 DEF Ticket!Receives, Ticket!Settled, Ticket!Handed, Connection
    <2>4. /\ v.state = "passing" => v.passed = v.got
          /\ v.state = "sniffing" => v.sniffed = v.got /\ v.passed = 0
          /\ v.kind = "ask" => v.passed = 0 /\ v.state # "passing"
      BY <1>2, <2>1 DEF Ticket!Receives, Ticket!Settled, Ticket!Handed, Connection
    <2> HIDE DEF v
    <2> QED BY <2>2, <2>3, <2>4
  <1>3. ASSUME NEW k \in cf.Conns, \/ c' = [c EXCEPT ![k] = [Ticket(cf)!Closed EXCEPT !.state = "answered"]]
                                   \/ c' = [c EXCEPT ![k] = Ticket(cf)!Closed]
                                   \/ /\ c[k].state = "passing" /\ c[k].passed = 4
                                      /\ \/ c' = [c EXCEPT ![k].state = "open"]
                                         \/ c' = [c EXCEPT ![k].state = "refused"]
        PROVE  c' \in [cf.Conns -> Connection(cf)] /\ PieceFacts(cf)'
    BY <1>3 DEF Connection
  <1>4. CASE Ticket(cf)!Restart BY <1>4 DEF Ticket!Restart, Connection
  <1>5. CASE UNCHANGED c BY <1>5
  <1>6. ASSUME NEW k \in cf.Conns,
               (\E t \in cf.Tickets : Ticket(cf)!Mint(k, t)) \/ Ticket(cf)!RefuseAsk(k)
                 \/ Ticket(cf)!Upgrades(k) \/ Ticket(cf)!RefuseUpgrade(k) \/ Ticket(cf)!Closes(k)
        PROVE  c' \in [cf.Conns -> Connection(cf)] /\ PieceFacts(cf)'
    BY <1>6, <1>3 DEF Ticket!Mint, Ticket!RefuseAsk, Ticket!Upgrades, Ticket!RefuseUpgrade,
       Ticket!Closes
  <1> QED
    BY <1>1, <1>2, <1>4, <1>5, <1>6
    DEF Ticket!Next, Ticket!vars, Ticket!Tick

LEMMA StoreKept ==
  ASSUME NEW cf, TicketInv(cf), [Ticket(cf)!Next]_(Ticket(cf)!vars)
  PROVE  StoreFacts(cf)'
  <1> USE DEF TicketInv, StoreFacts, Ticket!Live
  <1>1. ASSUME NEW k \in cf.Conns, NEW t \in cf.Tickets, Ticket(cf)!Mint(k, t)
        PROVE  StoreFacts(cf)'
    BY <1>1 DEF Ticket!Mint
  <1>2. ASSUME NEW k \in cf.Conns, Ticket(cf)!Upgrades(k)
        PROVE  StoreFacts(cf)'
    <2>1. CASE UNCHANGED <<expiry, opened>> BY <1>2, <2>1 DEF Ticket!Upgrades
    <2>2. CASE /\ c[k].cred \in cf.Tickets /\ Ticket(cf)!Redeemable(c[k].cred)
               /\ expiry' = Ticket(cf)!Spent(c[k].cred)
               /\ opened' = [opened EXCEPT ![c[k].cred] = @ + 1]
      <3> DEFINE t == c[k].cred
      <3>1. opened[t] = 0 BY <2>2 DEF Ticket!Redeemable
      <3>2. opened' = [opened EXCEPT ![t] = 1] BY <2>2, <3>1
      <3>3. DOMAIN expiry' \subseteq DOMAIN expiry \ {t} BY <2>2 DEF Ticket!Spent
      <3>4. minted' = minted BY <1>2 DEF Ticket!Upgrades
      <3>5. t \in minted BY <2>2 DEF Ticket!Redeemable
      <3> QED BY <2>2, <3>2, <3>3, <3>4, <3>5
    <2> QED BY <1>2, <2>1, <2>2 DEF Ticket!Upgrades
  <1>3. ASSUME NEW k \in cf.Conns, Ticket(cf)!RefuseUpgrade(k)
        PROVE  StoreFacts(cf)'
    BY <1>3 DEF Ticket!RefuseUpgrade
  <1>4. CASE Ticket(cf)!Restart BY <1>4 DEF Ticket!Restart
  <1>5. CASE UNCHANGED <<expiry, minted, opened>> BY <1>5
  <1> QED
    BY <1>1, <1>2, <1>3, <1>4, <1>5
    DEF Ticket!Next, Ticket!vars, Ticket!Tick, Ticket!Connects, Ticket!Receives,
        Ticket!RefuseAsk, Ticket!Closes

LEMMA TicketKept ==
  ASSUME NEW cf, TicketInv(cf), [Ticket(cf)!Next]_(Ticket(cf)!vars)
  PROVE  TicketInv(cf)'
  BY PiecesKept, StoreKept DEF Connection, Ticket!Kinds, TicketInv

\* A link is opened with a ticket only by taking it out of the store in time.
LEMMA OpenedInTime ==
  ASSUME NEW cf, [Ticket(cf)!Next]_(Ticket(cf)!vars), TicketInv(cf)
  PROVE  Ticket(cf)!OpensInTime
  <1>1. ASSUME NEW t \in cf.Tickets, opened'[t] # opened[t]
        PROVE  t \in DOMAIN expiry /\ clock < expiry[t]
    <2>1. PICK k \in cf.Conns : Ticket(cf)!Upgrades(k)
      <3>1. /\ \A k : \A kind, cred : Ticket(cf)!Connects(k, kind, cred) => opened' = opened
            /\ \A k : \A n : Ticket(cf)!Receives(k, n) => opened' = opened
            /\ \A k : \A u : Ticket(cf)!Mint(k, u) => opened' = opened
        BY DEF Ticket!Connects, Ticket!Receives, Ticket!Mint
      <3>2. /\ \A k : Ticket(cf)!RefuseAsk(k) => opened' = opened
            /\ \A k : Ticket(cf)!Closes(k) => opened' = opened
            /\ \A k : Ticket(cf)!RefuseUpgrade(k) => opened' = opened
            /\ Ticket(cf)!Tick => opened' = opened
            /\ Ticket(cf)!Restart => opened' = opened
            /\ UNCHANGED Ticket(cf)!vars => opened' = opened
        BY DEF Ticket!RefuseAsk, Ticket!Closes, Ticket!RefuseUpgrade, Ticket!Tick, Ticket!Restart,
               Ticket!vars
      <3>3. [Ticket(cf)!Next]_(Ticket(cf)!vars) OBVIOUS
      <3> QED BY ONLY <1>1, <3>1, <3>2, <3>3 DEF Ticket!Next
    <2>2. Ticket(cf)!Redeemable(t)
      BY <1>1, <2>1 DEF Ticket!Upgrades, TicketInv, StoreFacts
    <2> QED BY <2>2 DEF Ticket!Redeemable, Ticket!Live
  <1> QED BY <1>1 DEF Ticket!OpensInTime

-----------------------------------------------------------------------------
(* WsBridge.                                                               *)

FrameOf(cf) ==
    [pc : {"idle", "wait", "rpc", "done"}, id : Nat, method : cf.Methods \cup {"none", "liveness"},
     named : cf.Sessions \cup {"none"}, target : cf.Sessions \cup {"none"}, conn : Nat]

IsRequest(p) == wire[p].method # "liveness"

\* Types, and a list of attached sessions that holds each once.
LinkTypes(cf) ==
    /\ wire \in Seq(FrameOf(cf)) /\ inbox \in Seq(FrameOf(cf)) /\ work \in FrameOf(cf)
    /\ Len(inbox) <= cf.InboxBound
    /\ asked \in [requests : Nat, liveness : Nat] /\ out \in Seq(Nat)
    /\ relayed \in [Link(cf)!Ids -> Nat]
    /\ up \in {"down", "replay", "ready"} /\ conn \in Nat /\ todo \in Seq(cf.Sessions)
    /\ told \in {"none", "ready", "reconnecting"} /\ wasReady \in BOOLEAN
    /\ \A p \in DOMAIN wire : IsRequest(p) => wire[p].named \in cf.Sessions
    /\ \A j \in DOMAIN inbox : inbox[j].named \in cf.Sessions
    /\ work.pc = "done" => work.target \in cf.Sessions
    /\ aliases \in [cf.Sessions -> cf.Sessions \cup {"none"}]
    /\ attached \in Seq(cf.Sessions) /\ IsInjective(attached)
    /\ created \cup subs \cup gapq \cup again \subseteq cf.Sessions

Busy == IF work.pc = "idle" THEN 0 ELSE 1
Accepted == Len(out) + Busy + Len(inbox)

\* The requests on the wire, in the queue, with the worker and answered are all
\* the app sent, in its order.
PipeFacts(cf) ==
    /\ \A i \in DOMAIN out : out[i] = i
    /\ work.pc # "idle" => work.id = Len(out) + 1
    /\ \A j \in DOMAIN inbox : inbox[j].id = Len(out) + Busy + j
    /\ \A p \in DOMAIN wire : IsRequest(p) => /\ Accepted < wire[p].id
                                            /\ wire[p].id <= asked.requests
    /\ \A p, q \in DOMAIN wire : IsRequest(p) /\ IsRequest(q) /\ p < q => wire[p].id < wire[q].id
    /\ \A n \in Nat : Accepted < n /\ n <= asked.requests =>
                         \E p \in DOMAIN wire : IsRequest(p) /\ wire[p].id = n
    /\ Accepted <= asked.requests /\ asked.requests <= cf.MaxRequests

\* What is not answered was relayed only when it is the worker's and done.
RelayFacts(cf) ==
    \A i \in Link(cf)!Ids :
        /\ relayed[i] <= 1
        /\ i > Len(out) => relayed[i] = 0 \/ (i = work.id /\ work.pc = "done")

Covered == subs \cup gapq \cup again

\* What is attached is subscribed on this connection, or still to be replayed;
\* what the worker resumed or created on it, until it says so, too.
SubFacts(cf) ==
    /\ up = "ready" => Range(attached) \subseteq Covered
    /\ up = "replay" => Range(attached) \subseteq Covered \cup Range(todo)
    /\ work.pc \in {"rpc", "done"} => work.conn <= conn /\ (work.conn = conn => up = "ready")
    /\ work.pc = "done" /\ work.conn = conn /\ work.method # "submit" =>
          work.target \in subs \cup gapq

\* A write is for a session the app may write.
WriteFacts(cf) ==
    /\ Link(cf)!WritesAllowed
    /\ work.pc # "idle" /\ work.method = "submit" =>
          /\ work.target \in cf.Sessions
          /\ work.target \in created \/ Link(cf)!MayWrite(work.target)

NewsFacts ==
    /\ up = "ready" => wasReady /\ told # "reconnecting"
    /\ up # "ready" /\ wasReady => told = "reconnecting"
    /\ ~wasReady => told = "none"

LinkInv(cf) ==
    /\ LinkTypes(cf) /\ PipeFacts(cf) /\ RelayFacts(cf) /\ SubFacts(cf) /\ WriteFacts(cf)
    /\ NewsFacts

\* The bridge's list operators are those of the lemmas on lists.
LEMMA LinkLists ==
  ASSUME NEW cf
  PROVE  /\ \A q : Link(cf)!Range(q) = Range(q)
         /\ \A q : Link(cf)!IsInjective(q) = IsInjective(q)
         /\ \A q, e : Link(cf)!Removed(q, e) = Removed(q, e)
  BY DEF Range, Link!Range, IsInjective, Link!IsInjective, RemovedAt, Link!RemovedAt, Removed,
     Link!Removed

LEMMA LinkImplies ==
  ASSUME NEW cf, Link(cf)!Shape, LinkInv(cf)
  PROVE  /\ Link(cf)!TypeOK /\ Link(cf)!AttachedIsSubscribed /\ Link(cf)!RelayedOnce
         /\ Link(cf)!WritesAllowed /\ Link(cf)!NewsIsTrue
  <1> USE DEF LinkInv, LinkTypes
  <1>1. Link(cf)!TypeOK
    <2>1. Range(attached) \subseteq cf.Sessions BY RangeOfSeq DEF Range
    <2>2. work.pc # "idle" => work.id \in Link(cf)!Ids
      <3>1. Len(out) \in Nat /\ Len(inbox) \in Nat BY LenProperties
      <3> QED BY <3>1, SMTT(40) DEF PipeFacts, Accepted, Busy, Link!Ids, Link!Shape, FrameOf
    <2>3. work.pc \in {"idle", "wait", "rpc", "done"}
      BY DEF FrameOf
    <2>4. /\ Len(inbox) <= cf.InboxBound /\ up \in {"down", "replay", "ready"}
          /\ told \in {"none", "ready", "reconnecting"} /\ IsInjective(attached)
          /\ created \cup subs \cup gapq \cup again \subseteq cf.Sessions
      OBVIOUS
    <2> QED BY ONLY LinkLists, <2>1, <2>2, <2>3, <2>4 DEF Link!TypeOK, Link!None
  <1>2. Link(cf)!AttachedIsSubscribed
    BY LinkLists DEF SubFacts, Covered, Link!AttachedIsSubscribed
  <1>3. Link(cf)!RelayedOnce BY DEF RelayFacts, PipeFacts, Link!RelayedOnce
  <1>4. Link(cf)!NewsIsTrue BY DEF NewsFacts, Link!NewsIsTrue
  <1> QED BY <1>1, <1>2, <1>3, <1>4 DEF WriteFacts

LEMMA LinkStarts ==
  ASSUME NEW cf, Link(cf)!Shape, Link(cf)!Init
  PROVE  LinkInv(cf)
  <1> USE DEF Link!Init, Link!Idle, Link!None, Link!Shape
  <1>1. LinkTypes(cf)
    <2>1. work \in FrameOf(cf) BY DEF FrameOf
    <2>2. asked \in [requests : Nat, liveness : Nat] /\ relayed \in [Link(cf)!Ids -> Nat] OBVIOUS
    <2>3. aliases \in [cf.Sessions -> cf.Sessions \cup {"none"}] OBVIOUS
    <2>4. IsInjective(attached) BY DEF IsInjective
    <2>5. /\ Len(inbox) <= cf.InboxBound /\ DOMAIN wire = {} /\ DOMAIN inbox = {}
      OBVIOUS
    <2> QED BY <2>1, <2>2, <2>3, <2>4, <2>5, EmptySeq DEF LinkTypes
  <1>2. PipeFacts(cf) BY DEF PipeFacts, Accepted, Busy, IsRequest
  <1>3. RelayFacts(cf) BY DEF RelayFacts
  <1>4. SubFacts(cf) /\ NewsFacts BY DEF SubFacts, NewsFacts, Covered
  <1>5. WriteFacts(cf) BY DEF WriteFacts, Link!WritesAllowed
  <1> QED BY <1>1, <1>2, <1>3, <1>4, <1>5 DEF LinkInv

\* Adding at the end, taking the head, and the list of attached sessions.
LEMMA HeadTailIs ==
  ASSUME NEW S, NEW q \in Seq(S), q # <<>>
  PROVE  /\ Head(q) = q[1] /\ 1 \in DOMAIN q /\ Head(q) \in S /\ Tail(q) \in Seq(S)
         /\ Len(Tail(q)) = Len(q) - 1 /\ DOMAIN Tail(q) = 1..(Len(q) - 1)
         /\ DOMAIN q = 1..Len(q) /\ Len(q) \in Nat /\ Len(q) >= 1
         /\ \A i \in DOMAIN Tail(q) : Tail(q)[i] = q[i + 1] /\ i + 1 \in DOMAIN q
         /\ \A i \in DOMAIN q : i = 1 \/ (i - 1 \in DOMAIN Tail(q) /\ Tail(q)[i - 1] = q[i])
  BY LenProperties, EmptySeq, HeadTailProperties

LEMMA AppendIs ==
  ASSUME NEW S, NEW q \in Seq(S), NEW e \in S
  PROVE  /\ Append(q, e) \in Seq(S) /\ Len(Append(q, e)) = Len(q) + 1 /\ Len(q) \in Nat
         /\ DOMAIN q = 1..Len(q) /\ DOMAIN Append(q, e) = 1..(Len(q) + 1)
         /\ \A i \in 1..Len(q) : Append(q, e)[i] = q[i]
         /\ Append(q, e)[Len(q) + 1] = e
  BY LenProperties, AppendProperties

LEMMA AddedIs ==
  ASSUME NEW S, NEW q \in Seq(S), IsInjective(q), NEW e \in S, e \notin Range(q)
  PROVE  /\ IsInjective(Append(q, e)) /\ Range(Append(q, e)) = Range(q) \cup {e}
  <1> DEFINE r == Append(q, e)
  <1>1. /\ Len(q) \in Nat /\ DOMAIN q = 1..Len(q) /\ DOMAIN r = 1..(Len(q) + 1)
        /\ \A i \in 1..Len(q) : r[i] = q[i]
        /\ r[Len(q) + 1] = e
    BY AppendIs
  <1> HIDE DEF r
  <1>2. \A i \in 1..Len(q) : q[i] # e BY <1>1 DEF Range
  <1>3. IsInjective(r) BY <1>1, <1>2 DEF IsInjective
  <1>4. Range(r) = Range(q) \cup {e}
    BY <1>1 DEF Range
  <1> QED BY <1>3, <1>4 DEF r

\* What the app and the upstream task do to the lists of the link.
LEMMA AttachedKept ==
  ASSUME NEW cf, LinkTypes(cf), [Link(cf)!Next]_(Link(cf)!vars)
  PROVE  /\ attached' \in Seq(cf.Sessions) /\ IsInjective(attached')
         /\ aliases' \in [cf.Sessions -> cf.Sessions \cup {"none"}]
         /\ todo' \in Seq(cf.Sessions)
         /\ created' \cup subs' \cup gapq' \cup again' \subseteq cf.Sessions
  <1> USE DEF LinkTypes, Link!None
  <1>1. ASSUME NEW s, Link(cf)!Drops(s)
        PROVE  attached' \in Seq(cf.Sessions) /\ IsInjective(attached')
    <2>1. attached \in Seq(cf.Sessions) /\ IsInjective(attached) OBVIOUS
    <2>2. Removed(attached, s) \in Seq(cf.Sessions) /\ IsInjective(Removed(attached, s))
      BY ONLY <2>1, RemovedIs
    <2> QED BY LinkLists, <1>1, <2>2 DEF Link!Drops
  <1>2. CASE Link(cf)!Answers
    <2> DEFINE t == work.target
    <2>1. CASE UNCHANGED Link(cf)!link BY <1>2, <2>1 DEF Link!Answers, Link!upstream, Link!link
    <2>2. CASE ~UNCHANGED Link(cf)!link
      <3>1. /\ work.method # "submit" /\ attached' = Link(cf)!Attaching(t)
            /\ aliases' = [aliases EXCEPT ![work.named] = IF work.method = "resume" THEN t ELSE @,
                                          ![t] = t]
            /\ created' = IF work.method = "create" THEN created \cup {t} ELSE created
            /\ UNCHANGED <<todo, subs, gapq, again>>
        BY <1>2, <2>2 DEF Link!Answers, Link!upstream
      <3>2. t \in cf.Sessions BY <1>2 DEF Link!Answers
      <3>3. attached' \in Seq(cf.Sessions) /\ IsInjective(attached')
        <4>1. attached \in Seq(cf.Sessions) /\ IsInjective(attached) OBVIOUS
        <4>2. t \notin Range(attached) => /\ Append(attached, t) \in Seq(cf.Sessions)
                                          /\ IsInjective(Append(attached, t))
          BY ONLY <3>2, <4>1, AddedIs, AppendIs
        <4> QED BY ONLY LinkLists, <3>1, <4>1, <4>2 DEF Link!Attaching
      <3>4. aliases' \in [cf.Sessions -> cf.Sessions \cup {"none"}]
        BY <3>1, <3>2
      <3> QED BY <3>1, <3>2, <3>3, <3>4
    <2> QED BY <2>1, <2>2
  <1>3. CASE Link(cf)!Dials
    BY <1>3 DEF Link!Dials, Link!Replayed, Link!link
  <1>4. CASE Link(cf)!Replays
    BY <1>4, HeadTailIs, <1>1 DEF Link!Replays, Link!link, Link!Drops
  <1>5. CASE Link(cf)!Drop
    BY <1>5, EmptySeq DEF Link!Drop, Link!link
  <1>6. ASSUME NEW s \in cf.Sessions, Link(cf)!PumpsGap(s) \/ Link(cf)!Revokes(s)
        PROVE  /\ UNCHANGED <<attached, aliases, created, todo>>
               /\ subs' \cup gapq' \cup again' \subseteq cf.Sessions
    BY <1>6 DEF Link!PumpsGap, Link!Revokes, Link!link, Link!upstream
  <1>7. ASSUME NEW s \in cf.Sessions, Link(cf)!ResumesAgain(s)
        PROVE  /\ attached' \in Seq(cf.Sessions) /\ IsInjective(attached')
               /\ UNCHANGED <<aliases, created, todo, gapq>>
               /\ subs' \cup again' \subseteq cf.Sessions
    BY <1>7, <1>1 DEF Link!ResumesAgain, Link!link, Link!Drops, Link!upstream
  <1>8. ASSUME NEW s \in cf.Sessions, Link(cf)!Handles(s)
        PROVE  UNCHANGED <<attached, aliases, created, todo, gapq, again>>
               /\ subs' \subseteq cf.Sessions
    BY <1>8 DEF Link!Handles, Link!link, Link!upstream
  <1>9. CASE UNCHANGED <<todo, attached, aliases, created, subs, gapq, again>>
    BY <1>9
  <1>10. \/ Link(cf)!Answers \/ Link(cf)!Dials \/ Link(cf)!Replays \/ Link(cf)!Drop
         \/ \E s \in cf.Sessions : Link(cf)!PumpsGap(s) \/ Link(cf)!Revokes(s)
         \/ \E s \in cf.Sessions : Link(cf)!ResumesAgain(s) \/ Link(cf)!Handles(s)
         \/ UNCHANGED <<todo, attached, aliases, created, subs, gapq, again>>
    BY DEF Link!Next, Link!Reader, Link!Worker, Link!Upstream, Link!vars, Link!link,
           Link!upstream, Link!AppAsks, Link!AppSends, Link!Reads, Link!LivenessAnswered,
           Link!Takes, Link!Gets, Link!GivesUp, Link!Fails, Link!Ready
  <1> QED BY <1>2, <1>3, <1>4, <1>5, <1>6, <1>7, <1>8, <1>9, <1>10

\* The frames of the app and the request of the worker.
LEMMA FramesKept ==
  ASSUME NEW cf, Link(cf)!Shape, LinkTypes(cf), [Link(cf)!Next]_(Link(cf)!vars)
  PROVE  /\ wire' \in Seq(FrameOf(cf)) /\ inbox' \in Seq(FrameOf(cf)) /\ work' \in FrameOf(cf)
         /\ Len(inbox') <= cf.InboxBound
         /\ asked' \in [requests : Nat, liveness : Nat]
         /\ (\A p \in DOMAIN wire : IsRequest(p) => wire[p].named \in cf.Sessions)'
         /\ (\A j \in DOMAIN inbox : inbox[j].named \in cf.Sessions)'
  <1> DEFINE Good == /\ wire' \in Seq(FrameOf(cf)) /\ inbox' \in Seq(FrameOf(cf))
                     /\ work' \in FrameOf(cf) /\ Len(inbox') <= cf.InboxBound
                     /\ asked' \in [requests : Nat, liveness : Nat]
                     /\ (\A p \in DOMAIN wire : IsRequest(p) => wire[p].named \in cf.Sessions)'
                     /\ (\A j \in DOMAIN inbox : inbox[j].named \in cf.Sessions)'
  <1> USE DEF LinkTypes, IsRequest
  <1>0. Link(cf)!Idle \in FrameOf(cf) BY DEF Link!Idle, Link!None, FrameOf
  <1>1. ASSUME NEW e \in FrameOf(cf), wire' = Append(wire, e), UNCHANGED <<inbox, work>>,
               e.method # "liveness" => e.named \in cf.Sessions,
               asked' \in [requests : Nat, liveness : Nat]
        PROVE  Good
    BY <1>1, AppendIs
  <1>2. ASSUME NEW m \in cf.Methods, NEW s \in cf.Sessions, Link(cf)!AppSends(m, s)
        PROVE  Good
    <2> DEFINE e == [Link(cf)!Idle EXCEPT !.id = asked'.requests, !.method = m, !.named = s]
    <2>1. asked' \in [requests : Nat, liveness : Nat] /\ asked'.requests \in Nat
      <3>1. asked \in [requests : Nat, liveness : Nat] OBVIOUS
      <3>2. asked' = [asked EXCEPT !.requests = @ + 1] BY <1>2 DEF Link!AppSends
      <3> QED BY ONLY <3>1, <3>2
    <2>2. e \in FrameOf(cf) /\ e.named = s
      BY <2>1 DEF Link!Idle, Link!None, FrameOf
    <2>3. wire' = Append(wire, e) /\ UNCHANGED <<inbox, work>> BY <1>2 DEF Link!AppSends
    <2> HIDE DEF e
    <2> QED BY <1>1, <2>1, <2>2, <2>3
  <1>3. CASE Link(cf)!AppAsks
    <2> DEFINE e == [Link(cf)!Idle EXCEPT !.method = "liveness"]
    <2>1. asked' \in [requests : Nat, liveness : Nat]
      <3>1. asked \in [requests : Nat, liveness : Nat] OBVIOUS
      <3>2. asked' = [asked EXCEPT !.liveness = @ + 1] BY <1>3 DEF Link!AppAsks
      <3> QED BY ONLY <3>1, <3>2
    <2>2. e \in FrameOf(cf) /\ e.method = "liveness"
      BY DEF Link!Idle, Link!None, FrameOf
    <2>3. wire' = Append(wire, e) /\ UNCHANGED <<inbox, work>> BY <1>3 DEF Link!AppAsks
    <2> HIDE DEF e
    <2> QED BY <1>1, <2>1, <2>2, <2>3
  <1>4. CASE Link(cf)!Reads
    <2>1. /\ wire # <<>> /\ wire' = Tail(wire) /\ UNCHANGED <<asked, work>>
          /\ \/ UNCHANGED inbox
             \/ /\ Head(wire).method # "liveness" /\ Len(inbox) < cf.InboxBound
                /\ inbox' = Append(inbox, Head(wire))
      BY <1>4 DEF Link!Reads, Link!Aside
    <2>2. /\ Head(wire) = wire[1] /\ 1 \in DOMAIN wire /\ Head(wire) \in FrameOf(cf)
          /\ wire' \in Seq(FrameOf(cf))
          /\ \A i \in DOMAIN wire' : wire'[i] = wire[i + 1] /\ i + 1 \in DOMAIN wire
      BY <2>1, HeadTailIs
    <2>3. \A p \in DOMAIN wire' : wire'[p].method # "liveness" => wire'[p].named \in cf.Sessions
      BY <2>2
    <2>4. CASE UNCHANGED inbox BY <2>1, <2>2, <2>3, <2>4
    <2>5. CASE /\ Head(wire).method # "liveness" /\ Len(inbox) < cf.InboxBound
               /\ inbox' = Append(inbox, Head(wire))
      <3> DEFINE e == Head(wire)
      <3>1. e \in FrameOf(cf) /\ e.named \in cf.Sessions BY <2>2, <2>5
      <3> HIDE DEF e
      <3>2. /\ inbox' \in Seq(FrameOf(cf)) /\ Len(inbox') = Len(inbox) + 1 /\ Len(inbox) \in Nat
            /\ DOMAIN inbox = 1..Len(inbox) /\ DOMAIN inbox' = 1..(Len(inbox) + 1)
            /\ \A i \in 1..Len(inbox) : inbox'[i] = inbox[i]
            /\ inbox'[Len(inbox) + 1] = e
        BY <2>5, <3>1, AppendIs DEF e
      <3>3. \A j \in DOMAIN inbox' : inbox'[j].named \in cf.Sessions
        <4>1. \A j \in DOMAIN inbox : inbox[j].named \in cf.Sessions OBVIOUS
        <4> QED BY ONLY <3>1, <3>2, <4>1
      <3>4. Len(inbox') <= cf.InboxBound BY <2>5, <3>2 DEF Link!Shape
      <3> QED BY <2>1, <2>2, <2>3, <3>2, <3>3, <3>4
    <2> QED BY <2>1, <2>4, <2>5
  <1>5. CASE Link(cf)!Takes
    <2>1. /\ inbox # <<>> /\ inbox' = Tail(inbox) /\ UNCHANGED <<wire, asked>>
      BY <1>5 DEF Link!Takes
    <2>2. /\ Head(inbox) = inbox[1] /\ 1 \in DOMAIN inbox /\ Head(inbox) \in FrameOf(cf)
          /\ inbox' \in Seq(FrameOf(cf)) /\ Len(inbox') = Len(inbox) - 1 /\ Len(inbox) \in Nat
          /\ \A i \in DOMAIN inbox' : inbox'[i] = inbox[i + 1] /\ i + 1 \in DOMAIN inbox
      BY <2>1, HeadTailIs
    <2>3. \A j \in DOMAIN inbox' : inbox'[j].named \in cf.Sessions BY <2>2
    <2>4. Len(inbox') <= cf.InboxBound BY <2>2 DEF Link!Shape
    <2>5. work' \in FrameOf(cf)
      <3> DEFINE frame == Head(inbox)
                 target == IF frame.method = "submit" THEN aliases[frame.named] ELSE frame.named
      <3>1. work' = Link(cf)!Idle \/ work' = [frame EXCEPT !.pc = "wait", !.target = target]
        BY <1>5 DEF Link!Takes, Link!Reply
      <3>2. target \in cf.Sessions \cup {"none"} BY <2>2
      <3>3. frame \in FrameOf(cf) BY <2>2
      <3> HIDE DEF target, frame
      <3>4. [frame EXCEPT !.pc = "wait", !.target = target] \in FrameOf(cf)
        BY ONLY <3>2, <3>3 DEF FrameOf
      <3> QED BY <1>0, <3>1, <3>4
    <2> QED BY <2>1, <2>2, <2>3, <2>4, <2>5
  <1>6. ASSUME work' \in FrameOf(cf), UNCHANGED <<wire, inbox, asked>>
        PROVE  Good
    BY <1>6
  <1>7. ASSUME Link(cf)!Gets \/ \E t \in cf.Sessions : Link(cf)!Handles(t)
        PROVE  work' \in FrameOf(cf) /\ UNCHANGED <<wire, inbox, asked>>
    <2>1. CASE Link(cf)!Gets
      BY <2>1 DEF Link!Gets, FrameOf
    <2>2. ASSUME NEW t \in cf.Sessions, Link(cf)!Handles(t)
          PROVE  work' \in FrameOf(cf) /\ UNCHANGED <<wire, inbox, asked>>
      BY <2>2, t \in cf.Sessions DEF Link!Handles, FrameOf
    <2> QED BY <1>7, <2>1, <2>2
  <1>8. \/ Link(cf)!AppAsks \/ \E m \in cf.Methods, s \in cf.Sessions : Link(cf)!AppSends(m, s)
        \/ Link(cf)!Reads \/ Link(cf)!Takes
        \/ Link(cf)!Gets \/ \E t \in cf.Sessions : Link(cf)!Handles(t)
        \/ work' = Link(cf)!Idle /\ UNCHANGED <<wire, inbox, asked>>
        \/ UNCHANGED <<wire, inbox, asked, work>>
    BY DEF Link!Next, Link!Reader, Link!Worker, Link!Upstream, Link!vars, Link!Reply,
           Link!LivenessAnswered, Link!GivesUp, Link!Answers, Link!Fails, Link!Unknown,
           Link!Dials, Link!Replays, Link!Ready, Link!Drop, Link!Revokes, Link!PumpsGap,
           Link!ResumesAgain
  <1>9. Good
    BY <1>0, <1>2, <1>3, <1>4, <1>5, <1>6, <1>7, <1>8
  <1> QED BY <1>9

LEMMA LinkTypesKept ==
  ASSUME NEW cf, Link(cf)!Shape, LinkTypes(cf), PipeFacts(cf), [Link(cf)!Next]_(Link(cf)!vars)
  PROVE  LinkTypes(cf)'
  <1>1. out' \in Seq(Nat)
    <2>1. Link(cf)!Takes => Head(inbox).id \in Nat
      <3>1. Link(cf)!Takes => Head(inbox) \in FrameOf(cf)
        BY HeadTailIs DEF LinkTypes, Link!Takes
      <3> QED BY <3>1 DEF FrameOf
    <2>2. work.id \in Nat
      BY DEF LinkTypes, FrameOf
    <2>3. \/ out' = out \/ out' = Append(out, work.id)
          \/ Link(cf)!Takes /\ out' = Append(out, Head(inbox).id)
      BY DEF Link!Next, Link!Reader, Link!Worker, Link!Upstream, Link!vars, Link!Reply,
             Link!LivenessAnswered, Link!GivesUp, Link!Answers, Link!Fails, Link!Unknown,
             Link!Dials, Link!Replays, Link!Ready, Link!Drop, Link!Revokes, Link!PumpsGap,
             Link!ResumesAgain, Link!AppAsks, Link!AppSends, Link!Reads, Link!Takes,
             Link!Gets, Link!Handles
    <2>4. out \in Seq(Nat) BY DEF LinkTypes
    <2>5. \A e \in Nat : Append(out, e) \in Seq(Nat) BY <2>4, AppendIs
    <2> QED BY ONLY <2>1, <2>2, <2>3, <2>4, <2>5
  <1>2. /\ relayed' \in [Link(cf)!Ids -> Nat] /\ conn' \in Nat
        /\ up' \in {"down", "replay", "ready"} /\ wasReady' \in BOOLEAN
        /\ told' \in {"none", "ready", "reconnecting"}
    <2>1. ASSUME NEW t \in cf.Sessions, Link(cf)!Handles(t)
          PROVE  relayed' \in [Link(cf)!Ids -> Nat]
      <3>1. relayed \in [Link(cf)!Ids -> Nat] BY DEF LinkTypes
      <3>2. relayed' = [relayed EXCEPT ![work.id] = @ + 1] BY <2>1 DEF Link!Handles
      <3> DEFINE i == work.id
      <3> HIDE DEF i
      <3>3. CASE i \in Link(cf)!Ids
        BY <3>1, <3>3, <3>2 DEF i
      <3>4. CASE i \notin Link(cf)!Ids
        BY <3>1, <3>2, <3>4 DEF i
      <3> QED BY <3>3, <3>4
    <2>2. UNCHANGED relayed \/ \E t \in cf.Sessions : Link(cf)!Handles(t)
      BY DEF Link!Next, Link!Reader, Link!Worker, Link!Upstream, Link!vars,
             Link!LivenessAnswered, Link!GivesUp, Link!Answers, Link!Fails, Link!Dials,
             Link!Replays, Link!Ready, Link!Drop, Link!Revokes, Link!PumpsGap,
             Link!ResumesAgain, Link!AppAsks, Link!AppSends, Link!Reads, Link!Takes, Link!Gets
    <2>3. \/ UNCHANGED <<up, conn, told, wasReady>>
          \/ up' = "replay" /\ UNCHANGED <<conn, told, wasReady>>
          \/ up' = "ready" /\ wasReady' = TRUE /\ told' \in {"ready", told} /\ UNCHANGED conn
          \/ up' = "down" /\ conn' = conn + 1 /\ told' \in {"reconnecting", told}
             /\ UNCHANGED wasReady
      BY DEF Link!Next, Link!Reader, Link!Worker, Link!Upstream, Link!vars, Link!upstream,
             Link!LivenessAnswered, Link!GivesUp, Link!Answers, Link!Fails, Link!Dials,
             Link!Replays, Link!Ready, Link!Drop, Link!Revokes, Link!PumpsGap, Link!Reported,
             Link!ResumesAgain, Link!AppAsks, Link!AppSends, Link!Reads, Link!Takes,
             Link!Gets, Link!Handles
    <2>4. relayed' \in [Link(cf)!Ids -> Nat] BY <2>1, <2>2 DEF LinkTypes
    <2>5. /\ up \in {"down", "replay", "ready"} /\ conn \in Nat /\ wasReady \in BOOLEAN
          /\ told \in {"none", "ready", "reconnecting"}
      BY DEF LinkTypes
    <2>6. wasReady' \in BOOLEAN BY ONLY <2>3, <2>5
    <2>7. conn' \in Nat BY ONLY <2>3, <2>5
    <2>8. up' \in {"down", "replay", "ready"} /\ told' \in {"none", "ready", "reconnecting"}
      BY ONLY <2>3, <2>5
    <2> QED BY <2>4, <2>6, <2>7, <2>8
  <1>3. (work.pc = "done" => work.target \in cf.Sessions)'
    <2>1. ASSUME NEW t \in cf.Sessions, Link(cf)!Handles(t) PROVE work'.target = t
      BY <2>1 DEF Link!Handles, LinkTypes, FrameOf
    <2>2. \/ UNCHANGED work \/ work'.pc # "done" \/ \E t \in cf.Sessions : Link(cf)!Handles(t)
      <3>1. /\ \A v : \A f \in FrameOf(cf) : [f EXCEPT !.pc = "wait", !.target = v].pc = "wait"
            /\ \A v : \A f \in FrameOf(cf) : [f EXCEPT !.pc = "rpc", !.conn = v].pc = "rpc"
            /\ Link(cf)!Idle.pc = "idle"
        BY DEF FrameOf, Link!Idle
      <3>2. Link(cf)!Takes => work'.pc # "done"
        <4>1. Link(cf)!Takes => Head(inbox) \in FrameOf(cf)
          BY HeadTailIs DEF LinkTypes, Link!Takes
        <4>2. Link(cf)!Takes =>
                \/ work' = Link(cf)!Idle
                \/ \E v : work' = [Head(inbox) EXCEPT !.pc = "wait", !.target = v]
          BY DEF Link!Takes, Link!Reply
        <4> QED BY ONLY <3>1, <4>1, <4>2
      <3>3. Link(cf)!Gets => work'.pc # "done" BY <3>1 DEF Link!Gets, LinkTypes
      <3> QED
        BY <3>1, <3>2, <3>3
        DEF Link!Next, Link!Reader, Link!Worker, Link!Upstream, Link!vars, Link!Reply,
            Link!LivenessAnswered, Link!GivesUp, Link!Answers, Link!Fails, Link!Unknown,
            Link!Dials, Link!Replays, Link!Ready, Link!Drop, Link!Revokes, Link!PumpsGap,
            Link!ResumesAgain, Link!AppAsks, Link!AppSends, Link!Reads
    <2> QED BY <2>1, <2>2 DEF LinkTypes
  <1>4. /\ attached' \in Seq(cf.Sessions) /\ IsInjective(attached')
        /\ aliases' \in [cf.Sessions -> cf.Sessions \cup {"none"}]
        /\ todo' \in Seq(cf.Sessions)
        /\ created' \cup subs' \cup gapq' \cup again' \subseteq cf.Sessions
    BY AttachedKept
  <1>5. /\ wire' \in Seq(FrameOf(cf)) /\ inbox' \in Seq(FrameOf(cf)) /\ work' \in FrameOf(cf)
        /\ Len(inbox') <= cf.InboxBound
        /\ asked' \in [requests : Nat, liveness : Nat]
        /\ (\A p \in DOMAIN wire : IsRequest(p) => wire[p].named \in cf.Sessions)'
        /\ (\A j \in DOMAIN inbox : inbox[j].named \in cf.Sessions)'
    BY FramesKept
  <1> QED BY <1>1, <1>2, <1>3, <1>4, <1>5 DEF LinkTypes

\* What a step of the worker is: it takes a frame, it moves on with its
\* request, it answers it, or it rests.
LEMMA WorkerMoves ==
  ASSUME NEW cf, LinkTypes(cf), [Link(cf)!Next]_(Link(cf)!vars)
  PROVE  \/ Link(cf)!Takes
         \/ /\ work.pc = "wait" /\ work'.pc = "rpc" /\ work'.id = work.id /\ up = "ready"
            /\ work'.conn = conn /\ work'.method = work.method /\ work'.target = work.target
            /\ UNCHANGED <<wire, asked, inbox, out, relayed, wrote, Link(cf)!upstream,
                           Link(cf)!link, subs, gapq, again>>
         \/ /\ work.pc = "rpc" /\ work'.pc = "done" /\ work'.id = work.id
            /\ work.conn = conn /\ work'.conn = conn /\ work'.method = work.method
            /\ relayed' = [relayed EXCEPT ![work.id] = @ + 1]
            /\ \E t \in cf.Sessions : Link(cf)!Handles(t) /\ work'.target = t
            /\ UNCHANGED <<wire, asked, inbox, out>>
         \/ /\ work.pc # "idle" /\ work' = Link(cf)!Idle /\ out' = Append(out, work.id)
            /\ UNCHANGED <<wire, asked, inbox, relayed, wrote>>
         \/ UNCHANGED <<work, out, relayed, wrote>> /\ ~Link(cf)!Takes
  <1>0. work \in FrameOf(cf) /\ conn \in Nat BY DEF LinkTypes
  <1>1. CASE Link(cf)!Gets
    BY <1>1, <1>0 DEF Link!Gets, FrameOf
  <1>2. ASSUME NEW t \in cf.Sessions, Link(cf)!Handles(t)
        PROVE  /\ work.pc = "rpc" /\ work'.pc = "done" /\ work'.id = work.id
               /\ work.conn = conn /\ work'.conn = conn /\ work'.method = work.method
               /\ relayed' = [relayed EXCEPT ![work.id] = @ + 1] /\ work'.target = t
               /\ UNCHANGED <<wire, asked, inbox, out>>
    BY <1>2, <1>0 DEF Link!Handles, FrameOf
  <1>3. CASE Link(cf)!GivesUp \/ Link(cf)!Answers \/ Link(cf)!Fails
    BY <1>3 DEF Link!GivesUp, Link!Answers, Link!Fails, Link!Unknown, Link!Reply
  <1>4. \/ UNCHANGED <<work, out, relayed, wrote>> \/ Link(cf)!Takes \/ Link(cf)!Gets
        \/ \E t \in cf.Sessions : Link(cf)!Handles(t)
        \/ Link(cf)!GivesUp \/ Link(cf)!Answers \/ Link(cf)!Fails
    BY DEF Link!Next, Link!Reader, Link!Worker, Link!Upstream, Link!vars,
           Link!LivenessAnswered, Link!Dials, Link!Replays, Link!Ready, Link!Drop,
           Link!Revokes, Link!PumpsGap, Link!ResumesAgain, Link!AppAsks, Link!AppSends,
           Link!Reads
  <1> QED BY <1>1, <1>2, <1>3, <1>4

LEMMA PipeKept ==
  ASSUME NEW cf, Link(cf)!Shape, LinkTypes(cf), PipeFacts(cf), [Link(cf)!Next]_(Link(cf)!vars)
  PROVE  PipeFacts(cf)'
  <1>0. /\ wire \in Seq(FrameOf(cf)) /\ inbox \in Seq(FrameOf(cf)) /\ out \in Seq(Nat)
        /\ Len(out) \in Nat /\ Len(inbox) \in Nat /\ asked.requests \in Nat
        /\ DOMAIN out = 1..Len(out) /\ DOMAIN inbox = 1..Len(inbox)
        /\ work \in FrameOf(cf) /\ cf.MaxRequests \in Nat
    BY LenProperties DEF LinkTypes, Link!Shape
  <1>1. ASSUME NEW e \in FrameOf(cf), wire' = Append(wire, e), UNCHANGED <<inbox, work, out>>,
               \/ /\ e.method = "liveness" /\ UNCHANGED asked.requests
               \/ /\ e.id = asked.requests + 1 /\ asked'.requests = asked.requests + 1
                  /\ e.method # "liveness" /\ asked.requests < cf.MaxRequests
        PROVE  PipeFacts(cf)'
    <2>1. /\ DOMAIN wire' = 1..(Len(wire) + 1)
          /\ Len(wire) \in Nat /\ DOMAIN wire = 1..Len(wire)
          /\ \A i \in 1..Len(wire) : wire'[i] = wire[i] /\ wire[i].id \in Nat
          /\ wire'[Len(wire) + 1] = e /\ Len(wire) + 1 \in DOMAIN wire'
      <3>1. \A i \in 1..Len(wire) : wire[i] \in FrameOf(cf) BY <1>0, ElementOfSeq
      <3>2. \A i \in 1..Len(wire) : wire[i].id \in Nat BY ONLY <3>1 DEF FrameOf
      <3>3. wire \in Seq(FrameOf(cf)) /\ wire' = Append(wire, e) BY <1>0, <1>1
      <3>4. /\ Len(wire) \in Nat /\ DOMAIN wire = 1..Len(wire)
            /\ DOMAIN wire' = 1..(Len(wire) + 1)
            /\ \A i \in 1..Len(wire) : wire'[i] = wire[i]
            /\ wire'[Len(wire) + 1] = e
        BY ONLY <3>3, AppendIs, e \in FrameOf(cf)
      <3> QED BY ONLY <3>2, <3>4
    <2>2. Accepted' = Accepted /\ Accepted \in Nat BY <1>0, <1>1 DEF Accepted, Busy
    <2>3. /\ (\A i \in DOMAIN out : out[i] = i)' /\ (work.pc # "idle" => work.id = Len(out) + 1)'
          /\ (\A j \in DOMAIN inbox : inbox[j].id = Len(out) + Busy + j)'
      BY <1>1 DEF PipeFacts, Busy
    <2>4. \A p \in DOMAIN wire' : IsRequest(p)' =>
             Accepted < wire'[p].id /\ wire'[p].id <= asked'.requests
      BY <1>0, <1>1, <2>1, <2>2 DEF PipeFacts, IsRequest
    <2>5. \A p, q \in DOMAIN wire' : IsRequest(p)' /\ IsRequest(q)' /\ p < q =>
             wire'[p].id < wire'[q].id
      BY <1>0, <1>1, <2>1 DEF PipeFacts, IsRequest
    <2>6. \A n \in Nat : Accepted < n /\ n <= asked'.requests =>
             \E p \in DOMAIN wire' : IsRequest(p)' /\ wire'[p].id = n
      <3> SUFFICES ASSUME NEW n \in Nat, Accepted < n, n <= asked'.requests
                   PROVE  \E p \in DOMAIN wire' : IsRequest(p)' /\ wire'[p].id = n
        OBVIOUS
      <3>1. CASE n <= asked.requests
        <4>1. PICK p \in DOMAIN wire : IsRequest(p) /\ wire[p].id = n
          BY <3>1 DEF PipeFacts
        <4> QED BY <2>1, <4>1 DEF IsRequest
      <3>2. CASE n = asked.requests + 1 BY <1>0, <1>1, <2>1, <3>2 DEF IsRequest
      <3>3. n <= asked.requests \/ n = asked.requests + 1
        BY <1>1, n \in Nat, n <= asked'.requests, <1>0
      <3> QED BY <3>1, <3>2, <3>3
    <2>7. Accepted <= asked'.requests /\ asked'.requests <= cf.MaxRequests
      BY <1>0, <1>1, <2>2 DEF PipeFacts
    <2> QED BY <2>2, <2>3, <2>4, <2>5, <2>6, <2>7 DEF PipeFacts
  <1>2. ASSUME NEW m \in cf.Methods, NEW s \in cf.Sessions, Link(cf)!AppSends(m, s)
        PROVE  PipeFacts(cf)'
    <2> DEFINE e == [Link(cf)!Idle EXCEPT !.id = asked'.requests, !.method = m, !.named = s]
    <2>1. asked'.requests = asked.requests + 1
      BY <1>2 DEF LinkTypes, Link!AppSends
    <2>2. e \in FrameOf(cf) /\ e.id = asked'.requests /\ e.method = m
      <3>1. asked'.requests \in Nat BY <1>0, <2>1
      <3>2. \A n \in Nat : LET f == [Link(cf)!Idle EXCEPT !.id = n, !.method = m, !.named = s]
                          IN f \in FrameOf(cf) /\ f.id = n /\ f.method = m
        BY DEF Link!Idle, Link!None, FrameOf
      <3> QED BY <3>1, <3>2
    <2>3. /\ wire' = Append(wire, e) /\ UNCHANGED <<inbox, work, out>>
          /\ asked.requests < cf.MaxRequests
      BY <1>2 DEF Link!AppSends
    <2>4. m # "liveness" BY DEF Link!Shape
    <2> HIDE DEF e
    <2> QED BY <1>1, <2>1, <2>2, <2>3, <2>4
  <1>3. CASE Link(cf)!AppAsks
    <2> DEFINE e == [Link(cf)!Idle EXCEPT !.method = "liveness"]
    <2>1. asked'.requests = asked.requests
      BY <1>3 DEF LinkTypes, Link!AppAsks
    <2>2. e \in FrameOf(cf) /\ e.method = "liveness"
      BY DEF Link!Idle, Link!None, FrameOf
    <2>3. wire' = Append(wire, e) /\ UNCHANGED <<inbox, work, out>> BY <1>3 DEF Link!AppAsks
    <2> HIDE DEF e
    <2> QED BY <1>1, <2>1, <2>2, <2>3
  <1>4. CASE Link(cf)!Reads
    <2>1. /\ wire # <<>> /\ wire' = Tail(wire) /\ UNCHANGED <<asked, work, out>>
          /\ \/ Head(wire).method = "liveness" /\ UNCHANGED inbox
             \/ /\ Head(wire).method # "liveness" /\ inbox' = Append(inbox, Head(wire))
      BY <1>4 DEF Link!Reads, Link!Aside
    <2>2. /\ Head(wire) = wire[1] /\ 1 \in DOMAIN wire /\ Head(wire) \in FrameOf(cf)
          /\ DOMAIN wire = 1..Len(wire) /\ DOMAIN wire' = 1..(Len(wire) - 1)
          /\ Len(wire) \in Nat
          /\ \A i \in DOMAIN wire' : wire'[i] = wire[i + 1] /\ i + 1 \in DOMAIN wire
          /\ \A i \in DOMAIN wire : i = 1 \/ (i - 1 \in DOMAIN wire' /\ wire'[i - 1] = wire[i])
      BY <1>0, <2>1, HeadTailIs
    <2>3. \A i \in DOMAIN wire : wire[i].id \in Nat
      <3>1. \A i \in DOMAIN wire : wire[i] \in FrameOf(cf) BY <1>0, <2>2, ElementOfSeq
      <3> QED BY ONLY <3>1 DEF FrameOf
    <2>4. \A p, q \in DOMAIN wire' : IsRequest(p)' /\ IsRequest(q)' /\ p < q =>
             wire'[p].id < wire'[q].id
      BY <2>2 DEF PipeFacts, IsRequest
    <2>5. \A p \in DOMAIN wire' : IsRequest(p)' =>
             /\ Accepted < wire'[p].id /\ wire'[p].id <= asked'.requests
             /\ IsRequest(1) => wire[1].id < wire'[p].id
      BY <2>1, <2>2, SMTT(40) DEF PipeFacts, IsRequest
    <2>6. CASE Head(wire).method = "liveness" /\ UNCHANGED inbox
      <3>1. Accepted' = Accepted BY <2>1, <2>6 DEF Accepted, Busy
      <3>2. \A n \in Nat : Accepted < n /\ n <= asked.requests =>
               \E p \in DOMAIN wire' : IsRequest(p)' /\ wire'[p].id = n
        <4> SUFFICES ASSUME NEW n \in Nat, Accepted < n, n <= asked.requests
                     PROVE  \E p \in DOMAIN wire' : IsRequest(p)' /\ wire'[p].id = n
          OBVIOUS
        <4>1. PICK p \in DOMAIN wire : IsRequest(p) /\ wire[p].id = n BY DEF PipeFacts
        <4>2. p # 1 BY <2>2, <2>6, <4>1 DEF IsRequest
        <4> QED BY <2>2, <4>1, <4>2 DEF IsRequest
      <3>3. /\ (\A i \in DOMAIN out : out[i] = i)' /\ (work.pc # "idle" => work.id = Len(out) + 1)'
            /\ (\A j \in DOMAIN inbox : inbox[j].id = Len(out) + Busy + j)'
            /\ Accepted <= asked'.requests /\ asked'.requests <= cf.MaxRequests
        BY <2>1, <2>6 DEF PipeFacts, Busy
      <3> QED BY <2>1, <2>4, <2>5, <3>1, <3>2, <3>3 DEF PipeFacts
    <2>7. CASE Head(wire).method # "liveness" /\ inbox' = Append(inbox, Head(wire))
      <3> DEFINE e == Head(wire)
      <3>1. /\ DOMAIN inbox' = 1..(Len(inbox) + 1) /\ Len(inbox') = Len(inbox) + 1
            /\ \A i \in 1..Len(inbox) : inbox'[i] = inbox[i]
            /\ inbox'[Len(inbox) + 1] = e
        BY <1>0, <2>2, <2>7, AppendIs
      <3>2. Accepted' = Accepted + 1 /\ Accepted \in Nat /\ Busy \in Nat /\ Busy' = Busy
        <4>1. Busy \in Nat /\ Busy' = Busy BY <2>1 DEF Busy
        <4> QED BY <1>0, <2>1, <3>1, <4>1 DEF Accepted
      <3>3. IsRequest(1) BY <2>2, <2>7 DEF IsRequest
      <3>4. wire[1].id = Accepted + 1
        <4>1. Accepted < wire[1].id /\ wire[1].id <= asked.requests
          BY <2>2, <3>3 DEF PipeFacts
        <4>2. PICK p \in DOMAIN wire : IsRequest(p) /\ wire[p].id = Accepted + 1
          <5>1. Accepted + 1 \in Nat /\ Accepted < Accepted + 1 /\ Accepted + 1 <= asked.requests
            BY <2>2, <2>3, <3>2, <1>0, <4>1
          <5> QED BY <5>1 DEF PipeFacts
        <4>3. p = 1
          <5> SUFFICES ASSUME 1 < p PROVE FALSE BY <2>2
          <5>1. wire[1].id < wire[p].id BY <2>2, <3>3, <4>2 DEF PipeFacts
          <5> QED BY <2>2, <2>3, <3>2, <4>1, <4>2, <5>1
        <4> QED BY <4>2, <4>3
      <3>5. \A p \in DOMAIN wire' : IsRequest(p)' =>
               Accepted' < wire'[p].id /\ wire'[p].id <= asked'.requests
        BY <2>2, <2>3, <2>5, <3>2, <3>3, <3>4
      <3>6. \A n \in Nat : Accepted' < n /\ n <= asked.requests =>
               \E p \in DOMAIN wire' : IsRequest(p)' /\ wire'[p].id = n
        <4> SUFFICES ASSUME NEW n \in Nat, Accepted' < n, n <= asked.requests
                     PROVE  \E p \in DOMAIN wire' : IsRequest(p)' /\ wire'[p].id = n
          OBVIOUS
        <4>1. PICK p \in DOMAIN wire : IsRequest(p) /\ wire[p].id = n
          BY <3>2 DEF PipeFacts
        <4>2. p # 1 BY <3>2, <3>4, <4>1
        <4> QED BY <2>2, <4>1, <4>2 DEF IsRequest
      <3>7. (\A j \in DOMAIN inbox : inbox[j].id = Len(out) + Busy + j)'
        <4>1. e.id = Len(out) + Busy + (Len(inbox) + 1)
          BY <1>0, <2>2, <3>2, <3>4 DEF Accepted
        <4>2. ASSUME NEW j \in 1..(Len(inbox) + 1) PROVE inbox'[j].id = Len(out) + Busy + j
          <5>1. CASE j \in 1..Len(inbox) BY <1>0, <3>1, <5>1 DEF PipeFacts
          <5>2. CASE j = Len(inbox) + 1 BY <3>1, <4>1, <5>2
          <5> QED BY <1>0, <5>1, <5>2
        <4> QED BY <2>1, <3>1, <3>2, <4>2
      <3>8. /\ (\A i \in DOMAIN out : out[i] = i)' /\ (work.pc # "idle" => work.id = Len(out) + 1)'
            /\ asked'.requests <= cf.MaxRequests
        BY <2>1 DEF PipeFacts
      <3>9. Accepted' <= asked'.requests
        BY <2>2, <3>3, <2>1, <3>2, <3>4 DEF PipeFacts
      <3> QED BY <2>1, <2>4, <3>5, <3>6, <3>7, <3>8, <3>9 DEF PipeFacts
    <2> QED BY <2>1, <2>6, <2>7
  <1>5. ASSUME UNCHANGED <<wire, asked>>, Accepted' = Accepted,
               (\A i \in DOMAIN out : out[i] = i)', (work.pc # "idle" => work.id = Len(out) + 1)',
               (\A j \in DOMAIN inbox : inbox[j].id = Len(out) + Busy + j)'
        PROVE  PipeFacts(cf)'
    BY <1>5 DEF PipeFacts, IsRequest
  <1>6. CASE Link(cf)!Takes
    <2>1. /\ work.pc = "idle" /\ inbox # <<>> /\ inbox' = Tail(inbox) /\ UNCHANGED <<wire, asked>>
      BY <1>6 DEF Link!Takes
    <2>2. /\ Head(inbox) = inbox[1] /\ 1 \in DOMAIN inbox /\ Head(inbox) \in FrameOf(cf)
          /\ Len(inbox') = Len(inbox) - 1
          /\ \A i \in DOMAIN inbox' : inbox'[i] = inbox[i + 1] /\ i + 1 \in DOMAIN inbox
          /\ DOMAIN inbox' = 1..(Len(inbox) - 1)
      BY <1>0, <2>1, HeadTailIs
    <2>3. Busy = 0 BY <2>1 DEF Busy
    <2>4. Head(inbox).id = Len(out) + 1
      BY <2>2, <1>0, <2>3 DEF PipeFacts
    <2>5. CASE work'.pc = "wait" /\ work'.id = Head(inbox).id /\ UNCHANGED out
      <3>1. Busy' = 1 BY <2>5 DEF Busy
      <3>2. Accepted' = Accepted BY <1>0, <2>2, <2>3, <2>5, <3>1 DEF Accepted
      <3>3. (\A j \in DOMAIN inbox : inbox[j].id = Len(out) + Busy + j)'
        BY <1>0, <2>2, <2>3, <2>5, <3>1 DEF PipeFacts
      <3>4. (\A i \in DOMAIN out : out[i] = i)' /\ (work.pc # "idle" => work.id = Len(out) + 1)'
        BY <2>4, <2>5 DEF PipeFacts
      <3> QED BY <1>5, <2>1, <3>2, <3>3, <3>4
    <2>6. CASE work'.pc = "idle" /\ out' = Append(out, Head(inbox).id)
      <3>1. Busy' = 0 BY <2>6 DEF Busy
      <3>2. /\ Len(out') = Len(out) + 1 /\ DOMAIN out' = 1..(Len(out) + 1)
            /\ \A i \in 1..Len(out) : out'[i] = out[i]
            /\ out'[Len(out) + 1] = Len(out) + 1
        BY <1>0, <2>4, <2>6, AppendIs
      <3>3. Accepted' = Accepted BY <1>0, <2>2, <2>3, <3>1, <3>2 DEF Accepted
      <3>4. (\A j \in DOMAIN inbox : inbox[j].id = Len(out) + Busy + j)'
        BY <1>0, <2>2, <2>3, <3>1, <3>2 DEF PipeFacts
      <3>5. (\A i \in DOMAIN out : out[i] = i)' /\ (work.pc # "idle" => work.id = Len(out) + 1)'
        BY <1>0, <2>6, <3>2 DEF PipeFacts
      <3> QED BY <1>5, <2>1, <3>3, <3>4, <3>5
    <2>7. \/ work'.pc = "wait" /\ work'.id = Head(inbox).id /\ UNCHANGED out
          \/ work'.pc = "idle" /\ out' = Append(out, Head(inbox).id)
      <3>1. \A v : \A f \in FrameOf(cf) : /\ [f EXCEPT !.pc = "wait", !.target = v].pc = "wait"
                                      /\ [f EXCEPT !.pc = "wait", !.target = v].id = f.id
        BY DEF FrameOf
      <3>2. Link(cf)!Idle.pc = "idle" BY DEF Link!Idle
      <3>3. \/ /\ UNCHANGED out
               /\ \E v : work' = [Head(inbox) EXCEPT !.pc = "wait", !.target = v]
            \/ out' = Append(out, Head(inbox).id) /\ work' = Link(cf)!Idle
        BY <1>6 DEF Link!Takes, Link!Reply
      <3>4. ASSUME NEW v, work' = [Head(inbox) EXCEPT !.pc = "wait", !.target = v]
            PROVE  work'.pc = "wait" /\ work'.id = Head(inbox).id
        BY ONLY <2>2, <3>1, <3>4
      <3> QED BY ONLY <3>2, <3>3, <3>4
    <2> QED BY <2>5, <2>6, <2>7
  <1>7. ASSUME work.pc # "idle", work'.pc # "idle", work'.id = work.id,
               UNCHANGED <<wire, asked, inbox, out>>
        PROVE  PipeFacts(cf)'
    BY <1>7, <1>5 DEF Busy, Accepted, PipeFacts
  <1>8. ASSUME work.pc # "idle", work' = Link(cf)!Idle, out' = Append(out, work.id),
               UNCHANGED <<wire, asked, inbox>>
        PROVE  PipeFacts(cf)'
    <2>1. Busy = 1 /\ Busy' = 0 /\ work.id = Len(out) + 1 /\ work'.pc = "idle"
      BY <1>8 DEF Busy, Link!Idle, PipeFacts
    <2>2. /\ Len(out') = Len(out) + 1 /\ DOMAIN out' = 1..(Len(out) + 1)
          /\ \A i \in 1..Len(out) : out'[i] = out[i]
          /\ out'[Len(out) + 1] = Len(out) + 1
      BY <1>0, <1>8, <2>1, AppendIs
    <2>3. Accepted' = Accepted BY <1>0, <1>8, <2>1, <2>2 DEF Accepted
    <2>4. (\A j \in DOMAIN inbox : inbox[j].id = Len(out) + Busy + j)'
      BY <1>0, <1>8, <2>1, <2>2 DEF PipeFacts
    <2>5. (\A i \in DOMAIN out : out[i] = i)'
      <3>1. \A i \in 1..Len(out) : out[i] = i BY <1>0 DEF PipeFacts
      <3> QED BY ONLY <1>0, <2>2, <3>1
    <2>6. UNCHANGED <<wire, asked>> BY <1>8
    <2>7. (work.pc # "idle" => work.id = Len(out) + 1)' BY ONLY <2>1
    <2> QED BY ONLY <1>5, <2>3, <2>4, <2>5, <2>6, <2>7
  <1>9. CASE UNCHANGED <<wire, asked, inbox, out, work>>
    BY <1>9 DEF PipeFacts, Accepted, Busy, IsRequest
  <1>10. \/ Link(cf)!AppAsks \/ \E m \in cf.Methods, s \in cf.Sessions : Link(cf)!AppSends(m, s)
         \/ Link(cf)!Reads \/ Link(cf)!Takes
         \/ UNCHANGED <<wire, asked, inbox>>
    BY DEF Link!Next, Link!Reader, Link!Worker, Link!Upstream, Link!vars,
           Link!LivenessAnswered, Link!Gets, Link!GivesUp, Link!Handles, Link!Answers,
           Link!Fails, Link!Dials, Link!Replays, Link!Ready, Link!Drop, Link!Revokes,
           Link!PumpsGap, Link!ResumesAgain
  <1>11. ASSUME UNCHANGED <<wire, asked, inbox>>, ~Link(cf)!Takes PROVE PipeFacts(cf)'
    BY <1>7, <1>8, <1>9, <1>11, WorkerMoves
  <1> QED BY <1>2, <1>3, <1>4, <1>6, <1>10, <1>11

LEMMA RelayKept ==
  ASSUME NEW cf, LinkTypes(cf), PipeFacts(cf), RelayFacts(cf), [Link(cf)!Next]_(Link(cf)!vars)
  PROVE  RelayFacts(cf)'
  <1>0. /\ Len(out) \in Nat /\ out \in Seq(Nat) /\ relayed \in [Link(cf)!Ids -> Nat]
        /\ \A i \in Link(cf)!Ids : i \in Nat
        /\ work.pc # "idle" => work.id = Len(out) + 1
    BY LenProperties DEF LinkTypes, Link!Ids, PipeFacts
  <1>1. CASE Link(cf)!Takes
    <2>1. work.pc = "idle" /\ UNCHANGED relayed BY <1>1 DEF Link!Takes
    <2>2. \A i \in Link(cf)!Ids : relayed[i] <= 1 /\ (i > Len(out) => relayed[i] = 0)
      BY <2>1 DEF RelayFacts
    <2>3. Len(out') \in Nat /\ Len(out') >= Len(out)
      BY <1>1, HeadTailIs, <1>0, AppendIs DEF Link!Takes, LinkTypes, FrameOf, Link!Reply
    <2> QED BY <1>0, <2>1, <2>2, <2>3 DEF RelayFacts
  <1>2. CASE /\ work.pc = "wait" /\ work'.pc = "rpc" /\ UNCHANGED <<out, relayed>>
    BY <1>2 DEF RelayFacts
  <1>3. CASE /\ work.pc = "rpc" /\ work'.pc = "done" /\ work'.id = work.id
             /\ relayed' = [relayed EXCEPT ![work.id] = @ + 1] /\ UNCHANGED out
    BY <1>3, <1>0 DEF RelayFacts
  <1>4. CASE work.pc # "idle" /\ work' = Link(cf)!Idle /\ out' = Append(out, work.id) /\ UNCHANGED relayed
    BY <1>0, <1>4, AppendIs DEF RelayFacts
  <1>5. CASE UNCHANGED <<work, out, relayed>> BY <1>5 DEF RelayFacts
  <1> QED BY <1>1, <1>2, <1>3, <1>4, <1>5, WorkerMoves

\* The attached sessions and their subscriptions.
LEMMA CoverKept ==
  ASSUME NEW cf, LinkTypes(cf), SubFacts(cf), [Link(cf)!Next]_(Link(cf)!vars)
  PROVE  /\ up' = "ready" => Range(attached') \subseteq Covered'
         /\ up' = "replay" => Range(attached') \subseteq Covered' \cup Range(todo')
  <1> DEFINE Good == /\ up' = "ready" => Range(attached') \subseteq Covered'
                     /\ up' = "replay" => Range(attached') \subseteq Covered' \cup Range(todo')
  <1>0. /\ attached \in Seq(cf.Sessions) /\ IsInjective(attached) /\ todo \in Seq(cf.Sessions)
        /\ up = "ready" => Range(attached) \subseteq Covered
        /\ up = "replay" => Range(attached) \subseteq Covered \cup Range(todo)
    BY DEF LinkTypes, SubFacts
  <1>1. ASSUME NEW s, Link(cf)!Drops(s) PROVE Range(attached') = Range(attached) \ {s}
    BY <1>0, <1>1, RemovedIs, LinkLists DEF Link!Drops
  <1>2. CASE Link(cf)!Answers
    <2> DEFINE t == work.target
    <2>1. /\ work.pc = "done" /\ work.conn = conn
          /\ UNCHANGED <<up, todo, subs, gapq, again>>
          /\ attached' = attached \/ (work.method # "submit" /\ attached' = Link(cf)!Attaching(t))
      BY <1>2 DEF Link!Answers, Link!upstream, Link!link
    <2>2. up = "ready" /\ (work.method # "submit" => t \in subs \cup gapq) /\ t \in cf.Sessions
      BY <2>1 DEF SubFacts, LinkTypes
    <2>3. CASE attached' = attached BY <1>0, <2>1, <2>3 DEF Covered
    <2>4. CASE work.method # "submit" /\ attached' = Link(cf)!Attaching(t)
      <3>1. Range(attached') \subseteq Range(attached) \cup {t}
        BY <1>0, <2>2, AddedIs, LinkLists, <2>4 DEF Link!Attaching
      <3> QED BY <1>0, <2>1, <2>2, <2>4, <3>1 DEF Covered
    <2> QED BY <2>1, <2>3, <2>4
  <1>3. CASE Link(cf)!Dials
    BY <1>3 DEF Link!Dials, Link!Replayed, Link!link
  <1>4. CASE Link(cf)!Replays
    <2>1. /\ up = "replay" /\ todo # <<>> /\ todo' = Tail(todo) /\ UNCHANGED <<up, gapq, again>>
          /\ \/ subs' = subs \cup {Head(todo)} /\ UNCHANGED attached
             \/ Link(cf)!Drops(Head(todo)) /\ UNCHANGED subs
      BY <1>4 DEF Link!Replays, Link!link
    <2>2. Range(todo) \subseteq {Head(todo)} \cup Range(todo')
      <3>1. /\ Head(todo) = todo[1]
            /\ \A i \in DOMAIN todo : i = 1 \/ (i - 1 \in DOMAIN todo' /\ todo'[i - 1] = todo[i])
        BY <1>0, <2>1, HeadTailIs
      <3> QED BY ONLY <3>1 DEF Range
    <2>3. Range(attached') \subseteq Range(attached)
          /\ (Head(todo) \in subs' \/ Head(todo) \notin Range(attached')) /\ subs \subseteq subs'
      BY <1>1, <2>1
    <2> QED BY <1>0, <2>1, <2>2, <2>3 DEF Covered
  <1>5. CASE Link(cf)!Ready
    BY <1>5, <1>0 DEF Link!Ready, Link!link, Range, Covered
  <1>6. CASE Link(cf)!Drop BY <1>6 DEF Link!Drop
  <1>7. ASSUME NEW s \in cf.Sessions, Link(cf)!PumpsGap(s) PROVE Good
    BY <1>0, <1>7, LinkLists DEF Link!PumpsGap, Link!link, Link!upstream, Link!Resumable, Covered
  <1>8. ASSUME NEW s \in cf.Sessions, Link(cf)!Revokes(s) PROVE Good
    BY <1>0, <1>8 DEF Link!Revokes, Link!link, Link!upstream, Covered
  <1>9. ASSUME NEW s \in cf.Sessions, Link(cf)!ResumesAgain(s) PROVE Good
    BY <1>9, <1>1, <1>0 DEF Link!ResumesAgain, Link!link, Link!upstream, Covered
  <1>10. ASSUME NEW s \in cf.Sessions, Link(cf)!Handles(s) PROVE Good
    BY <1>10, <1>0 DEF Link!Handles, Link!link, Link!upstream, Covered
  <1>11. CASE UNCHANGED <<up, todo, attached, subs, gapq, again>> BY <1>0, <1>11 DEF Covered
  <1>12. \/ Link(cf)!Answers \/ Link(cf)!Dials \/ Link(cf)!Replays \/ Link(cf)!Ready
         \/ Link(cf)!Drop
         \/ \E s \in cf.Sessions : Link(cf)!PumpsGap(s) \/ Link(cf)!Revokes(s)
         \/ \E s \in cf.Sessions : Link(cf)!ResumesAgain(s) \/ Link(cf)!Handles(s)
         \/ UNCHANGED <<up, todo, attached, subs, gapq, again>>
    BY DEF Link!Next, Link!Reader, Link!Worker, Link!Upstream, Link!vars, Link!link,
           Link!upstream, Link!AppAsks, Link!AppSends, Link!Reads, Link!LivenessAnswered,
           Link!Takes, Link!Gets, Link!GivesUp, Link!Fails
  <1> QED BY <1>2, <1>3, <1>4, <1>5, <1>6, <1>7, <1>8, <1>9, <1>10, <1>11, <1>12

\* The connection of the worker's call, and what it resumed or created there.
LEMMA CallKept ==
  ASSUME NEW cf, LinkTypes(cf), SubFacts(cf), [Link(cf)!Next]_(Link(cf)!vars)
  PROVE  /\ work'.pc \in {"rpc", "done"} =>
               work'.conn <= conn' /\ (work'.conn = conn' => up' = "ready")
         /\ work'.pc = "done" /\ work'.conn = conn' /\ work'.method # "submit" =>
               work'.target \in subs' \cup gapq'
  <1>0. work.conn \in Nat /\ conn \in Nat /\ conn <= conn
    BY DEF LinkTypes, FrameOf
  <1>1. CASE Link(cf)!Takes \/ work'.pc = "idle"
    <2>1. work'.pc \notin {"rpc", "done"}
      <3>1. Link(cf)!Takes => Head(inbox) \in FrameOf(cf)
        BY HeadTailIs DEF Link!Takes, LinkTypes
      <3>2. \A v : \A f \in FrameOf(cf) : [f EXCEPT !.pc = "wait", !.target = v].pc = "wait"
        BY DEF FrameOf
      <3>3. Link(cf)!Idle.pc = "idle" BY DEF Link!Idle
      <3>4. Link(cf)!Takes => \/ work' = Link(cf)!Idle
                              \/ \E v : work' = [Head(inbox) EXCEPT !.pc = "wait", !.target = v]
        BY DEF Link!Takes, Link!Reply
      <3>5. Link(cf)!Takes => work'.pc \in {"idle", "wait"} BY ONLY <3>1, <3>2, <3>3, <3>4
      <3> QED BY <1>1, <3>5
    <2> QED BY <2>1
  <1>2. CASE work.pc = "wait" /\ work'.pc = "rpc" /\ up = "ready" /\ work'.conn = conn
             /\ UNCHANGED Link(cf)!upstream
    BY <1>0, <1>2 DEF Link!upstream
  <1>3. ASSUME NEW t \in cf.Sessions, Link(cf)!Handles(t), work'.target = t, work.pc = "rpc",
               work'.pc = "done", work.conn = conn, work'.conn = conn, work'.method = work.method
        PROVE  /\ up' = "ready" /\ conn' = conn
               /\ work'.method # "submit" => work'.target \in subs'
    BY <1>3 DEF SubFacts, Link!Handles, Link!upstream
  <1>4. CASE UNCHANGED work /\ work.pc \in {"rpc", "done"}
    <2>1. /\ work.conn <= conn /\ (work.conn = conn => up = "ready")
          /\ work.pc = "done" /\ work.conn = conn /\ work.method # "submit" =>
                work.target \in subs \cup gapq
      BY <1>4 DEF SubFacts
    <2>2. CASE Link(cf)!Drop
      BY <2>2, <1>0, <1>4, <2>1 DEF Link!Drop
    <2>3. ASSUME NEW s \in cf.Sessions, Link(cf)!PumpsGap(s) \/ Link(cf)!Revokes(s)
          PROVE  UNCHANGED <<up, conn>> /\ (work.pc = "done" => subs \cup gapq \subseteq subs' \cup gapq')
      BY <2>3 DEF Link!PumpsGap, Link!Revokes, Link!upstream
    <2>4. \/ Link(cf)!Drop
          \/ \E s \in cf.Sessions : Link(cf)!PumpsGap(s) \/ Link(cf)!Revokes(s)
          \/ /\ conn' = conn /\ (up = "ready" => up' = "ready")
             /\ subs \cup gapq \subseteq subs' \cup gapq'
      BY <1>4
      DEF Link!Next, Link!Reader, Link!Worker, Link!Upstream, Link!vars, Link!link,
          Link!upstream, Link!AppAsks, Link!AppSends, Link!Reads, Link!LivenessAnswered,
          Link!Takes, Link!Gets, Link!GivesUp, Link!Fails, Link!Answers, Link!Dials,
          Link!Replays, Link!Ready, Link!ResumesAgain, Link!Handles
    <2> QED BY <1>4, <2>1, <2>2, <2>3, <2>4
  <1>5. CASE UNCHANGED work /\ work.pc \notin {"rpc", "done"} BY <1>5
  <1>6. Link(cf)!Idle.pc = "idle" BY DEF Link!Idle
  <1> QED BY <1>0, <1>1, <1>2, <1>3, <1>4, <1>5, <1>6, WorkerMoves

LEMMA SubKept ==
  ASSUME NEW cf, LinkTypes(cf), SubFacts(cf), [Link(cf)!Next]_(Link(cf)!vars)
  PROVE  SubFacts(cf)'
  BY CoverKept, CallKept DEF SubFacts

LEMMA WriteKept ==
  ASSUME NEW cf, LinkTypes(cf), WriteFacts(cf), [Link(cf)!Next]_(Link(cf)!vars)
  PROVE  WriteFacts(cf)'
  <1>1. created \subseteq created'
    BY DEF Link!Next, Link!Reader, Link!Worker, Link!Upstream, Link!vars, Link!link,
           Link!upstream, Link!AppAsks, Link!AppSends, Link!Reads, Link!LivenessAnswered,
           Link!Takes, Link!Gets, Link!GivesUp, Link!Fails, Link!Answers, Link!Dials,
           Link!Replays, Link!Ready, Link!ResumesAgain, Link!Handles, Link!Drop,
           Link!PumpsGap, Link!Revokes, Link!Drops
  <1>2. \A s : Link(cf)!MayWrite(s)' = Link(cf)!MayWrite(s) BY DEF Link!MayWrite
  <1>3. ASSUME UNCHANGED wrote,
               work'.pc # "idle" /\ work'.method = "submit" =>
                  /\ work'.target \in cf.Sessions
                  /\ work'.target \in created \/ Link(cf)!MayWrite(work'.target)
        PROVE  WriteFacts(cf)'
    BY <1>1, <1>2, <1>3 DEF WriteFacts, Link!WritesAllowed
  <1>4. CASE Link(cf)!Takes
    <2> DEFINE frame == Head(inbox)
               t == aliases[frame.named]
               target == IF frame.method = "submit" THEN t ELSE frame.named
    <2>1. frame \in FrameOf(cf) /\ frame.named \in cf.Sessions
      BY <1>4, HeadTailIs DEF Link!Takes, LinkTypes
    <2>2. UNCHANGED wrote BY <1>4 DEF Link!Takes
    <2>3. CASE Link(cf)!Relayable(frame)
      <3>1. work' = [frame EXCEPT !.pc = "wait", !.target = target]
        BY <1>4, <2>3 DEF Link!Takes
      <3>2. work'.method = frame.method /\ work'.target = target
        BY <2>1, <3>1 DEF FrameOf
      <3>3. frame.method = "submit" =>
               t # "none" /\ (t \in created \/ Link(cf)!MayWrite(t))
        BY <2>3 DEF Link!Relayable, Link!Writable, Link!None
      <3>4. t \in cf.Sessions \cup {"none"} BY <2>1 DEF LinkTypes
      <3> QED BY <1>3, <2>2, <3>2, <3>3, <3>4
    <2>4. CASE ~Link(cf)!Relayable(frame)
      BY <1>4, <2>4, <1>3, <2>2 DEF Link!Takes, Link!Reply, Link!Idle
    <2> QED BY <2>3, <2>4
  <1>5. CASE /\ work.pc = "wait" /\ work'.method = work.method /\ work'.target = work.target
             /\ UNCHANGED wrote
    BY <1>3, <1>5 DEF WriteFacts
  <1>6. ASSUME NEW t \in cf.Sessions, Link(cf)!Handles(t), work'.target = t, work.pc = "rpc",
               work'.pc = "done", work'.method = work.method
        PROVE  WriteFacts(cf)'
    BY <1>6, <1>1, <1>2 DEF Link!Handles, WriteFacts, Link!WritesAllowed
  <1>7. CASE work' = Link(cf)!Idle /\ UNCHANGED wrote
    BY <1>3, <1>7 DEF Link!Idle
  <1>8. CASE UNCHANGED <<work, wrote>> BY <1>3, <1>8 DEF WriteFacts
  <1> QED BY <1>4, <1>5, <1>6, <1>7, <1>8, WorkerMoves

LEMMA NewsKept ==
  ASSUME NEW cf, LinkTypes(cf), NewsFacts, [Link(cf)!Next]_(Link(cf)!vars)
  PROVE  NewsFacts'
  <1>1. \/ UNCHANGED <<up, told, wasReady>>
        \/ up = "down" /\ up' = "replay" /\ UNCHANGED <<told, wasReady>>
        \/ up = "replay" /\ up' = "ready" /\ wasReady' = TRUE
           /\ told' = IF wasReady THEN "ready" ELSE told
        \/ up' = "down" /\ told' = (IF up = "ready" THEN "reconnecting" ELSE told)
           /\ UNCHANGED wasReady
    BY DEF Link!Next, Link!Reader, Link!Worker, Link!Upstream, Link!vars, Link!link,
           Link!upstream, Link!AppAsks, Link!AppSends, Link!Reads, Link!LivenessAnswered,
           Link!Takes, Link!Gets, Link!GivesUp, Link!Fails, Link!Answers, Link!Dials,
           Link!Replays, Link!Ready, Link!ResumesAgain, Link!Handles, Link!Drop,
           Link!PumpsGap, Link!Revokes, Link!Reported
  <1>2. wasReady \in BOOLEAN BY DEF LinkTypes
  <1> QED BY <1>1, <1>2 DEF NewsFacts

LEMMA LinkKept ==
  ASSUME NEW cf, Link(cf)!Shape, LinkInv(cf), [Link(cf)!Next]_(Link(cf)!vars)
  PROVE  LinkInv(cf)'
  <1> USE DEF LinkInv
  <1>1. LinkTypes(cf)' BY LinkTypesKept
  <1>2. PipeFacts(cf)' BY PipeKept
  <1>3. RelayFacts(cf)' BY RelayKept
  <1>4. SubFacts(cf)' BY SubKept
  <1>5. WriteFacts(cf)' BY WriteKept
  <1>6. NewsFacts' BY NewsKept
  <1> QED BY <1>1, <1>2, <1>3, <1>4, <1>5, <1>6

\* A call reaches the gateway only on a link whose sessions were replayed.
LEMMA ReplayedFirst ==
  ASSUME NEW cf, LinkInv(cf), [Link(cf)!Next]_(Link(cf)!vars)
  PROVE  Link(cf)!ReplayBeforeRelay
  <1>1. ASSUME work.pc = "rpc", work'.pc = "done" PROVE Range(attached) \subseteq Covered
    <2>1. work.conn = conn
      BY <1>1, WorkerMoves DEF LinkInv, Link!Takes, Link!Idle
    <2> QED BY <1>1, <2>1 DEF LinkInv, SubFacts
  <1> QED BY <1>1, LinkLists DEF Link!ReplayBeforeRelay, Covered

-----------------------------------------------------------------------------
(* WebProxy.                                                               *)

LEMMA ProxyLists ==
  ASSUME NEW cf
  PROVE  /\ \A q : Proxy(cf)!Range(q) = Range(q)
         /\ \A q : Proxy(cf)!IsInjective(q) = IsInjective(q)
         /\ \A q, e : Proxy(cf)!Removed(q, e) = Removed(q, e)
         /\ \A S : Proxy(cf)!IsFiniteSet(S) <=> IsFiniteSet(S)
         /\ \A S : Proxy(cf)!Cardinality(S) = Cardinality(S)
  BY DEF Range, Proxy!Range, IsInjective, Proxy!IsInjective, RemovedAt, Proxy!RemovedAt, Removed,
     Proxy!Removed, IsFiniteSet, Proxy!IsFiniteSet, Cardinality, Proxy!Cardinality

\* Every wait is within the clocks' range.
LEMMA LongestIs ==
  ASSUME NEW cf, Proxy(cf)!ProxyAssumption
  PROVE  /\ Proxy(cf)!Longest \in Nat /\ cf.Silence <= Proxy(cf)!Longest
         /\ cf.Silence \in Nat /\ cf.Ceiling \in Nat /\ cf.BodyCap \in Nat /\ cf.LastChunk \in Nat
         /\ cf.BigChunks \in Nat /\ cf.BigChunks >= 1 /\ cf.BigSlots \in Nat
  BY DEF Proxy!ProxyAssumption, Proxy!Longest

\* Who owns the connection of a request: nobody yet or any more, its handler,
\* or a drain task. A request queued for a permit that is cancelled leaves it.
OwnerOf(cf, q) ==
    /\ q.pc = "idle" => q.conn = "none" /\ q.out = "none"
    /\ q.conn = "none" => q.pc \in {"idle", "end"}
    /\ q.conn \in {"asked", "failed"} => q.pc = "asking"
    /\ q.pc = "asking" => q.conn \in {"asked", "failed", "answered"} /\ q.out = "none"
    /\ q.pc \notin {"idle", "asking", "end"} => q.conn = "answered" /\ q.whole /\ ~q.drain
    /\ q.conn = "answered" => q.reply # "none"
    /\ q.drain => q.pc = "end" /\ q.conn = "answered" /\ q.whole /\ q.out = "begun"
    /\ ~cf.Shutdown /\ q.pc = "end" /\ q.conn = "answered" => q.drain
    /\ ~q.whole => q.over /\ q.out \in {"none", "413"} /\ q.conn \in {"answered", "ended"}

\* A run lives on the connection of an event stream; its stream is dropped
\* while it lives only after a long silence or at the end of a long drain.
RunOf(cf, q) ==
    /\ q.conn \in {"none", "asked", "failed"} => q.run = "none"
    /\ q.run # "none" => q.reply = "events"
    /\ q.pc \in {"queue", "first", "reading", "writing", "slotwait"} => q.reply # "events"
    /\ q.run = "cut" => q.conn = "ended"
    /\ q.drain /\ q.run = "live" => q.quiet >= cf.Silence \/ q.clock <= q.quiet
    /\ ~cf.Shutdown /\ q.run = "cut" =>
          q.quiet >= cf.Silence \/ q.age >= cf.Ceiling \/ q.out \in {"413", "504"}

\* A permit is held only while streaming, and a big body holds one.
PermitOf(cf, q) ==
    /\ q.slot => q.pc \in {"first", "reading", "writing"}
    /\ q.pc \in {"idle", "asking", "queue", "first"} => q.streamed = 0
    /\ q.pc \in {"reading", "writing"} /\ q.streamed > cf.BigChunks => q.slot

RequestOk(cf, q) ==
    q \in Proxy(cf)!Request /\ OwnerOf(cf, q) /\ RunOf(cf, q) /\ PermitOf(cf, q)

Holders(cf) == {r \in cf.Reqs : req[r].slot}

\* The queue of the semaphore, and its permits.
SlotFacts(cf) ==
    /\ waiters \in Seq(cf.Reqs) /\ IsInjective(waiters)
    /\ Range(waiters) = {r \in cf.Reqs : req[r].pc \in {"queue", "slotwait"}}
    /\ free \in Nat /\ free + Cardinality(Holders(cf)) = cf.BigSlots

ProxyInv(cf) ==
    /\ req \in [cf.Reqs -> Proxy(cf)!Request]
    /\ \A r \in cf.Reqs : RequestOk(cf, req[r])
    /\ SlotFacts(cf)

LEMMA ProxyImplies ==
  ASSUME NEW cf, Proxy(cf)!ProxyAssumption, ProxyInv(cf)
  PROVE  /\ Proxy(cf)!TypeOK /\ Proxy(cf)!PermitsConserved /\ Proxy(cf)!BigNeedsPermit
         /\ Proxy(cf)!TruncatedNeverRelayed
         /\ ~cf.Shutdown => Proxy(cf)!NoHalfOwned /\ Proxy(cf)!RunOutlivesBrowser
  <1> USE DEF ProxyInv, RequestOk
  <1>1. Proxy(cf)!TypeOK
    <2>1. free \in Nat /\ free + Cardinality(Holders(cf)) = cf.BigSlots BY DEF SlotFacts
    <2>2. Cardinality(Holders(cf)) \in Nat
      <3>1. IsFiniteSet(Holders(cf)) 
        BY ProxyLists, FS_Subset DEF Proxy!ProxyAssumption, Holders
      <3> QED BY <3>1, FS_CardinalityType
    <2>3. free \in 0..cf.BigSlots BY ONLY <2>1, <2>2
    <2> QED BY <2>3 DEF Proxy!TypeOK, SlotFacts
  <1>2. Proxy(cf)!PermitsConserved
    BY ProxyLists DEF SlotFacts, Holders, PermitOf, Proxy!PermitsConserved
  <1>3. Proxy(cf)!BigNeedsPermit BY DEF Proxy!BigNeedsPermit, PermitOf
  <1>4. Proxy(cf)!TruncatedNeverRelayed
    BY DEF Proxy!TruncatedNeverRelayed, OwnerOf, Proxy!Request
  <1>5. ~cf.Shutdown => Proxy(cf)!NoHalfOwned BY DEF Proxy!NoHalfOwned, OwnerOf
  <1>6. ~cf.Shutdown => Proxy(cf)!RunOutlivesBrowser BY DEF Proxy!RunOutlivesBrowser, RunOf
  <1> QED BY <1>1, <1>2, <1>3, <1>4, <1>5, <1>6

LEMMA ProxyStarts ==
  ASSUME NEW cf, Proxy(cf)!ProxyAssumption, Proxy(cf)!Init
  PROVE  ProxyInv(cf)
  <1>1. Proxy(cf)!Fresh \in Proxy(cf)!Request
    BY LongestIs DEF Proxy!Fresh, Proxy!Request
  <1>2. /\ OwnerOf(cf, Proxy(cf)!Fresh) /\ RunOf(cf, Proxy(cf)!Fresh)
        /\ PermitOf(cf, Proxy(cf)!Fresh)
    BY DEF OwnerOf, RunOf, PermitOf, Proxy!Fresh
  <1>3. req = [r \in cf.Reqs |-> Proxy(cf)!Fresh] /\ waiters = <<>> /\ free = cf.BigSlots
    BY DEF Proxy!Init
  <1>4. SlotFacts(cf)
    <2>1. Holders(cf) = {} BY <1>3 DEF Holders, Proxy!Fresh
    <2>2. IsInjective(waiters) /\ Range(waiters) = {} BY <1>3 DEF IsInjective, Range
    <2>3. {r \in cf.Reqs : req[r].pc \in {"queue", "slotwait"}} = {} BY <1>3 DEF Proxy!Fresh
    <2> QED BY <1>3, <2>1, <2>2, <2>3, EmptySeq, FS_EmptySet, LongestIs DEF SlotFacts
  <1> QED BY <1>1, <1>2, <1>3, <1>4 DEF ProxyInv, RequestOk

Fields == {"pc", "sse", "body", "here", "sent", "done", "over", "conn", "reply", "whole",
           "streamed", "slot", "clock", "drain", "age", "quiet", "run", "out"}

\* v is q but for the fields in F.
ButFor(q, v, F) == \A f \in Fields \ F : v[f] = q[f]

\* A request record stays one when a field takes a value of its kind.
LEMMA Edited ==
  ASSUME NEW cf, NEW q \in Proxy(cf)!Request
  PROVE  /\ \A x \in {"idle", "asking", "queue", "first", "reading", "writing", "slotwait",
                      "sse", "end"} : [q EXCEPT !.pc = x] \in Proxy(cf)!Request
         /\ \A x \in {"none", "asked", "failed", "answered", "ended"} :
               [q EXCEPT !.conn = x] \in Proxy(cf)!Request
         /\ \A x \in {"none", "live", "over", "cut"} : [q EXCEPT !.run = x] \in Proxy(cf)!Request
         /\ \A x \in {"none", "413", "504", "error", "begun"} :
               [q EXCEPT !.out = x] \in Proxy(cf)!Request
         /\ \A x \in BOOLEAN : /\ [q EXCEPT !.whole = x] \in Proxy(cf)!Request
                               /\ [q EXCEPT !.slot = x] \in Proxy(cf)!Request
                               /\ [q EXCEPT !.drain = x] \in Proxy(cf)!Request
                               /\ [q EXCEPT !.sse = x] \in Proxy(cf)!Request
                               /\ [q EXCEPT !.done = x] \in Proxy(cf)!Request
         /\ \A x \in 0..Proxy(cf)!Longest : [q EXCEPT !.clock = x] \in Proxy(cf)!Request
         /\ \A x \in 0..cf.Silence : [q EXCEPT !.quiet = x] \in Proxy(cf)!Request
         /\ \A x \in 0..cf.Ceiling : [q EXCEPT !.age = x] \in Proxy(cf)!Request
         /\ \A x \in 0..(cf.LastChunk + 1) : [q EXCEPT !.streamed = x] \in Proxy(cf)!Request
  <1>1. /\ \A x \in {"idle", "asking", "queue", "first", "reading", "writing", "slotwait",
                      "sse", "end"} : [q EXCEPT !.pc = x] \in Proxy(cf)!Request
    BY DEF Proxy!Request
  <1>2. \A x \in {"none", "asked", "failed", "answered", "ended"} :
           [q EXCEPT !.conn = x] \in Proxy(cf)!Request
    BY DEF Proxy!Request
  <1>3. \A x \in {"none", "live", "over", "cut"} : [q EXCEPT !.run = x] \in Proxy(cf)!Request
    BY DEF Proxy!Request
  <1>4. \A x \in {"none", "413", "504", "error", "begun"} :
           [q EXCEPT !.out = x] \in Proxy(cf)!Request
    BY DEF Proxy!Request
  <1>5. \A x \in BOOLEAN : [q EXCEPT !.whole = x] \in Proxy(cf)!Request BY DEF Proxy!Request
  <1>6. \A x \in BOOLEAN : [q EXCEPT !.slot = x] \in Proxy(cf)!Request BY DEF Proxy!Request
  <1>7. \A x \in BOOLEAN : [q EXCEPT !.drain = x] \in Proxy(cf)!Request BY DEF Proxy!Request
  <1>8. \A x \in BOOLEAN : [q EXCEPT !.sse = x] \in Proxy(cf)!Request BY DEF Proxy!Request
  <1>9. \A x \in BOOLEAN : [q EXCEPT !.done = x] \in Proxy(cf)!Request BY DEF Proxy!Request
  <1>10. \A x \in 0..Proxy(cf)!Longest : [q EXCEPT !.clock = x] \in Proxy(cf)!Request
    BY DEF Proxy!Request
  <1>11. \A x \in 0..cf.Silence : [q EXCEPT !.quiet = x] \in Proxy(cf)!Request BY DEF Proxy!Request
  <1>12. \A x \in 0..cf.Ceiling : [q EXCEPT !.age = x] \in Proxy(cf)!Request BY DEF Proxy!Request
  <1>13. \A x \in 0..(cf.LastChunk + 1) : [q EXCEPT !.streamed = x] \in Proxy(cf)!Request
    BY DEF Proxy!Request
  <1> QED BY <1>1, <1>2, <1>3, <1>4, <1>5, <1>6, <1>7, <1>8, <1>9, <1>10, <1>11, <1>12, <1>13

\* One request moves on, the others and the queue stay; so do those who hold
\* or await a permit.
LEMMA Aside ==
  ASSUME NEW cf, ProxyInv(cf), NEW r \in cf.Reqs, NEW v, RequestOk(cf, v),
         req' = [req EXCEPT ![r] = v], UNCHANGED <<free, waiters>>,
         v.slot = req[r].slot,
         v.pc \in {"queue", "slotwait"} <=> req[r].pc \in {"queue", "slotwait"}
  PROVE  ProxyInv(cf)'
  <1>1. req' \in [cf.Reqs -> Proxy(cf)!Request] BY DEF ProxyInv, RequestOk
  <1>2. \A x \in cf.Reqs : RequestOk(cf, req'[x]) BY DEF ProxyInv
  <1>3. \A x \in cf.Reqs : req'[x].slot = req[x].slot BY DEF ProxyInv
  <1>4. \A x \in cf.Reqs : req'[x].pc \in {"queue", "slotwait"} <=> req[x].pc \in {"queue", "slotwait"}
    BY DEF ProxyInv
  <1>5. Holders(cf)' = Holders(cf) BY <1>3 DEF Holders
  <1>6. SlotFacts(cf)' BY <1>4, <1>5 DEF SlotFacts, ProxyInv
  <1> QED BY <1>1, <1>2, <1>6 DEF ProxyInv, Proxy!Request

\* The browser comes, feeds its body and leaves.
LEMMA ArriveKept ==
  ASSUME NEW cf, Proxy(cf)!ProxyAssumption, ProxyInv(cf), NEW r \in cf.Reqs,
         NEW sse \in cf.Accepts, NEW body \in cf.Bodies, Proxy(cf)!Arrive(r, sse, body)
  PROVE  ProxyInv(cf)'
  <1> DEFINE q == req[r]
  <1>0. q \in Proxy(cf)!Request /\ RequestOk(cf, q) BY DEF ProxyInv
  <1>1. q.pc = "idle" /\ UNCHANGED <<free, waiters>> BY DEF Proxy!Arrive, Proxy!Keep
  <1> HIDE DEF q
  <1>2. CASE body = "huge"
    <2> DEFINE v == [q EXCEPT !.pc = "end", !.out = "413"]
    <2>1. req' = [req EXCEPT ![r] = v] BY <1>2 DEF Proxy!Arrive, q
    <2>2. v \in Proxy(cf)!Request BY ONLY <1>0 DEF Proxy!Request
    <2>3. ButFor(q, v, {"pc", "out"}) /\ v.pc = "end" /\ v.out = "413"
      BY ONLY <1>0 DEF Proxy!Request, ButFor, Fields
    <2> HIDE DEF v
    <2>4. OwnerOf(cf, v) /\ RunOf(cf, v) /\ PermitOf(cf, v)
      BY ONLY <1>0, <1>1, <2>3 DEF OwnerOf, RunOf, PermitOf, RequestOk, ButFor, Fields
    <2>5. v.slot = q.slot BY ONLY <2>3 DEF ButFor, Fields
    <2> QED BY <1>1, <2>1, <2>2, <2>3, <2>4, <2>5, Aside DEF RequestOk, q
  <1>3. CASE body # "huge"
    <2> DEFINE b == body = "none"
               v == [q EXCEPT !.pc = "asking", !.conn = "asked", !.sse = sse, !.body = body,
                              !.done = b]
    <2>1. req' = [req EXCEPT ![r] = v] BY <1>3 DEF Proxy!Arrive, q
    <2>2. b \in BOOLEAN /\ sse \in BOOLEAN /\ body \in {"none", "fits", "chunked"}
      BY <1>3 DEF Proxy!ProxyAssumption
    <2> HIDE DEF b
    <2>3. v \in Proxy(cf)!Request
      <3>1. [q EXCEPT !.sse = sse, !.body = body, !.done = b] \in Proxy(cf)!Request
        BY ONLY <1>0, <2>2 DEF Proxy!Request
      <3>2. \A w \in Proxy(cf)!Request :
               [w EXCEPT !.pc = "asking", !.conn = "asked"] \in Proxy(cf)!Request
        BY ONLY Edited
      <3>3. v = [[q EXCEPT !.sse = sse, !.body = body, !.done = b]
                    EXCEPT !.pc = "asking", !.conn = "asked"]
        BY ONLY <1>0 DEF Proxy!Request
      <3> QED BY ONLY <3>1, <3>2, <3>3
    <2>4. /\ ButFor(q, v, {"pc", "conn", "sse", "body", "done"})
          /\ v.pc = "asking" /\ v.conn = "asked"
      BY ONLY <1>0 DEF Proxy!Request, ButFor, Fields
    <2> HIDE DEF v
    <2>5. OwnerOf(cf, v) /\ RunOf(cf, v) /\ PermitOf(cf, v)
      BY ONLY <1>0, <1>1, <2>4 DEF OwnerOf, RunOf, PermitOf, RequestOk, ButFor, Fields
    <2>6. v.slot = q.slot BY ONLY <2>4 DEF ButFor, Fields
    <2> QED BY <1>1, <2>1, <2>3, <2>4, <2>5, <2>6, Aside DEF RequestOk, q
  <1> QED BY <1>2, <1>3

\* What changes nothing but where the browser and its upload are.
LEMMA UploadMoves ==
  ASSUME NEW cf, ProxyInv(cf), NEW r \in cf.Reqs, NEW v \in Proxy(cf)!Request,
         req' = [req EXCEPT ![r] = v], UNCHANGED <<free, waiters>>,
         ButFor(req[r], v, {"here", "sent", "done", "over", "clock"}),
         req[r].over => v.over, ~req[r].drain \/ v.clock = req[r].clock
  PROVE  ProxyInv(cf)'
  <1> DEFINE q == req[r]
  <1>0. RequestOk(cf, q) BY DEF ProxyInv
  <1>1. /\ ButFor(q, v, {"here", "sent", "done", "over", "clock"})
        /\ (q.over => v.over) /\ (~q.drain \/ v.clock = q.clock)
    OBVIOUS
  <1> HIDE DEF q
  <1>2. OwnerOf(cf, v)
    BY ONLY <1>0, <1>1 DEF OwnerOf, RequestOk, ButFor, Fields
  <1>3. RunOf(cf, v)
    BY ONLY <1>0, <1>1 DEF RunOf, RequestOk, ButFor, Fields
  <1>4. PermitOf(cf, v)
    BY ONLY <1>0, <1>1 DEF PermitOf, RequestOk, ButFor, Fields
  <1>5. v.slot = q.slot /\ v.pc = q.pc BY ONLY <1>1 DEF ButFor, Fields
  <1> QED BY <1>2, <1>3, <1>4, <1>5, Aside DEF RequestOk, q

LEMMA UploadKept ==
  ASSUME NEW cf, Proxy(cf)!ProxyAssumption, ProxyInv(cf), NEW r \in cf.Reqs,
         Proxy(cf)!Leave(r) \/ Proxy(cf)!Feed(r) \/ Proxy(cf)!BodyEnd(r)
  PROVE  ProxyInv(cf)'
  <1> DEFINE q == req[r]
  <1>0. q \in Proxy(cf)!Request /\ RequestOk(cf, q) BY DEF ProxyInv
  <1>1. UNCHANGED <<free, waiters>> BY DEF Proxy!Leave, Proxy!Feed, Proxy!BodyEnd, Proxy!Keep
  <1> HIDE DEF q
  <1>2. CASE Proxy(cf)!Leave(r)
    <2> DEFINE v == [q EXCEPT !.here = FALSE]
    <2>1. req' = [req EXCEPT ![r] = v] BY <1>2 DEF Proxy!Leave, q
    <2>2. v \in Proxy(cf)!Request BY ONLY <1>0 DEF Proxy!Request
    <2>3. ButFor(q, v, {"here"}) BY ONLY <1>0 DEF Proxy!Request, ButFor, Fields
    <2> HIDE DEF v
    <2>4. /\ ButFor(q, v, {"here", "sent", "done", "over", "clock"})
          /\ (q.over => v.over) /\ (~q.drain \/ v.clock = q.clock)
      BY ONLY <2>3 DEF ButFor, Fields
    <2> QED BY <1>1, <2>1, <2>2, <2>4, UploadMoves DEF q
  <1>3. CASE Proxy(cf)!Feed(r) /\ q.sent + 1 > cf.BodyCap
    <2> DEFINE v == [q EXCEPT !.over = TRUE]
    <2>1. req' = [req EXCEPT ![r] = v] BY <1>3 DEF Proxy!Feed, q
    <2>2. v \in Proxy(cf)!Request BY ONLY <1>0 DEF Proxy!Request
    <2>3. ButFor(q, v, {"over"}) /\ v.over = TRUE
      BY ONLY <1>0 DEF Proxy!Request, ButFor, Fields
    <2> HIDE DEF v
    <2>4. /\ ButFor(q, v, {"here", "sent", "done", "over", "clock"})
          /\ (q.over => v.over) /\ (~q.drain \/ v.clock = q.clock)
      BY ONLY <2>3 DEF ButFor, Fields
    <2> QED BY <1>1, <2>1, <2>2, <2>4, UploadMoves DEF q
  <1>4. CASE Proxy(cf)!Feed(r) /\ ~(q.sent + 1 > cf.BodyCap)
    <2> DEFINE n == q.sent + 1
               t == IF q.pc = "asking" THEN 0 ELSE q.clock
               v == [q EXCEPT !.sent = n, !.clock = t]
    <2>1. req' = [req EXCEPT ![r] = v] BY <1>4 DEF Proxy!Feed, q
    <2>2. n \in 0..cf.BodyCap /\ t \in 0..Proxy(cf)!Longest
      BY <1>0, <1>4, LongestIs DEF Proxy!Request
    <2>3. ~q.drain \/ t = q.clock
      BY <1>0 DEF RequestOk, OwnerOf
    <2> HIDE DEF n, t
    <2>4. v \in Proxy(cf)!Request BY ONLY <1>0, <2>2 DEF Proxy!Request
    <2>5. ButFor(q, v, {"sent", "clock"}) /\ v.clock = t
      BY ONLY <1>0 DEF Proxy!Request, ButFor, Fields
    <2> HIDE DEF v
    <2>6. /\ ButFor(q, v, {"here", "sent", "done", "over", "clock"})
          /\ (q.over => v.over) /\ (~q.drain \/ v.clock = q.clock)
      BY ONLY <2>3, <2>5 DEF ButFor, Fields
    <2> QED BY <1>1, <2>1, <2>4, <2>6, UploadMoves DEF q
  <1>5. CASE Proxy(cf)!BodyEnd(r)
    <2> DEFINE t == IF q.pc = "asking" THEN 0 ELSE q.clock
               v == [q EXCEPT !.done = TRUE, !.clock = t]
    <2>1. req' = [req EXCEPT ![r] = v] BY <1>5 DEF Proxy!BodyEnd, q
    <2>2. t \in 0..Proxy(cf)!Longest
      BY <1>0, LongestIs DEF Proxy!Request
    <2>3. ~q.drain \/ t = q.clock
      BY <1>0 DEF RequestOk, OwnerOf
    <2> HIDE DEF t
    <2>4. v \in Proxy(cf)!Request BY ONLY <1>0, <2>2 DEF Proxy!Request
    <2>5. ButFor(q, v, {"done", "clock"}) /\ v.clock = t
      BY ONLY <1>0 DEF Proxy!Request, ButFor, Fields
    <2> HIDE DEF v
    <2>6. /\ ButFor(q, v, {"here", "sent", "done", "over", "clock"})
          /\ (q.over => v.over) /\ (~q.drain \/ v.clock = q.clock)
      BY ONLY <2>3, <2>5 DEF ButFor, Fields
    <2> QED BY <1>1, <2>1, <2>4, <2>6, UploadMoves DEF q
  <1> QED BY <1>2, <1>3, <1>4, <1>5

\* The gateway answers, refuses, and its run ends.
LEMMA GatewayKept ==
  ASSUME NEW cf, Proxy(cf)!ProxyAssumption, ProxyInv(cf), NEW r \in cf.Reqs,
         \/ \E reply \in cf.Replies : Proxy(cf)!Answer(r, reply)
         \/ Proxy(cf)!Refuse(r) \/ Proxy(cf)!RunEnds(r)
  PROVE  ProxyInv(cf)'
  <1> DEFINE q == req[r]
  <1>0. q \in Proxy(cf)!Request /\ RequestOk(cf, q) BY DEF ProxyInv
  <1>1. UNCHANGED <<free, waiters>>
    BY DEF Proxy!Answer, Proxy!Refuse, Proxy!RunEnds, Proxy!Keep
  <1> HIDE DEF q
  <1>2. ASSUME NEW reply \in cf.Replies, Proxy(cf)!Answer(r, reply) PROVE ProxyInv(cf)'
    <2> DEFINE w == ~q.over
               run == IF reply = "events" THEN "live" ELSE q.run
               v == [q EXCEPT !.conn = "answered", !.reply = reply, !.whole = w, !.quiet = 0,
                              !.run = run]
    <2>1. req' = [req EXCEPT ![r] = v] /\ q.conn = "asked" BY <1>2 DEF Proxy!Answer, q
    <2>2. /\ w \in BOOLEAN /\ (~w => q.over) /\ reply \in {"events", "plain", "big"}
          /\ 0 \in 0..cf.Silence
      BY LongestIs DEF Proxy!ProxyAssumption
    <2>3. q.pc = "asking" /\ ~q.drain /\ q.out = "none" /\ q.run = "none"
      BY ONLY <1>0, <2>1 DEF RequestOk, OwnerOf, RunOf
    <2>4. run \in {"live", "none"} /\ (run = "live" => reply = "events") BY <2>3
    <2> HIDE DEF w, run
    <2>5. v \in Proxy(cf)!Request
      <3>1. [q EXCEPT !.conn = "answered", !.reply = reply, !.quiet = 0] \in Proxy(cf)!Request
        BY ONLY <1>0, <2>2 DEF Proxy!Request
      <3>2. \A x \in Proxy(cf)!Request :
               [x EXCEPT !.whole = w, !.run = run] \in Proxy(cf)!Request
        BY ONLY <2>2, <2>4, Edited
      <3>3. v = [[q EXCEPT !.conn = "answered", !.reply = reply, !.quiet = 0]
                    EXCEPT !.whole = w, !.run = run]
        BY ONLY <1>0 DEF Proxy!Request
      <3> QED BY ONLY <3>1, <3>2, <3>3
    <2>6. /\ ButFor(q, v, {"conn", "reply", "whole", "quiet", "run"})
          /\ v.conn = "answered" /\ v.reply = reply /\ v.whole = w /\ v.run = run
      BY ONLY <1>0 DEF Proxy!Request, ButFor, Fields
    <2> HIDE DEF v
    <2>7. OwnerOf(cf, v) /\ RunOf(cf, v) /\ PermitOf(cf, v)
      BY ONLY <1>0, <2>2, <2>3, <2>4, <2>6 DEF OwnerOf, RunOf, PermitOf, RequestOk, ButFor, Fields
    <2>8. v.slot = q.slot /\ v.pc = q.pc BY ONLY <2>6 DEF ButFor, Fields
    <2> QED BY <1>1, <2>1, <2>5, <2>7, <2>8, Aside DEF RequestOk, q
  <1>3. CASE Proxy(cf)!Refuse(r)
    <2> DEFINE v == [q EXCEPT !.conn = "failed"]
    <2>1. req' = [req EXCEPT ![r] = v] /\ q.conn = "asked" BY <1>3 DEF Proxy!Refuse, q
    <2>2. v \in Proxy(cf)!Request BY ONLY <1>0 DEF Proxy!Request
    <2>3. ButFor(q, v, {"conn"}) /\ v.conn = "failed"
      BY ONLY <1>0 DEF Proxy!Request, ButFor, Fields
    <2> HIDE DEF v
    <2>4. OwnerOf(cf, v) /\ RunOf(cf, v) /\ PermitOf(cf, v)
      BY ONLY <1>0, <2>1, <2>3 DEF OwnerOf, RunOf, PermitOf, RequestOk, ButFor, Fields
    <2>5. v.slot = q.slot /\ v.pc = q.pc BY ONLY <2>3 DEF ButFor, Fields
    <2> QED BY <1>1, <2>1, <2>2, <2>4, <2>5, Aside DEF RequestOk, q
  <1>4. CASE Proxy(cf)!RunEnds(r)
    <2> DEFINE v == [q EXCEPT !.run = "over"]
    <2>1. req' = [req EXCEPT ![r] = v] /\ q.run = "live" BY <1>4 DEF Proxy!RunEnds, q
    <2>2. v \in Proxy(cf)!Request BY ONLY <1>0 DEF Proxy!Request
    <2>3. ButFor(q, v, {"run"}) /\ v.run = "over"
      BY ONLY <1>0 DEF Proxy!Request, ButFor, Fields
    <2> HIDE DEF v
    <2>4. OwnerOf(cf, v) /\ RunOf(cf, v) /\ PermitOf(cf, v)
      BY ONLY <1>0, <2>1, <2>3 DEF OwnerOf, RunOf, PermitOf, RequestOk, ButFor, Fields
    <2>5. v.slot = q.slot /\ v.pc = q.pc BY ONLY <2>3 DEF ButFor, Fields
    <2> QED BY <1>1, <2>1, <2>2, <2>4, <2>5, Aside DEF RequestOk, q
  <1> QED BY <1>2, <1>3, <1>4

\* A handler that gives up before it has an answer to relay: what it cuts was
\* refused as too large, or had stalled.
LEMMA GiveUpKept ==
  ASSUME NEW cf, Proxy(cf)!ProxyAssumption, ProxyInv(cf), NEW r \in cf.Reqs,
         NEW why \in {"413", "504", "error"}, Proxy(cf)!GiveUp(r, why), req[r].pc = "asking",
         why = "error" /\ ~req[r].over => cf.Shutdown \/ req[r].run = "none"
  PROVE  ProxyInv(cf)'
  <1> DEFINE q == req[r]
             run == Proxy(cf)!Dropped(q.run)
             reply == IF q.over THEN "413" ELSE why
             v == [q EXCEPT !.pc = "end", !.conn = "ended", !.run = run, !.out = reply]
  <1>0. q \in Proxy(cf)!Request /\ RequestOk(cf, q) BY DEF ProxyInv
  <1>1. req' = [req EXCEPT ![r] = v] /\ UNCHANGED <<free, waiters>>
    BY DEF Proxy!GiveUp, Proxy!Keep
  <1>2. q.run \in {"none", "live", "over", "cut"} BY ONLY <1>0 DEF Proxy!Request
  <1>3. /\ q.pc = "asking" /\ reply \in {"413", "504", "error"} /\ (q.over => reply = "413")
        /\ reply = "error" => cf.Shutdown \/ q.run = "none"
    OBVIOUS
  <1>4. run \in {"none", "over", "cut"} /\ (q.run = "none" <=> run = "none")
    BY <1>2 DEF Proxy!Dropped
  <1> HIDE DEF q, run, reply
  <1>5. v \in Proxy(cf)!Request
    <2>1. [q EXCEPT !.run = run, !.out = reply] \in Proxy(cf)!Request
      BY ONLY <1>0, <1>3, <1>4, Edited
    <2>2. \A x \in Proxy(cf)!Request :
             [x EXCEPT !.pc = "end", !.conn = "ended"] \in Proxy(cf)!Request
      BY ONLY Edited
    <2>3. v = [[q EXCEPT !.run = run, !.out = reply] EXCEPT !.pc = "end", !.conn = "ended"]
      BY ONLY <1>0 DEF Proxy!Request
    <2> QED BY ONLY <2>1, <2>2, <2>3
  <1>6. /\ ButFor(q, v, {"pc", "conn", "run", "out"})
        /\ v.pc = "end" /\ v.conn = "ended" /\ v.run = run /\ v.out = reply
    BY ONLY <1>0 DEF Proxy!Request, ButFor, Fields
  <1> HIDE DEF v
  <1>7. OwnerOf(cf, v)
    BY ONLY <1>0, <1>3, <1>6 DEF OwnerOf, RequestOk, ButFor, Fields
  <1>8. RunOf(cf, v)
    BY ONLY <1>0, <1>3, <1>4, <1>6 DEF OwnerOf, RunOf, RequestOk, ButFor, Fields
  <1>9. PermitOf(cf, v) /\ v.slot = q.slot
    BY ONLY <1>0, <1>3, <1>6 DEF PermitOf, RequestOk, ButFor, Fields
  <1> QED BY <1>1, <1>3, <1>5, <1>6, <1>7, <1>8, <1>9, Aside DEF RequestOk, q

LEMMA AskingKept ==
  ASSUME NEW cf, Proxy(cf)!ProxyAssumption, ProxyInv(cf), NEW r \in cf.Reqs,
         \/ Proxy(cf)!OverCap(r) \/ Proxy(cf)!RequestFails(r) \/ Proxy(cf)!UploadStalls(r)
         \/ Proxy(cf)!HeaderDeadline(r) \/ (Proxy(cf)!Cancel(r) /\ req[r].pc = "asking")
  PROVE  ProxyInv(cf)'
  BY GiveUpKept DEF ProxyInv, RequestOk, RunOf, Proxy!OverCap, Proxy!RequestFails, Proxy!UploadStalls,
     Proxy!HeaderDeadline, Proxy!Cancel, Proxy!Asking

\* Who holds a permit, and who waits, after a step of r alone.
LEMMA HoldersMove ==
  ASSUME NEW cf, Proxy(cf)!ProxyAssumption, ProxyInv(cf), NEW r \in cf.Reqs, NEW v,
         req' = [req EXCEPT ![r] = v]
  PROVE  /\ Holders(cf)' = IF v.slot THEN Holders(cf) \cup {r} ELSE Holders(cf) \ {r}
         /\ IsFiniteSet(Holders(cf)) /\ Cardinality(Holders(cf)) \in Nat
         /\ req[r].slot => Cardinality(Holders(cf)) >= 1
         /\ Cardinality(Holders(cf)') =
               Cardinality(Holders(cf)) + (IF v.slot THEN 1 ELSE 0)
                                        - (IF req[r].slot THEN 1 ELSE 0)
         /\ {x \in cf.Reqs : req'[x].pc \in {"queue", "slotwait"}} =
               IF v.pc \in {"queue", "slotwait"}
               THEN {x \in cf.Reqs : req[x].pc \in {"queue", "slotwait"}} \cup {r}
               ELSE {x \in cf.Reqs : req[x].pc \in {"queue", "slotwait"}} \ {r}
  <1>0. \A x \in cf.Reqs : req'[x] = IF x = r THEN v ELSE req[x] BY DEF ProxyInv
  <1>1. Holders(cf)' = IF v.slot THEN Holders(cf) \cup {r} ELSE Holders(cf) \ {r}
    BY <1>0 DEF Holders
  <1>2. IsFiniteSet(Holders(cf))
    BY ProxyLists, FS_Subset DEF Proxy!ProxyAssumption, Holders
  <1>3. Cardinality(Holders(cf)) \in Nat BY <1>2, FS_CardinalityType
  <1>4. r \in Holders(cf) <=> req[r].slot BY DEF Holders
  <1>5. r \in Holders(cf) => Cardinality(Holders(cf)) >= 1
    BY <1>2, FS_EmptySet, <1>3
  <1>6. /\ Cardinality(Holders(cf) \cup {r}) =
             IF r \in Holders(cf) THEN Cardinality(Holders(cf)) ELSE Cardinality(Holders(cf)) + 1
        /\ Cardinality(Holders(cf) \ {r}) =
             IF r \in Holders(cf) THEN Cardinality(Holders(cf)) - 1 ELSE Cardinality(Holders(cf))
    BY ONLY <1>2, FS_AddElement, FS_RemoveElement
  <1>7. Cardinality(Holders(cf)') =
           Cardinality(Holders(cf)) + (IF v.slot THEN 1 ELSE 0) - (IF req[r].slot THEN 1 ELSE 0)
    BY ONLY <1>1, <1>3, <1>4, <1>6
  <1>8. {x \in cf.Reqs : req'[x].pc \in {"queue", "slotwait"}} =
           IF v.pc \in {"queue", "slotwait"}
           THEN {x \in cf.Reqs : req[x].pc \in {"queue", "slotwait"}} \cup {r}
           ELSE {x \in cf.Reqs : req[x].pc \in {"queue", "slotwait"}} \ {r}
    BY ONLY <1>0, r \in cf.Reqs
  <1> QED BY <1>1, <1>2, <1>3, <1>4, <1>5, <1>7, <1>8

LEMMA Settles ==
  ASSUME NEW cf, Proxy(cf)!ProxyAssumption, ProxyInv(cf), NEW r \in cf.Reqs, NEW v,
         RequestOk(cf, v), req' = [req EXCEPT ![r] = v], SlotFacts(cf)'
  PROVE  ProxyInv(cf)'
  BY DEF ProxyInv, RequestOk, Proxy!Request

\* r takes its place in the queue of the semaphore.
LEMMA Queues ==
  ASSUME NEW cf, Proxy(cf)!ProxyAssumption, ProxyInv(cf), NEW r \in cf.Reqs, NEW v,
         RequestOk(cf, v), req' = [req EXCEPT ![r] = v], v.pc \in {"queue", "slotwait"},
         req[r].pc \notin {"queue", "slotwait"}, ~req[r].slot, ~v.slot,
         waiters' = Append(waiters, r), UNCHANGED free
  PROVE  ProxyInv(cf)'
  <1>1. /\ waiters \in Seq(cf.Reqs) /\ IsInjective(waiters)
        /\ Range(waiters) = {x \in cf.Reqs : req[x].pc \in {"queue", "slotwait"}}
        /\ free \in Nat /\ free + Cardinality(Holders(cf)) = cf.BigSlots
    BY DEF ProxyInv, SlotFacts
  <1>2. r \notin Range(waiters) BY <1>1
  <1>3. /\ waiters' \in Seq(cf.Reqs) /\ IsInjective(waiters')
        /\ Range(waiters') = Range(waiters) \cup {r}
    BY ONLY <1>1, <1>2, r \in cf.Reqs, waiters' = Append(waiters, r), AppendIs, AddedIs
  <1>4. Range(waiters') = {x \in cf.Reqs : req'[x].pc \in {"queue", "slotwait"}}
    BY <1>1, <1>3, HoldersMove
  <1>5. Cardinality(Holders(cf)') = Cardinality(Holders(cf)) /\ Cardinality(Holders(cf)) \in Nat
    BY HoldersMove DEF Holders
  <1>6. SlotFacts(cf)' BY <1>1, <1>3, <1>4, <1>5 DEF SlotFacts
  <1> QED BY <1>6, Settles

\* r leaves the queue, and gives back the permit it may hold.
LEMMA Leaves ==
  ASSUME NEW cf, Proxy(cf)!ProxyAssumption, ProxyInv(cf), NEW r \in cf.Reqs, NEW v,
         RequestOk(cf, v), req' = [req EXCEPT ![r] = v], v.pc \notin {"queue", "slotwait"},
         ~v.slot, waiters' = Removed(waiters, r),
         free' = IF req[r].slot THEN free + 1 ELSE free
  PROVE  ProxyInv(cf)'
  <1>1. /\ waiters \in Seq(cf.Reqs) /\ IsInjective(waiters)
        /\ Range(waiters) = {x \in cf.Reqs : req[x].pc \in {"queue", "slotwait"}}
        /\ free \in Nat /\ free + Cardinality(Holders(cf)) = cf.BigSlots
    BY DEF ProxyInv, SlotFacts
  <1>2. /\ waiters' \in Seq(cf.Reqs) /\ IsInjective(waiters')
        /\ Range(waiters') = Range(waiters) \ {r}
    BY ONLY <1>1, waiters' = Removed(waiters, r), RemovedIs
  <1>3. Range(waiters') = {x \in cf.Reqs : req'[x].pc \in {"queue", "slotwait"}}
    BY <1>1, <1>2, HoldersMove
  <1>4. /\ Cardinality(Holders(cf)') =
             Cardinality(Holders(cf)) - (IF req[r].slot THEN 1 ELSE 0)
        /\ Cardinality(Holders(cf)) \in Nat
    <2>1. /\ Cardinality(Holders(cf)') = Cardinality(Holders(cf))
               + (IF v.slot THEN 1 ELSE 0) - (IF req[r].slot THEN 1 ELSE 0)
          /\ Cardinality(Holders(cf)) \in Nat
      BY HoldersMove
    <2> QED BY <2>1
  <1>5. free' \in Nat /\ free' + Cardinality(Holders(cf)') = cf.BigSlots
    BY <1>1, <1>4
  <1>6. SlotFacts(cf)' BY <1>2, <1>3, <1>5 DEF SlotFacts
  <1> QED BY <1>6, Settles

\* The head of the queue gets a permit.
LEMMA AcquireKept ==
  ASSUME NEW cf, Proxy(cf)!ProxyAssumption, ProxyInv(cf), NEW r \in cf.Reqs,
         Proxy(cf)!Acquire(r)
  PROVE  ProxyInv(cf)'
  <1> DEFINE q == req[r]
             pc == IF q.pc = "queue" THEN "first" ELSE "writing"
             v == [q EXCEPT !.slot = TRUE, !.clock = 0, !.pc = pc]
  <1>0. q \in Proxy(cf)!Request /\ RequestOk(cf, q) BY DEF ProxyInv
  <1>1. /\ waiters # <<>> /\ r = Head(waiters) /\ free > 0 /\ waiters' = Tail(waiters)
        /\ free' = free - 1 /\ req' = [req EXCEPT ![r] = v]
    BY DEF Proxy!Acquire
  <1>2. /\ waiters \in Seq(cf.Reqs) /\ IsInjective(waiters)
        /\ Range(waiters) = {x \in cf.Reqs : req[x].pc \in {"queue", "slotwait"}}
        /\ free \in Nat /\ free + Cardinality(Holders(cf)) = cf.BigSlots
    BY DEF ProxyInv, SlotFacts
  <1>3. /\ Head(waiters) = waiters[1] /\ 1 \in DOMAIN waiters /\ waiters' \in Seq(cf.Reqs)
        /\ DOMAIN waiters' = 1..(Len(waiters) - 1) /\ DOMAIN waiters = 1..Len(waiters)
        /\ Len(waiters) \in Nat
        /\ \A i \in DOMAIN waiters' : waiters'[i] = waiters[i + 1] /\ i + 1 \in DOMAIN waiters
        /\ \A i \in DOMAIN waiters :
              i = 1 \/ (i - 1 \in DOMAIN waiters' /\ waiters'[i - 1] = waiters[i])
    BY <1>1, <1>2, HeadTailIs
  <1>4. IsInjective(waiters')
    <2> SUFFICES ASSUME NEW a \in DOMAIN waiters', NEW b \in DOMAIN waiters',
                        waiters'[a] = waiters'[b]
                 PROVE  a = b
      BY DEF IsInjective
    <2>1. a + 1 = b + 1 BY <1>2, <1>3 DEF IsInjective
    <2> QED BY <1>3, <2>1
  <1>5. Range(waiters') = Range(waiters) \ {r}
    <2>1. \A i \in DOMAIN waiters' : waiters'[i] \in Range(waiters) \ {r}
      <3> SUFFICES ASSUME NEW i \in DOMAIN waiters' PROVE waiters'[i] \in Range(waiters) \ {r}
        OBVIOUS
      <3>1. waiters'[i] = waiters[i + 1] /\ i + 1 \in DOMAIN waiters /\ i + 1 # 1
        BY <1>3
      <3>2. waiters[i + 1] # waiters[1] BY <1>2, <1>3, <3>1 DEF IsInjective
      <3> QED BY <1>1, <1>3, <3>1, <3>2 DEF Range
    <2>2. ASSUME NEW x \in Range(waiters) \ {r} PROVE \E j \in DOMAIN waiters' : waiters'[j] = x
      <3>1. PICK i \in DOMAIN waiters : waiters[i] = x BY ONLY <2>2 DEF Range
      <3>2. i # 1 BY ONLY <1>1, <1>3, <2>2, <3>1
      <3>3. i - 1 \in DOMAIN waiters' /\ waiters'[i - 1] = x BY ONLY <1>3, <3>1, <3>2
      <3> QED BY ONLY <3>3
    <2>3. \A x : x \in Range(waiters') <=> \E j \in DOMAIN waiters' : waiters'[j] = x
      BY DEF Range
    <2> QED BY ONLY <2>1, <2>2, <2>3
  <1>6. q.pc \in {"queue", "slotwait"} /\ ~q.slot
    BY <1>1, <1>3, <1>2, <1>0 DEF Range, RequestOk, PermitOf
  <1>7. pc \in {"first", "writing"} /\ (pc = "first" => q.pc = "queue") /\ 0 \in 0..Proxy(cf)!Longest
    BY LongestIs
  <1> HIDE DEF q, pc
  <1>8. v \in Proxy(cf)!Request
    BY ONLY <1>0, <1>7, Edited
  <1>9. /\ ButFor(q, v, {"slot", "clock", "pc"}) /\ v.slot = TRUE /\ v.pc = pc
    BY ONLY <1>0 DEF Proxy!Request, ButFor, Fields
  <1> HIDE DEF v
  <1>10. OwnerOf(cf, v) /\ RunOf(cf, v) /\ PermitOf(cf, v)
    BY ONLY <1>0, <1>6, <1>7, <1>9 DEF OwnerOf, RunOf, PermitOf, RequestOk, ButFor, Fields
  <1>11. Range(waiters') = {x \in cf.Reqs : req'[x].pc \in {"queue", "slotwait"}}
    BY <1>1, <1>2, <1>5, <1>7, <1>9, HoldersMove
  <1>12. Cardinality(Holders(cf)') = Cardinality(Holders(cf)) + 1
         /\ Cardinality(Holders(cf)) \in Nat
    <2>1. /\ Cardinality(Holders(cf)') = Cardinality(Holders(cf))
               + (IF v.slot THEN 1 ELSE 0) - (IF req[r].slot THEN 1 ELSE 0)
          /\ Cardinality(Holders(cf)) \in Nat
      BY <1>1, HoldersMove
    <2> HIDE DEF q
    <2>2. v.slot /\ ~req[r].slot BY <1>6, <1>9 DEF q
    <2> QED BY ONLY <2>1, <2>2
  <1>13. SlotFacts(cf)'
    <2>1. free' \in Nat /\ free' + (Cardinality(Holders(cf)) + 1) = cf.BigSlots
      BY ONLY <1>1, <1>2, <1>12
    <2>2. free' + Cardinality(Holders(cf)') = cf.BigSlots BY ONLY <1>12, <2>1
    <2> QED BY ONLY <1>3, <1>4, <1>11, <2>1, <2>2 DEF SlotFacts
  <1> QED BY <1>1, <1>8, <1>10, <1>13, Settles DEF RequestOk

\* The response is handed to its relay.
LEMMA HandOverKept ==
  ASSUME NEW cf, Proxy(cf)!ProxyAssumption, ProxyInv(cf), NEW r \in cf.Reqs,
         Proxy(cf)!HandOver(r)
  PROVE  ProxyInv(cf)'
  <1> DEFINE q == req[r]
             pc == Proxy(cf)!Relay[q.reply]
             v == [q EXCEPT !.clock = 0, !.pc = pc]
  <1>0. q \in Proxy(cf)!Request /\ RequestOk(cf, q) BY DEF ProxyInv
  <1>1. /\ q.pc = "asking" /\ q.conn = "answered" /\ ~q.over /\ req' = [req EXCEPT ![r] = v]
        /\ waiters' = (IF q.reply = "big" THEN Append(waiters, r) ELSE waiters)
        /\ UNCHANGED free
    <2>1. req' = [req EXCEPT ![r] = v] BY DEF Proxy!HandOver
    <2> HIDE DEF v, pc
    <2>2. /\ q.pc = "asking" /\ q.conn = "answered" /\ ~q.over /\ UNCHANGED free
          /\ waiters' = (IF q.reply = "big" THEN Append(waiters, r) ELSE waiters)
      BY DEF Proxy!HandOver, Proxy!Asking
    <2> QED BY <2>1, <2>2
  <1>2. q.reply \in {"none", "events", "plain", "big"} /\ 0 \in 0..Proxy(cf)!Longest
    BY <1>0, LongestIs DEF Proxy!Request
  <1>3. q.whole /\ ~q.drain /\ ~q.slot /\ q.streamed = 0
    BY ONLY <1>0, <1>1 DEF RequestOk, OwnerOf, PermitOf, Proxy!Request
  <1>4. /\ pc \in {"sse", "first", "queue"} /\ (pc = "queue" <=> q.reply = "big")
        /\ (pc = "sse" <=> q.reply = "events")
    BY <1>0, <1>1, <1>2 DEF RequestOk, OwnerOf, Proxy!Relay
  <1> HIDE DEF q, pc
  <1>5. v \in Proxy(cf)!Request BY ONLY <1>0, <1>2, <1>4, Edited
  <1>6. ButFor(q, v, {"clock", "pc"}) /\ v.pc = pc
    BY ONLY <1>0 DEF Proxy!Request, ButFor, Fields
  <1> HIDE DEF v
  <1>7. OwnerOf(cf, v) /\ RunOf(cf, v) /\ PermitOf(cf, v)
    BY ONLY <1>0, <1>1, <1>3, <1>4, <1>6 DEF OwnerOf, RunOf, PermitOf, RequestOk, ButFor, Fields
  <1>8. v.slot = q.slot BY ONLY <1>6 DEF ButFor, Fields
  <1>9. CASE q.reply = "big"
    BY <1>1, <1>3, <1>4, <1>5, <1>6, <1>7, <1>8, <1>9, Queues DEF RequestOk, q
  <1>10. CASE q.reply # "big"
    BY <1>1, <1>4, <1>5, <1>6, <1>7, <1>8, <1>10, Aside DEF RequestOk, q
  <1> QED BY <1>9, <1>10

\* A plain body is relayed chunk by chunk.
LEMMA SettleKept ==
  ASSUME NEW cf, Proxy(cf)!ProxyAssumption, ProxyInv(cf), NEW r \in cf.Reqs,
         NEW why \in {"504", "error", "begun"}, Proxy(cf)!Settle(r, why),
         req[r].pc \in {"first", "reading", "writing", "slotwait"}
  PROVE  ProxyInv(cf)'
  <1> DEFINE q == req[r]
             v == [q EXCEPT !.pc = "end", !.conn = "ended", !.slot = FALSE, !.out = why]
  <1>0. q \in Proxy(cf)!Request /\ RequestOk(cf, q) BY DEF ProxyInv
  <1>1. /\ req' = [req EXCEPT ![r] = v] /\ waiters' = Removed(waiters, r)
        /\ free' = IF q.slot THEN free + 1 ELSE free
    BY ProxyLists DEF Proxy!Settle
  <1>2. q.pc \in {"first", "reading", "writing", "slotwait"} OBVIOUS
  <1> HIDE DEF q
  <1>3. v \in Proxy(cf)!Request BY ONLY <1>0, why \in {"504", "error", "begun"}, Edited
  <1>4. /\ ButFor(q, v, {"pc", "conn", "slot", "out"})
        /\ v.pc = "end" /\ v.conn = "ended" /\ ~v.slot /\ v.out = why
    BY ONLY <1>0 DEF Proxy!Request, ButFor, Fields
  <1> HIDE DEF v
  <1>5. OwnerOf(cf, v) /\ RunOf(cf, v) /\ PermitOf(cf, v)
    BY ONLY <1>0, <1>2, <1>4 DEF OwnerOf, RunOf, PermitOf, RequestOk, ButFor, Fields
  <1> QED BY <1>1, <1>3, <1>4, <1>5, Leaves DEF RequestOk, q

LEMMA FirstChunkKept ==
  ASSUME NEW cf, Proxy(cf)!ProxyAssumption, ProxyInv(cf), NEW r \in cf.Reqs,
         Proxy(cf)!FirstChunk(r), req[r].here
  PROVE  ProxyInv(cf)'
  <1> DEFINE q == req[r]
             v == [q EXCEPT !.pc = "writing", !.out = "begun", !.streamed = 1]
  <1>0. q \in Proxy(cf)!Request /\ RequestOk(cf, q) BY DEF ProxyInv
  <1>1. req' = [req EXCEPT ![r] = v] /\ q.pc = "first" /\ UNCHANGED <<free, waiters>>
    BY DEF Proxy!FirstChunk, Proxy!Keep
  <1>2. 1 \in 0..(cf.LastChunk + 1) /\ ~(1 > cf.BigChunks) BY LongestIs
  <1> HIDE DEF q
  <1>3. v \in Proxy(cf)!Request BY ONLY <1>0, <1>2, Edited
  <1>4. ButFor(q, v, {"pc", "out", "streamed"}) /\ v.pc = "writing" /\ v.out = "begun" /\ v.streamed = 1
    BY ONLY <1>0 DEF Proxy!Request, ButFor, Fields
  <1> HIDE DEF v
  <1>5. OwnerOf(cf, v) /\ RunOf(cf, v) /\ PermitOf(cf, v)
    BY ONLY <1>0, <1>1, <1>2, <1>4 DEF OwnerOf, RunOf, PermitOf, RequestOk, ButFor, Fields
  <1>6. v.slot = q.slot BY ONLY <1>4 DEF ButFor, Fields
  <1> QED BY <1>1, <1>3, <1>4, <1>5, <1>6, Aside DEF RequestOk, q

LEMMA NextChunkKept ==
  ASSUME NEW cf, Proxy(cf)!ProxyAssumption, ProxyInv(cf), NEW r \in cf.Reqs,
         Proxy(cf)!NextChunk(r)
  PROVE  ProxyInv(cf)'
  <1> DEFINE q == req[r]
             n == q.streamed + 1
             wait == ~q.slot /\ n > cf.BigChunks
             pc == IF wait THEN "slotwait" ELSE "writing"
             v == [q EXCEPT !.streamed = n, !.pc = pc]
  <1>0. q \in Proxy(cf)!Request /\ RequestOk(cf, q) BY DEF ProxyInv
  <1>1. /\ req' = [req EXCEPT ![r] = v] /\ q.pc = "reading" /\ q.streamed < cf.LastChunk
        /\ waiters' = (IF wait THEN Append(waiters, r) ELSE waiters) /\ UNCHANGED free
    BY DEF Proxy!NextChunk
  <1>2. n \in 0..(cf.LastChunk + 1)
    <2>1. q.streamed \in 0..(cf.LastChunk + 1) BY ONLY <1>0 DEF Proxy!Request
    <2> QED BY <1>1, <2>1, LongestIs
  <1>3. /\ pc \in {"slotwait", "writing"} /\ (pc = "slotwait" <=> wait)
        /\ (n > cf.BigChunks /\ ~q.slot => pc = "slotwait") /\ (wait => ~q.slot)
    OBVIOUS
  <1> HIDE DEF q, n, wait, pc
  <1>4. v \in Proxy(cf)!Request BY ONLY <1>0, <1>2, <1>3, Edited
  <1>5. ButFor(q, v, {"pc", "streamed"}) /\ v.pc = pc /\ v.streamed = n
    BY ONLY <1>0 DEF Proxy!Request, ButFor, Fields
  <1> HIDE DEF v
  <1>6. OwnerOf(cf, v) /\ RunOf(cf, v)
    BY ONLY <1>0, <1>1, <1>3, <1>5 DEF OwnerOf, RunOf, RequestOk, ButFor, Fields
  <1>7. v.slot = q.slot BY ONLY <1>5 DEF ButFor, Fields
  <1>8. CASE wait
    BY <1>3, <1>5, <1>7, <1>8, <1>1, <1>4, <1>6, Queues DEF PermitOf, RequestOk, q
  <1>9. CASE ~wait
    BY <1>3, <1>5, <1>9, <1>7, <1>1, <1>4, <1>6, Aside DEF PermitOf, RequestOk, q
  <1> QED BY <1>8, <1>9

LEMMA WriteOnKept ==
  ASSUME NEW cf, Proxy(cf)!ProxyAssumption, ProxyInv(cf), NEW r \in cf.Reqs,
         Proxy(cf)!Write(r), req[r].here
  PROVE  ProxyInv(cf)'
  <1> DEFINE q == req[r]
             v == [q EXCEPT !.pc = "reading", !.clock = 0]
  <1>0. q \in Proxy(cf)!Request /\ RequestOk(cf, q) BY DEF ProxyInv
  <1>1. req' = [req EXCEPT ![r] = v] /\ q.pc = "writing" /\ UNCHANGED <<free, waiters>>
    BY DEF Proxy!Write, Proxy!Keep
  <1>2. 0 \in 0..Proxy(cf)!Longest BY LongestIs
  <1> HIDE DEF q
  <1>3. v \in Proxy(cf)!Request BY ONLY <1>0, <1>2, Edited
  <1>4. ButFor(q, v, {"pc", "clock"}) /\ v.pc = "reading"
    BY ONLY <1>0 DEF Proxy!Request, ButFor, Fields
  <1> HIDE DEF v
  <1>5. OwnerOf(cf, v) /\ RunOf(cf, v) /\ PermitOf(cf, v)
    BY ONLY <1>0, <1>1, <1>4 DEF OwnerOf, RunOf, PermitOf, RequestOk, ButFor, Fields
  <1>6. v.slot = q.slot BY ONLY <1>4 DEF ButFor, Fields
  <1> QED BY <1>1, <1>3, <1>4, <1>5, <1>6, Aside DEF RequestOk, q

LEMMA StreamKept ==
  ASSUME NEW cf, Proxy(cf)!ProxyAssumption, ProxyInv(cf), NEW r \in cf.Reqs,
         \/ Proxy(cf)!FirstChunk(r) \/ Proxy(cf)!NextChunk(r) \/ Proxy(cf)!Write(r)
         \/ Proxy(cf)!BodyEof(r) \/ Proxy(cf)!ReadDeadline(r) \/ Proxy(cf)!ReadFails(r)
  PROVE  ProxyInv(cf)'
  BY FirstChunkKept, NextChunkKept, WriteOnKept, SettleKept DEF Proxy!FirstChunk, Proxy!Write,
     Proxy!BodyEof, Proxy!ReadDeadline, Proxy!ReadFails

\* The event stream, and the drain that outlives the browser.
LEMMA SpawnKept ==
  ASSUME NEW cf, Proxy(cf)!ProxyAssumption, ProxyInv(cf), NEW r \in cf.Reqs,
         NEW quiet \in 0..cf.Silence, Proxy(cf)!SpawnDrain(r, quiet), req[r].pc = "sse"
  PROVE  ProxyInv(cf)'
  <1> DEFINE q == req[r]
             v == [q EXCEPT !.pc = "end", !.drain = TRUE, !.clock = 0, !.age = 0,
                            !.quiet = quiet, !.out = "begun"]
  <1>0. q \in Proxy(cf)!Request /\ RequestOk(cf, q) BY DEF ProxyInv
  <1>1. req' = [req EXCEPT ![r] = v] /\ q.pc = "sse" /\ UNCHANGED <<free, waiters>>
    BY DEF Proxy!SpawnDrain, Proxy!Keep
  <1>2. 0 \in 0..Proxy(cf)!Longest /\ 0 \in 0..cf.Ceiling BY LongestIs
  <1> HIDE DEF q
  <1>3. v \in Proxy(cf)!Request
    <2>1. [[[q EXCEPT !.pc = "end"] EXCEPT !.drain = TRUE] EXCEPT !.clock = 0] \in Proxy(cf)!Request
      BY ONLY <1>0, <1>2, Edited
    <2>2. \A w \in Proxy(cf)!Request :
             [[[w EXCEPT !.age = 0] EXCEPT !.quiet = quiet] EXCEPT !.out = "begun"] \in Proxy(cf)!Request
      BY ONLY <1>2, quiet \in 0..cf.Silence, Edited
    <2>3. v = [[[[[[q EXCEPT !.pc = "end"] EXCEPT !.drain = TRUE] EXCEPT !.clock = 0]
                 EXCEPT !.age = 0] EXCEPT !.quiet = quiet] EXCEPT !.out = "begun"]
      BY ONLY <1>0 DEF Proxy!Request
    <2> QED BY ONLY <2>1, <2>2, <2>3
  <1>4. /\ ButFor(q, v, {"pc", "drain", "clock", "age", "quiet", "out"})
        /\ v.pc = "end" /\ v.drain /\ v.clock = 0 /\ v.quiet = quiet /\ v.out = "begun"
    BY ONLY <1>0 DEF Proxy!Request, ButFor, Fields
  <1> HIDE DEF v
  <1>5. OwnerOf(cf, v) /\ PermitOf(cf, v)
    BY ONLY <1>0, <1>1, <1>4 DEF OwnerOf, PermitOf, RequestOk, ButFor, Fields
  <1>6. RunOf(cf, v)
    BY <1>4, <1>0, <1>1 DEF OwnerOf, RunOf, RequestOk, ButFor, Fields
  <1>7. v.slot = q.slot BY ONLY <1>4 DEF ButFor, Fields
  <1> QED BY <1>1, <1>3, <1>4, <1>5, <1>6, <1>7, Aside DEF RequestOk, q

LEMMA SseKept ==
  ASSUME NEW cf, Proxy(cf)!ProxyAssumption, ProxyInv(cf), NEW r \in cf.Reqs,
         \/ Proxy(cf)!SseChunk(r) \/ Proxy(cf)!SseFails(r) \/ Proxy(cf)!SseEof(r)
         \/ Proxy(cf)!DrainChunk(r)
  PROVE  ProxyInv(cf)'
  <1> DEFINE q == req[r]
  <1>0. q \in Proxy(cf)!Request /\ RequestOk(cf, q) BY DEF ProxyInv
  <1>1. q.quiet \in 0..cf.Silence /\ 0 \in 0..cf.Silence /\ 0 \in 0..Proxy(cf)!Longest
    BY <1>0, LongestIs DEF Proxy!Request
  <1>2. CASE q.pc = "sse" /\ \E quiet \in 0..cf.Silence : Proxy(cf)!SpawnDrain(r, quiet)
    BY <1>2, SpawnKept
  <1> HIDE DEF q
  <1>3. CASE Proxy(cf)!SseChunk(r) /\ q.here
    <2> DEFINE v == [q EXCEPT !.quiet = 0, !.out = "begun"]
    <2>1. req' = [req EXCEPT ![r] = v] /\ q.pc = "sse" /\ UNCHANGED <<free, waiters>>
          /\ q.run = "live"
      BY <1>3 DEF Proxy!SseChunk, Proxy!Keep, q
    <2>2. v \in Proxy(cf)!Request BY ONLY <1>0, <1>1, Edited
    <2>3. ButFor(q, v, {"quiet", "out"}) BY ONLY <1>0 DEF Proxy!Request, ButFor, Fields
    <2> HIDE DEF v
    <2>4. OwnerOf(cf, v) /\ RunOf(cf, v) /\ PermitOf(cf, v)
      BY ONLY <1>0, <2>1, <2>3 DEF OwnerOf, RunOf, PermitOf, RequestOk, ButFor, Fields
    <2>5. v.slot = q.slot /\ v.pc = q.pc BY ONLY <2>3 DEF ButFor, Fields
    <2> QED BY <2>1, <2>2, <2>4, <2>5, Aside DEF RequestOk, q
  <1>4. CASE Proxy(cf)!SseEof(r)
    <2> DEFINE v == [q EXCEPT !.pc = "end", !.conn = "ended", !.out = "begun"]
    <2>1. req' = [req EXCEPT ![r] = v] /\ q.pc = "sse" /\ UNCHANGED <<free, waiters>>
          /\ q.run = "over"
      BY <1>4 DEF Proxy!SseEof, Proxy!Keep, q
    <2>2. v \in Proxy(cf)!Request BY ONLY <1>0, <1>1, Edited
    <2>3. ButFor(q, v, {"pc", "conn", "out"}) /\ v.pc = "end" /\ v.conn = "ended"
      BY ONLY <1>0 DEF Proxy!Request, ButFor, Fields
    <2> HIDE DEF v
    <2>4. OwnerOf(cf, v) /\ RunOf(cf, v) /\ PermitOf(cf, v)
      BY ONLY <1>0, <2>1, <2>3 DEF OwnerOf, RunOf, PermitOf, RequestOk, ButFor, Fields
    <2>5. v.slot = q.slot BY ONLY <2>3 DEF ButFor, Fields
    <2> QED BY <2>1, <2>2, <2>3, <2>4, <2>5, Aside DEF RequestOk, q
  <1>5. CASE Proxy(cf)!DrainChunk(r)
    <2> DEFINE v == [q EXCEPT !.clock = 0, !.quiet = 0]
    <2>1. req' = [req EXCEPT ![r] = v] /\ q.drain /\ UNCHANGED <<free, waiters>>
          /\ q.run = "live"
      BY <1>5 DEF Proxy!DrainChunk, Proxy!Keep, q
    <2>2. v \in Proxy(cf)!Request BY ONLY <1>0, <1>1, Edited
    <2>3. ButFor(q, v, {"clock", "quiet"}) /\ v.clock = 0 /\ v.quiet = 0
      BY ONLY <1>0 DEF Proxy!Request, ButFor, Fields
    <2> HIDE DEF v
    <2>4. OwnerOf(cf, v) /\ RunOf(cf, v) /\ PermitOf(cf, v)
      BY ONLY <1>0, <2>1, <2>3 DEF OwnerOf, RunOf, PermitOf, RequestOk, ButFor, Fields
    <2>5. v.slot = q.slot /\ v.pc = q.pc BY ONLY <2>3 DEF ButFor, Fields
    <2> QED BY <2>1, <2>2, <2>4, <2>5, Aside DEF RequestOk, q
  <1>6. \/ q.pc = "sse" /\ \E quiet \in 0..cf.Silence : Proxy(cf)!SpawnDrain(r, quiet)
        \/ (Proxy(cf)!SseChunk(r) /\ q.here) \/ Proxy(cf)!SseEof(r) \/ Proxy(cf)!DrainChunk(r)
    BY <1>1 DEF Proxy!SseChunk, Proxy!SseFails, q
  <1> QED BY <1>2, <1>3, <1>4, <1>5, <1>6

\* A drain ends: at the end of its run, after a silence, or at its ceiling.
LEMMA DrainKept ==
  ASSUME NEW cf, Proxy(cf)!ProxyAssumption, ProxyInv(cf), NEW r \in cf.Reqs,
         Proxy(cf)!EndDrain(r), req[r].drain,
         \/ cf.Shutdown \/ req[r].run = "over" \/ req[r].clock >= cf.Silence
         \/ req[r].age >= cf.Ceiling
  PROVE  ProxyInv(cf)'
  <1> DEFINE q == req[r]
             run == Proxy(cf)!Dropped(q.run)
             v == [q EXCEPT !.drain = FALSE, !.conn = "ended", !.run = run]
  <1>0. q \in Proxy(cf)!Request /\ RequestOk(cf, q) BY DEF ProxyInv
  <1>1. req' = [req EXCEPT ![r] = v] /\ UNCHANGED <<free, waiters>>
    BY DEF Proxy!EndDrain, Proxy!Keep
  <1>2. q.drain /\ (\/ cf.Shutdown \/ q.run = "over" \/ q.clock >= cf.Silence
                    \/ q.age >= cf.Ceiling)
    OBVIOUS
  <1>3. /\ run \in {"none", "live", "over", "cut"}
        /\ run = (IF q.run = "live" THEN "cut" ELSE q.run)
    BY <1>0 DEF Proxy!Request, Proxy!Dropped
  <1>4. q.clock \in Nat /\ q.quiet \in Nat /\ cf.Silence \in Nat
    BY <1>0, LongestIs DEF Proxy!Request
  <1> HIDE DEF q, run
  <1>5. v \in Proxy(cf)!Request BY ONLY <1>0, <1>3, Edited
  <1>6. /\ ButFor(q, v, {"drain", "conn", "run"})
        /\ ~v.drain /\ v.conn = "ended" /\ v.run = run
    BY ONLY <1>0 DEF Proxy!Request, ButFor, Fields
  <1> HIDE DEF v
  <1>7. OwnerOf(cf, v) /\ PermitOf(cf, v)
    BY ONLY <1>0, <1>2, <1>6 DEF OwnerOf, PermitOf, RequestOk, ButFor, Fields
  <1>8. RunOf(cf, v)
    BY ONLY <1>0, <1>2, <1>3, <1>4, <1>6 DEF OwnerOf, RunOf, RequestOk, ButFor, Fields
  <1>9. v.slot = q.slot /\ v.pc = q.pc BY ONLY <1>6 DEF ButFor, Fields
  <1> QED BY <1>1, <1>5, <1>7, <1>8, <1>9, Aside DEF RequestOk, q

\* The runner cancels what still runs.
LEMMA CancelKept ==
  ASSUME NEW cf, Proxy(cf)!ProxyAssumption, ProxyInv(cf), NEW r \in cf.Reqs,
         Proxy(cf)!Cancel(r)
  PROVE  ProxyInv(cf)'
  <1> DEFINE q == req[r]
  <1>0. /\ q \in Proxy(cf)!Request /\ RequestOk(cf, q)
        /\ q.quiet \in 0..cf.Silence
        /\ q.pc \in {"idle", "asking", "queue", "first", "reading", "writing", "slotwait",
                     "sse", "end"}
    BY DEF ProxyInv, Proxy!Request
  <1>1. cf.Shutdown BY DEF Proxy!Cancel
  <1>2. CASE q.pc = "asking" BY <1>2, AskingKept
  <1>3. CASE q.pc = "queue"
    <2> DEFINE v == [q EXCEPT !.pc = "end", !.out = "error"]
    <2>1. /\ req' = [req EXCEPT ![r] = v] /\ waiters' = Removed(waiters, r)
          /\ UNCHANGED free
      BY <1>3, ProxyLists DEF Proxy!Cancel
    <2>2. q.pc = "queue" BY <1>3
    <2> HIDE DEF q
    <2>3. v \in Proxy(cf)!Request BY ONLY <1>0, Edited
    <2>4. ButFor(q, v, {"pc", "out"}) /\ v.pc = "end" /\ v.out = "error"
      BY ONLY <1>0 DEF Proxy!Request, ButFor, Fields
    <2> HIDE DEF v
    <2>5. OwnerOf(cf, v) /\ RunOf(cf, v) /\ PermitOf(cf, v) /\ ~q.slot /\ ~v.slot
      BY ONLY <1>0, <1>1, <2>2, <2>4 DEF OwnerOf, RunOf, PermitOf, RequestOk, ButFor, Fields
    <2>6. free' = IF req[r].slot THEN free + 1 ELSE free BY <2>1, <2>5 DEF q
    <2> QED BY <2>1, <2>3, <2>4, <2>5, <2>6, Leaves DEF RequestOk
  <1>4. CASE q.pc \in {"first", "reading", "writing", "slotwait"}
    BY <1>4, SettleKept DEF Proxy!Cancel
  <1>5. CASE q.pc = "sse"
    BY <1>5, <1>0, SpawnKept DEF Proxy!Cancel
  <1>6. CASE q.pc \in {"idle", "end"}
    BY <1>6, <1>1, DrainKept DEF Proxy!Cancel
  <1> QED BY <1>0, <1>2, <1>3, <1>4, <1>5, <1>6

\* Time passes: a drain's silence is no longer than its clock says.
LEMMA TickKept ==
  ASSUME NEW cf, Proxy(cf)!ProxyAssumption, ProxyInv(cf), Proxy(cf)!Tick
  PROVE  ProxyInv(cf)'
  <1> DEFINE Sooner(q) ==
        [q EXCEPT !.clock = IF Proxy(cf)!Timed(q) THEN Proxy(cf)!Later(@, Proxy(cf)!Longest) ELSE @,
                  !.age   = IF q.drain THEN Proxy(cf)!Later(@, cf.Ceiling) ELSE @,
                  !.quiet = IF q.run = "live" THEN Proxy(cf)!Later(@, cf.Silence) ELSE @]
  <1>1. /\ \A r \in cf.Reqs : req'[r] = Sooner(req[r])
        /\ DOMAIN req' = cf.Reqs /\ UNCHANGED <<free, waiters>>
        /\ req' = [r \in cf.Reqs |-> req'[r]]
    BY DEF Proxy!Tick, Proxy!Keep
  <1> HIDE DEF Sooner
  <1>2. ASSUME NEW q, q \in Proxy(cf)!Request, RequestOk(cf, q)
        PROVE  /\ RequestOk(cf, Sooner(q)) /\ Sooner(q).slot = q.slot /\ Sooner(q).pc = q.pc
    <2> DEFINE t == IF Proxy(cf)!Timed(q) THEN Proxy(cf)!Later(q.clock, Proxy(cf)!Longest) ELSE q.clock
               a == IF q.drain THEN Proxy(cf)!Later(q.age, cf.Ceiling) ELSE q.age
               n == IF q.run = "live" THEN Proxy(cf)!Later(q.quiet, cf.Silence) ELSE q.quiet
               v == [q EXCEPT !.clock = t, !.age = a, !.quiet = n]
    <2>1. Sooner(q) = v BY ONLY TRUE DEF Sooner
    <2>2. q.clock \in 0..Proxy(cf)!Longest /\ q.quiet \in 0..cf.Silence /\ q.age \in 0..cf.Ceiling
      BY ONLY <1>2 DEF Proxy!Request
    <2>3. /\ t \in 0..Proxy(cf)!Longest /\ a \in 0..cf.Ceiling /\ n \in 0..cf.Silence
          /\ t \in {q.clock, q.clock + 1} /\ a >= q.age /\ n >= q.quiet
          /\ q.run = "live" => (n = q.quiet + 1 \/ n = cf.Silence)
      BY <2>2, LongestIs DEF Proxy!Later
    <2> HIDE DEF t, a, n
    <2>4. v \in Proxy(cf)!Request BY ONLY <1>2, <2>3, Edited
    <2>5. ButFor(q, v, {"clock", "age", "quiet"}) /\ v.clock = t /\ v.age = a /\ v.quiet = n
      BY ONLY <1>2 DEF Proxy!Request, ButFor, Fields
    <2> HIDE DEF v
    <2>6. OwnerOf(cf, v) /\ PermitOf(cf, v) /\ v.slot = q.slot /\ v.pc = q.pc
      BY ONLY <1>2, <2>5 DEF OwnerOf, PermitOf, RequestOk, ButFor, Fields
    <2>7. RunOf(cf, v)
      BY <2>2, <2>3, LongestIs, <1>2, <2>5 DEF RunOf, RequestOk, ButFor, Fields
    <2> QED BY <2>1, <2>4, <2>6, <2>7 DEF RequestOk
  <1>3. \A r \in cf.Reqs : /\ RequestOk(cf, req'[r]) /\ req'[r].slot = req[r].slot
                           /\ req'[r].pc = req[r].pc
    BY <1>1, <1>2 DEF ProxyInv
  <1>4. req' \in [cf.Reqs -> Proxy(cf)!Request] BY <1>1, <1>3 DEF RequestOk
  <1>5. Holders(cf)' = Holders(cf) BY <1>3 DEF Holders
  <1>6. SlotFacts(cf)' BY <1>1, <1>3, <1>5 DEF SlotFacts, ProxyInv
  <1> QED BY <1>3, <1>4, <1>6 DEF ProxyInv, Proxy!Request

LEMMA ProxyKept ==
  ASSUME NEW cf, Proxy(cf)!ProxyAssumption, ProxyInv(cf), [Proxy(cf)!Next]_(Proxy(cf)!vars)
  PROVE  ProxyInv(cf)'
  <1>1. ASSUME NEW r \in cf.Reqs, Proxy(cf)!Timer(r) PROVE ProxyInv(cf)'
    <2>1. \/ Proxy(cf)!UploadStalls(r) \/ Proxy(cf)!HeaderDeadline(r) \/ Proxy(cf)!ReadDeadline(r)
          \/ /\ Proxy(cf)!EndDrain(r) /\ req[r].drain
             /\ req[r].clock >= cf.Silence \/ req[r].age >= cf.Ceiling
      BY <1>1 DEF Proxy!Timer, Proxy!DrainSilent, Proxy!DrainCeiling
    <2>2. CASE Proxy(cf)!UploadStalls(r) BY <2>2, AskingKept
    <2>5. CASE Proxy(cf)!HeaderDeadline(r)
      BY <2>5, Proxy(cf)!ProxyAssumption, ProxyInv(cf), r \in cf.Reqs, AskingKept
    <2>3. CASE Proxy(cf)!ReadDeadline(r) BY <2>3, StreamKept
    <2>4. CASE /\ Proxy(cf)!EndDrain(r) /\ req[r].drain
               /\ req[r].clock >= cf.Silence \/ req[r].age >= cf.Ceiling
      BY <2>4, DrainKept
    <2> QED BY <2>1, <2>2, <2>3, <2>4, <2>5
  <1>2. ASSUME NEW r \in cf.Reqs, Proxy(cf)!Handler(r) PROVE ProxyInv(cf)'
    BY <1>2, AskingKept, HandOverKept, AcquireKept, StreamKept, SseKept, DrainKept DEF Proxy!Handler,
       Proxy!DrainEof
  <1>3. ASSUME NEW r \in cf.Reqs, Proxy(cf)!Environment(r) PROVE ProxyInv(cf)'
    BY <1>3, ArriveKept, UploadKept, GatewayKept, StreamKept, SseKept, CancelKept DEF Proxy!Environment
  <1>4. CASE UNCHANGED <<req, free, waiters>>
    BY <1>4 DEF ProxyInv, SlotFacts, Holders, Proxy!Request
  <1> QED BY <1>1, <1>2, <1>3, <1>4, TickKept DEF Proxy!Next, Proxy!vars

\* A breach of the cap outranks every other reason to refuse.
LEMMA Outranked ==
  ASSUME NEW cf, ProxyInv(cf), [Proxy(cf)!Next]_(Proxy(cf)!vars)
  PROVE  Proxy(cf)!CapOutranks
  <1> SUFFICES ASSUME NEW r \in cf.Reqs, req[r].pc = "asking", req'[r].pc = "end", req[r].over
               PROVE  req'[r].out = "413"
    BY DEF Proxy!CapOutranks
  <1>0. req \in [cf.Reqs -> Proxy(cf)!Request] /\ \A x \in cf.Reqs : DOMAIN req[x] = Fields
    BY DEF Proxy!Request, Fields, ProxyInv
  <1>1. ASSUME NEW x \in cf.Reqs, NEW why, Proxy(cf)!GiveUp(x, why) PROVE req'[r].out = "413"
    BY <1>0, <1>1 DEF Proxy!GiveUp, Fields
  <1>2. ASSUME NEW x \in cf.Reqs, NEW why, Proxy(cf)!Settle(x, why), req[x].pc # "asking"
        PROVE  FALSE
    BY <1>0, <1>2 DEF Proxy!Settle
  <1>3. ASSUME NEW x \in cf.Reqs, NEW quiet, Proxy(cf)!SpawnDrain(x, quiet), req[x].pc = "sse"
        PROVE  FALSE
    BY <1>0, <1>3 DEF Proxy!SpawnDrain
  <1>4. ASSUME NEW x \in cf.Reqs, Proxy(cf)!EndDrain(x) PROVE FALSE
    BY <1>0, <1>4 DEF Proxy!EndDrain, Fields
  <1>5. ASSUME NEW x \in cf.Reqs, Proxy(cf)!Timer(x) PROVE req'[r].out = "413"
    BY <1>1, <1>2, <1>4, <1>5
    DEF Proxy!Timer, Proxy!UploadStalls, Proxy!HeaderDeadline, Proxy!ReadDeadline,
        Proxy!DrainSilent, Proxy!DrainCeiling
  <1>6. ASSUME NEW x \in cf.Reqs, Proxy(cf)!Handler(x) PROVE req'[r].out = "413"
    <2>1. \/ \E why : Proxy(cf)!GiveUp(x, why)
          \/ \E why : Proxy(cf)!Settle(x, why) /\ req[x].pc # "asking"
          \/ Proxy(cf)!EndDrain(x)
          \/ Proxy(cf)!HandOver(x) \/ Proxy(cf)!Acquire(x) \/ Proxy(cf)!SseEof(x)
          \/ Proxy(cf)!Write(x) /\ req[x].here
      BY <1>6
      DEF Proxy!Handler, Proxy!OverCap, Proxy!RequestFails, Proxy!Write, Proxy!DrainEof
    <2>2. ASSUME Proxy(cf)!HandOver(x) PROVE FALSE
      BY <2>2, <1>0 DEF Proxy!HandOver, Fields
    <2>3. ASSUME Proxy(cf)!Acquire(x) PROVE FALSE
      BY <1>0, <2>3 DEF Proxy!Acquire, Fields
    <2>4. ASSUME Proxy(cf)!SseEof(x) PROVE FALSE
      BY <1>0, <2>4 DEF Proxy!SseEof
    <2>5. ASSUME Proxy(cf)!Write(x), req[x].here PROVE FALSE
      BY <1>0, <2>5 DEF Proxy!Write, Fields
    <2> QED BY <1>1, <1>2, <1>4, <2>1, <2>2, <2>3, <2>4, <2>5
  <1>7. ASSUME NEW x \in cf.Reqs, Proxy(cf)!Environment(x) PROVE req'[r].out = "413"
    <2>1. ASSUME NEW sse \in cf.Accepts, NEW body \in cf.Bodies, Proxy(cf)!Arrive(x, sse, body)
          PROVE  FALSE
      BY <1>0, <2>1 DEF Proxy!Arrive
    <2>2. ASSUME Proxy(cf)!Leave(x) \/ Proxy(cf)!Feed(x) \/ Proxy(cf)!BodyEnd(x) PROVE FALSE
      BY <1>0, <2>2 DEF Proxy!Leave, Proxy!Feed, Proxy!BodyEnd, Fields
    <2>3. ASSUME NEW reply \in cf.Replies, Proxy(cf)!Answer(x, reply) PROVE FALSE
      BY <1>0, <2>3 DEF Proxy!Answer, Fields
    <2>4. ASSUME Proxy(cf)!Refuse(x) \/ Proxy(cf)!RunEnds(x) \/ Proxy(cf)!DrainChunk(x) PROVE FALSE
      BY <1>0, <2>4 DEF Proxy!Refuse, Proxy!RunEnds, Proxy!DrainChunk, Fields
    <2>5. ASSUME Proxy(cf)!FirstChunk(x), req[x].here PROVE FALSE
      BY <1>0, <2>5 DEF Proxy!FirstChunk, Fields
    <2>6. ASSUME Proxy(cf)!NextChunk(x) PROVE FALSE
      BY <1>0, <2>6 DEF Proxy!NextChunk, Fields
    <2>7. ASSUME Proxy(cf)!SseChunk(x), req[x].here PROVE FALSE
      BY <1>0, <2>7 DEF Proxy!SseChunk, Fields
    <2>8. CASE Proxy(cf)!Cancel(x)
      <3>1. \/ \E why : Proxy(cf)!GiveUp(x, why)
            \/ \E why : Proxy(cf)!Settle(x, why) /\ req[x].pc # "asking"
            \/ \E quiet : Proxy(cf)!SpawnDrain(x, quiet) /\ req[x].pc = "sse"
            \/ Proxy(cf)!EndDrain(x)
            \/ req[x].pc = "queue" /\ req' = [req EXCEPT ![x].pc = "end", ![x].out = "error"]
        BY <2>8 DEF Proxy!Cancel
      <3>2. ASSUME req[x].pc = "queue", req' = [req EXCEPT ![x].pc = "end", ![x].out = "error"]
            PROVE  FALSE
        BY <1>0, <3>2
      <3> QED BY <1>1, <1>2, <1>3, <1>4, <3>1, <3>2
    <2>9. \/ \E sse \in cf.Accepts, body \in cf.Bodies : Proxy(cf)!Arrive(x, sse, body)
          \/ Proxy(cf)!Leave(x) \/ Proxy(cf)!Feed(x) \/ Proxy(cf)!BodyEnd(x)
          \/ \E reply \in cf.Replies : Proxy(cf)!Answer(x, reply)
          \/ Proxy(cf)!Refuse(x) \/ Proxy(cf)!RunEnds(x) \/ Proxy(cf)!DrainChunk(x)
          \/ (Proxy(cf)!FirstChunk(x) /\ req[x].here) \/ Proxy(cf)!NextChunk(x)
          \/ (Proxy(cf)!SseChunk(x) /\ req[x].here) \/ Proxy(cf)!Cancel(x)
          \/ \E why : Proxy(cf)!Settle(x, why) /\ req[x].pc # "asking"
          \/ \E quiet : Proxy(cf)!SpawnDrain(x, quiet) /\ req[x].pc = "sse"
      BY <1>7
      DEF Proxy!Environment, Proxy!FirstChunk, Proxy!BodyEof, Proxy!ReadFails,
          Proxy!SseChunk, Proxy!SseFails
    <2> QED BY <1>2, <1>3, <2>1, <2>2, <2>3, <2>4, <2>5, <2>6, <2>7, <2>8, <2>9
  <1>8. CASE Proxy(cf)!Tick
    BY <1>0, <1>8 DEF Proxy!Tick, Fields
  <1>9. CASE UNCHANGED req BY <1>9
  <1> QED BY <1>5, <1>6, <1>7, <1>8, <1>9 DEF Proxy!Next, Proxy!vars

-----------------------------------------------------------------------------
(* The group: in every scenario its component keeps its invariant, whatever *)
(* the records of constants are.                                           *)

CarriersHold ==
    /\ scenario = "linked" => LinkInv(Linked)
    /\ scenario = "ticketed" => TicketInv(Ticketed)
    /\ scenario = "proxied" => ProxyInv(Proxied)
    /\ scenario = "queued" => ProxyInv(Queued)
    /\ scenario = "dismissed" => ProxyInv(Dismissed)

LEMMA CarriersStart == Init => CarriersHold
  <1> SUFFICES ASSUME Init PROVE CarriersHold OBVIOUS
  <1>1. ASSUME scenario = "linked" PROVE LinkInv(Linked)
    BY <1>1, Instances, LinkStarts DEF Init, Instances
  <1>2. ASSUME scenario = "ticketed" PROVE TicketInv(Ticketed)
    BY <1>2, TicketStarts DEF Init
  <1>3. ASSUME scenario = "proxied" PROVE ProxyInv(Proxied)
    BY <1>3, Instances, ProxyStarts DEF Init, Instances
  <1>4. ASSUME scenario = "queued" PROVE ProxyInv(Queued)
    BY <1>4, Instances, ProxyStarts DEF Init, Instances
  <1>5. ASSUME scenario = "dismissed" PROVE ProxyInv(Dismissed)
    BY <1>5, Instances, ProxyStarts DEF Init, Instances
  <1> QED BY <1>1, <1>2, <1>3, <1>4, <1>5 DEF CarriersHold

\* What the scenario at hand lets its component do.
LEMMA CarriersMove ==
  ASSUME [Next]_vars
  PROVE  /\ scenario' = scenario
         /\ scenario = "linked" => [Link(Linked)!Next]_(Link(Linked)!vars)
         /\ scenario = "ticketed" => [Ticket(Ticketed)!Next]_(Ticket(Ticketed)!vars)
         /\ scenario = "proxied" => [Proxy(Proxied)!Next]_(Proxy(Proxied)!vars)
         /\ scenario = "queued" => [Proxy(Queued)!Next]_(Proxy(Queued)!vars)
         /\ scenario = "dismissed" => [Proxy(Dismissed)!Next]_(Proxy(Dismissed)!vars)
  <1>1. CASE Next BY <1>1 DEF Next
  <1>2. CASE UNCHANGED vars
    BY <1>2 DEF vars, BridgeVars, Link!vars, Link!upstream, Link!link, TicketVars, Ticket!vars,
       ProxyVars, Proxy!vars
  <1> QED BY <1>1, <1>2

LEMMA CarriersKeep == CarriersHold /\ [Next]_vars => CarriersHold'
  <1> SUFFICES ASSUME CarriersHold, [Next]_vars PROVE CarriersHold' OBVIOUS
  <1>0. scenario' = scenario BY CarriersMove
  <1>1. ASSUME scenario = "linked" PROVE LinkInv(Linked)'
    BY <1>1, CarriersMove, Instances, LinkKept DEF Instances, CarriersHold
  <1>2. ASSUME scenario = "ticketed" PROVE TicketInv(Ticketed)'
    BY <1>2, CarriersMove, TicketKept DEF CarriersHold
  <1>3. ASSUME scenario = "proxied" PROVE ProxyInv(Proxied)'
    BY <1>3, CarriersMove, Instances, ProxyKept DEF Instances, CarriersHold
  <1>4. ASSUME scenario = "queued" PROVE ProxyInv(Queued)'
    BY <1>4, CarriersMove, Instances, ProxyKept DEF Instances, CarriersHold
  <1>5. ASSUME scenario = "dismissed" PROVE ProxyInv(Dismissed)'
    BY <1>5, CarriersMove, Instances, ProxyKept DEF Instances, CarriersHold
  <1> QED BY <1>0, <1>1, <1>2, <1>3, <1>4, <1>5 DEF CarriersHold

LEMMA CarriersHoldAlways == Spec => []CarriersHold
  BY CarriersStart, CarriersKeep, PTL DEF Spec

\* A ready link is subscribed to every attached session on its own connection,
\* relays a request once and only where the app may write, and tells the app
\* the truth about itself (ws/bridge.py); a ticket opens one link, however its
\* upgrade request is cut into pieces (web/serve.py): for any sessions,
\* connections, tickets, drops, gaps and restarts.
THEOREM LinkIsHonest == Spec => []LinkHonest
  <1>1. CarriersHold => LinkHonest
    BY Instances, LinkImplies, TicketImplies DEF Instances, CarriersHold, LinkHonest
  <1> QED BY <1>1, CarriersHoldAlways, PTL

\* While the runner is not shutting down, whatever races, one owner has each
\* gateway connection, a run outlives its browser until the drain's own limits;
\* and always the permits of big responses are conserved and a truncated
\* upload is never answered as if it were whole (web/serve.py).
THEOREM ProxyIsOwner ==
  ASSUME ~Proxied.Shutdown
  PROVE  Spec => []ProxyOwns
  <1>1. CarriersHold => ProxyOwns
    <2>1. /\ Proxy(Proxied)!ProxyAssumption /\ Proxy(Queued)!ProxyAssumption
          /\ Proxy(Dismissed)!ProxyAssumption
      BY Instances DEF Instances
    <2>2. ASSUME CarriersHold, scenario = "proxied"
          PROVE  /\ Proxy(Proxied)!TypeOK /\ Proxy(Proxied)!NoHalfOwned
                 /\ Proxy(Proxied)!TruncatedNeverRelayed /\ Proxy(Proxied)!RunOutlivesBrowser
      BY <2>1, <2>2, ProxyImplies DEF CarriersHold
    <2>3. ASSUME CarriersHold, scenario = "queued"
          PROVE  /\ Proxy(Queued)!TypeOK /\ Proxy(Queued)!BigNeedsPermit
                 /\ Proxy(Queued)!PermitsConserved
      BY <2>1, <2>3, ProxyImplies DEF CarriersHold
    <2>4. ASSUME CarriersHold, scenario = "dismissed"
          PROVE  Proxy(Dismissed)!TypeOK /\ Proxy(Dismissed)!PermitsConserved
      BY <2>1, <2>4, ProxyImplies DEF CarriersHold
    <2> QED BY <2>2, <2>3, <2>4 DEF ProxyOwns
  <1> QED BY <1>1, CarriersHoldAlways, PTL

=============================================================================
